--------------------------- MODULE ListingClaims ---------------------------
(***************************************************************************)
(* Food listings and the claims on them: ClaimsService, the writing half   *)
(* of FoodListingService and the expiry job of ListingWorker.              *)
(*                                                                         *)
(* A handler in progress is a record in req[s]; the record holds what the  *)
(* handler read and will act on.  claimListing takes the row lock of the   *)
(* listing first; confirmClaim, markCollected, rateClaim,                  *)
(* submitProviderFeedback, cancelListing and expireListingIfDue read and   *)
(* check first and write later, in a transaction that does not read again. *)
(*                                                                         *)
(* A definition named X_Y, placed before X, is the mutant Y of X: the same *)
(* code with one plausible mistake.  No specification uses it; it replaces *)
(* X to show that a property would catch the mistake.                      *)
(***************************************************************************)
EXTENDS MarketStore

CONSTANTS
    Providers,    \* the organisations that list food
    Callers,      \* claimants: organisation and site of the caller's token
    MaxQty,       \* bound on the kg of one item
    MaxLines,     \* bound on the lines of a partial claim
    OfferedTypes, \* the listing types the providers use
    ClaimColumns  \* the column names of table food_claims

ASSUME ClaimsAssumption ==
    /\ Providers \subseteq Orgs
    /\ Callers \subseteq [org: Orgs, site: Sites \cup {Null}]
    /\ OfferedTypes \subseteq ListingTypes
    /\ MaxQty \in Nat
    /\ MaxLines \in Nat

VARIABLE req

claimsVars == <<storeVars, req>>

Idle == [op |-> "idle"]

\* What each handler holds between its two steps.
ClaimReq ==
    [op: {"claim"}, listing: Listings, org: Orgs, site: Sites \cup {Null},
     qty: [Items -> Int], left: Int]
ConfirmReq == [op: {"confirm"}, claim: Claims]
CollectReq ==
    [op: {"collect"}, claim: Claims, listingStatus: ListingStatus, rate: BOOLEAN]
RateReq == [op: {"rate"}, claim: Claims]
FeedbackReq == [op: {"feedback"}, claim: Claims, rate: BOOLEAN]
CancelListingReq == [op: {"cancelListing"}, listing: Listings]
ExpireReq == [op: {"expire"}, listing: Listings]

Request ==
    {Idle} \cup ClaimReq \cup ConfirmReq \cup CollectReq \cup RateReq
      \cup FeedbackReq \cup CancelListingReq \cup ExpireReq

ClaimsTypeOK ==
    /\ StoreTypeOK
    /\ req \in [Slots -> Request]

ClaimsInit ==
    /\ StoreInit
    /\ req = [s \in Slots |-> Idle]

Start(s, r) == req[s] = Idle /\ req' = [req EXCEPT ![s] = r]
Done(s) == req' = [req EXCEPT ![s] = Idle]

\* SELECT ... FOR UPDATE waits for the row lock and takes it.
LockRow_Missing(s, l) == UNCHANGED lock

LockRow(s, l) == lock[l] = Null /\ lock' = [lock EXCEPT ![l] = s]

-----------------------------------------------------------------------------
(* Listings *)

(***************************************************************************)
(* createListing: one transaction that no other handler can observe half   *)
(* done.  qty gives every item of the dto a positive weight; 0 means the   *)
(* item is not part of this listing.                                       *)
(***************************************************************************)
CreateListing(o, l, type, qty) ==
    /\ listing[l].status = "NONE"
    /\ \E i \in Items : qty[i] > 0
    /\ listing' = [listing EXCEPT ![l] =
            [NoListing EXCEPT !.status = "ACTIVE", !.org = o, !.type = type,
                              !.total = Kg(qty), !.remaining = Kg(qty)]]
    /\ stock' = [stock EXCEPT ![l] =
            [i \in Items |-> [total |-> qty[i], remaining |-> qty[i]]]]
    /\ UNCHANGED <<claim, pickup, day, ratingCount, lock, req>>

\* The clock reaches the earlier of pickupByTime and bestBefore.
DeadlinePasses(l) ==
    /\ listing[l].status # "NONE"
    /\ ~listing[l].due
    /\ listing' = [listing EXCEPT ![l].due = TRUE]
    /\ UNCHANGED <<stock, claim, pickup, day, ratingCount, lock, req>>

\* cancelListing: the read and the check ...
CancelListingRead(s, o, l) ==
    /\ listing[l].status # "NONE"
    /\ listing[l].org = o
    /\ listing[l].status # "CLAIMED"
    /\ Start(s, [op |-> "cancelListing", listing |-> l])
    /\ UNCHANGED storeVars

\* ... and the update by id, which waits for the row lock and nothing else.
CancelListingWrite_NoWait(s) ==
    /\ req[s].op = "cancelListing"
    /\ listing' = [listing EXCEPT ![req[s].listing].status = "CANCELLED"]
    /\ Done(s)
    /\ UNCHANGED <<stock, claim, pickup, day, ratingCount, lock>>

CancelListingWrite(s) ==
    /\ req[s].op = "cancelListing"
    /\ RowFree(req[s].listing)
    /\ listing' = [listing EXCEPT ![req[s].listing].status = "CANCELLED"]
    /\ Done(s)
    /\ UNCHANGED <<stock, claim, pickup, day, ratingCount, lock>>

\* expireListingIfDue: on offer, past its window and not reserved.
Expirable_ActiveOnly(l) ==
    listing[l].status = "ACTIVE" /\ listing[l].due /\ ~isExclusive(listing[l])

Expirable(l) == OpenListing(l) /\ listing[l].due /\ ~isExclusive(listing[l])

(***************************************************************************)
(* expireListingIfDue, from the delayed job of a listing or from the       *)
(* five-minute sweep.  A job that finds nothing to do, or fires early and  *)
(* reschedules itself, changes no table.                                   *)
(***************************************************************************)
ExpireRead(s, l) ==
    /\ Expirable(l)
    /\ Start(s, [op |-> "expire", listing |-> l])
    /\ UNCHANGED storeVars

ExpireWrite(s) ==
    /\ req[s].op = "expire"
    /\ RowFree(req[s].listing)
    /\ listing' = [listing EXCEPT ![req[s].listing].status = "EXPIRED"]
    /\ day' = SettleDay(req[s].listing, "MISSED")
    /\ Done(s)
    /\ UNCHANGED <<stock, claim, pickup, ratingCount, lock>>

-----------------------------------------------------------------------------
(* Claims *)

\* CLAIMANT_TYPES: the organisation types that may claim a type of listing.
ClaimantTypes(type) ==
    CASE type = "HUMAN"  -> {"CHARITY"}
      [] type = "ANIMAL" -> {"FARMER_CONSUMER"}
      [] type = "BOTH"   -> {"CHARITY", "FARMER_CONSUMER"}

\* connection.rules assertCanClaim: the preferred charity while the listing is
\* reserved, and everyone but a charity that declined it afterwards.
assertCanClaim(row, o) ==
    /\ ~ (row.exclusiveTo = o /\ row.released = "CHARITY_DECLINED")
    /\ isExclusive(row) => row.exclusiveTo = o

(***************************************************************************)
(* existingActiveClaim: a claim that is not cancelled, of the caller's     *)
(* organisation, from the caller's site or from no site at all.            *)
(***************************************************************************)
HasActiveClaim_PendingOnly(l, u) ==
    \E c \in Claims :
        /\ claim[c].status = "PENDING"
        /\ claim[c].listing = l
        /\ claim[c].org = u.org
        /\ claim[c].site \in {u.site, Null}

HasActiveClaim_SameSite(l, u) ==
    \E c \in Claims :
        LiveClaim(c) /\ claim[c].listing = l /\ claim[c].org = u.org /\ claim[c].site = u.site

HasActiveClaim(l, u) ==
    \E c \in Claims :
        /\ LiveClaim(c)
        /\ claim[c].listing = l
        /\ claim[c].org = u.org
        /\ claim[c].site \in {u.site, Null}

\* The dto of a partial claim: lines of one item and a positive weight each.
Lines == UNION {[1 .. n -> Items \X (1 .. MaxQty)] : n \in 1 .. MaxLines}

\* A full claim takes everything that remains ...
FullQty(l) ==
    [i \in Items |-> IF stock[l][i].remaining > 0 THEN stock[l][i].remaining ELSE 0]

\* ... a partial claim what its lines add up to,
LinesQty(lines) ==
    [i \in Items |->
        Kg([n \in {m \in DOMAIN lines : lines[m][1] = i} |-> lines[n][2]])]

\* every line having been compared with what remains of its item.
LinesAllowed(l, lines) ==
    \A n \in DOMAIN lines : lines[n][2] <= stock[l][lines[n][1]].remaining

\* The bound MaxClaims, with a row set aside for every claim in progress.
ClaimRoom ==
    Cardinality({c \in Claims : claim[c].status = "NONE"})
      > Cardinality({s \in Slots : req[s].op = "claim"})

(***************************************************************************)
(* claimListing up to its first write: the row lock, and every check made  *)
(* under it.  left is the remaining weight the handler computed from the   *)
(* row it read and will store as it is.                                    *)
(***************************************************************************)
ClaimRead(s, u, l, qty) ==
    /\ ClaimRoom
    /\ LockRow(s, l)
    /\ OpenListing(l)
    /\ ~listing[l].due
    /\ listing[l].org # u.org
    /\ assertCanClaim(listing[l], u.org)
    /\ OrgType[u.org] \in ClaimantTypes(listing[l].type)
    /\ ~HasActiveClaim(l, u)
    /\ Start(s, [op |-> "claim", listing |-> l, org |-> u.org, site |-> u.site,
                 qty |-> qty, left |-> listing[l].remaining - Kg(qty)])
    /\ UNCHANGED <<listing, stock, claim, pickup, day, ratingCount>>

ClaimFull(s, u, l) ==
    /\ \E i \in Items : stock[l][i].remaining > 0
    /\ ClaimRead(s, u, l, FullQty(l))

ClaimPartial(s, u, l, lines) ==
    /\ LinesAllowed(l, lines)
    /\ ClaimRead(s, u, l, LinesQty(lines))

\* The status a claim leaves the listing in.
StatusAfterClaim_OffByOne(left) == IF left < 0 THEN "CLAIMED" ELSE "PARTIAL"

StatusAfterClaim(left) == IF left <= 0 THEN "CLAIMED" ELSE "PARTIAL"

\* food_items after a claim took qty from listing l.
TakeStock_Clamped(l, qty) ==
    [stock EXCEPT ![l] =
        [i \in Items |-> [stock[l][i] EXCEPT
            !.remaining = IF @ > qty[i] THEN @ - qty[i] ELSE 0]]]

TakeStock(l, qty) ==
    [stock EXCEPT ![l] =
        [i \in Items |-> [stock[l][i] EXCEPT !.remaining = @ - qty[i]]]]

ClaimWrite(s) ==
    /\ req[s].op = "claim"
    /\ \E c \in Claims :
        /\ NextClaim(c)
        /\ claim' = [claim EXCEPT ![c] =
                [status |-> "PENDING", listing |-> req[s].listing, org |-> req[s].org,
                 site |-> req[s].site, qty |-> req[s].qty,
                 rated |-> FALSE, feedback |-> FALSE]]
    /\ stock' = TakeStock(req[s].listing, req[s].qty)
    /\ listing' = [listing EXCEPT
            ![req[s].listing].remaining = req[s].left,
            ![req[s].listing].status = StatusAfterClaim(req[s].left)]
    /\ lock' = [lock EXCEPT ![req[s].listing] = Null]
    /\ Done(s)
    /\ UNCHANGED <<pickup, day, ratingCount>>

\* confirmClaim: only a PENDING claim, as far as the read shows.
ConfirmRead_Unchecked(s, o, c) ==
    /\ claim[c].status \in ClaimStatus \ {"CANCELLED"}
    /\ listing[claim[c].listing].org = o
    /\ Start(s, [op |-> "confirm", claim |-> c])
    /\ UNCHANGED storeVars

ConfirmRead(s, o, c) ==
    /\ claim[c].status = "PENDING"
    /\ listing[claim[c].listing].org = o
    /\ Start(s, [op |-> "confirm", claim |-> c])
    /\ UNCHANGED storeVars

ConfirmWrite(s) ==
    /\ req[s].op = "confirm"
    /\ claim' = [claim EXCEPT ![req[s].claim].status = "CONFIRMED"]
    /\ Done(s)
    /\ UNCHANGED <<listing, stock, pickup, day, ratingCount, lock>>

(***************************************************************************)
(* cancelClaim begins with a SELECT ... FOR UPDATE that joins              *)
(* food_claims.listing_id.  If the table has no such column the query      *)
(* fails and the transaction is rolled back before it writes anything.     *)
(***************************************************************************)
LockQueryResolves == "listing_id" \in ClaimColumns

\* food_items after a cancelled claim gave qty back to listing l,
ReturnStock_Forgotten(l, qty) == stock

ReturnStock(l, qty) ==
    [stock EXCEPT ![l] =
        [i \in Items |-> [stock[l][i] EXCEPT !.remaining = @ + qty[i]]]]

\* and the status of the listing, whose remaining weight is now left.
StatusAfterCancel_Kept(l, left) == listing[l].status

StatusAfterCancel(l, left) ==
    CASE listing[l].status \in {"CANCELLED", "EXPIRED"} -> listing[l].status
      [] listing[l].status \notin {"CANCELLED", "EXPIRED"} /\ left >= listing[l].total
           -> "ACTIVE"
      [] OTHER -> "PARTIAL"

\* A claim that is neither collected nor cancelled.
Cancellable_PendingOnly(c) == claim[c].status = "PENDING"

Cancellable(c) == claim[c].status \in {"PENDING", "CONFIRMED"}

\* Holding both row locks from its first statement on, the transaction is one step.
CancelLocked(o, c) ==
    LET l == claim[c].listing
        left == listing[l].remaining + Kg(claim[c].qty)
    IN  /\ Cancellable(c)
        /\ o \in {claim[c].org, listing[l].org}
        /\ RowFree(l)
        /\ stock' = ReturnStock(l, claim[c].qty)
        /\ listing' = [listing EXCEPT ![l].remaining = left,
                                      ![l].status = StatusAfterCancel(l, left)]
        /\ claim' = [claim EXCEPT ![c].status = "CANCELLED"]
        /\ UNCHANGED <<pickup, day, ratingCount, lock>>

\* A failed query is answered with an error, and the claim stays as it is.
CancelClaim(s, o, c) ==
    /\ req[s] = Idle
    /\ IF LockQueryResolves THEN CancelLocked(o, c) ELSE UNCHANGED storeVars
    /\ UNCHANGED req

\* markCollected: claim, listing status and driver pickups are read first.
CollectRead(s, o, c, rate) ==
    /\ claim[c].status \in {"PENDING", "CONFIRMED"}
    /\ claim[c].org = o
    /\ ~HasCurrentPickup(c)
    /\ Start(s, [op |-> "collect", claim |-> c,
                 listingStatus |-> listing[claim[c].listing].status, rate |-> rate])
    /\ UNCHANGED storeVars

\* updateMany is conditional on the status; if it matches no row, the handler
\* answers "Already marked as collected" and writes nothing.
CollectWrite(s) ==
    LET c == req[s].claim
        o == listing[claim[c].listing].org
    IN  /\ req[s].op = "collect"
        /\ IF claim[c].status \in {"CONFIRMED", "PENDING"}
           THEN /\ claim' = [claim EXCEPT ![c].status = "COLLECTED",
                                          ![c].rated = @ \/ req[s].rate]
                /\ ratingCount' = IF req[s].rate
                                  THEN [ratingCount EXCEPT ![o] = @ + 1]
                                  ELSE ratingCount
                /\ day' = CollectDay(claim[c].listing, req[s].listingStatus)
           ELSE UNCHANGED <<claim, ratingCount, day>>
        /\ Done(s)
        /\ UNCHANGED <<listing, stock, pickup, lock>>

\* rateClaim: the claimant rates a collection that has no rating yet.
RateRead(s, o, c) ==
    /\ claim[c].status = "COLLECTED"
    /\ claim[c].org = o
    /\ ~claim[c].rated
    /\ Start(s, [op |-> "rate", claim |-> c])
    /\ UNCHANGED storeVars

RateWrite(s) ==
    /\ req[s].op = "rate"
    /\ claim' = [claim EXCEPT ![req[s].claim].rated = TRUE]
    /\ ratingCount' =
            [ratingCount EXCEPT ![listing[claim[req[s].claim].listing].org] = @ + 1]
    /\ Done(s)
    /\ UNCHANGED <<listing, stock, pickup, day, lock>>

\* submitProviderFeedback: rate is didCollect, which carries a rating; a
\* report that the collection did not take place carries none that counts.
FeedbackRead(s, o, c, rate) ==
    /\ claim[c].status = "COLLECTED"
    /\ listing[claim[c].listing].org = o
    /\ ~claim[c].feedback
    /\ Start(s, [op |-> "feedback", claim |-> c, rate |-> rate])
    /\ UNCHANGED storeVars

FeedbackWrite(s) ==
    /\ req[s].op = "feedback"
    /\ claim' = [claim EXCEPT ![req[s].claim].feedback = TRUE]
    /\ ratingCount' = IF req[s].rate
                      THEN [ratingCount EXCEPT ![claim[req[s].claim].org] = @ + 1]
                      ELSE ratingCount
    /\ Done(s)
    /\ UNCHANGED <<listing, stock, pickup, day, lock>>

(***************************************************************************)
(* The process dies, or the database refuses the statement: the request    *)
(* ends with nothing written and its transaction releases the row lock.    *)
(***************************************************************************)
Crash(s) ==
    /\ req[s] # Idle
    /\ lock' = [l \in Listings |-> IF lock[l] = s THEN Null ELSE lock[l]]
    /\ Done(s)
    /\ UNCHANGED <<listing, stock, claim, pickup, day, ratingCount>>

-----------------------------------------------------------------------------
Terminate(s) ==
    \/ ClaimWrite(s)
    \/ ConfirmWrite(s)
    \/ CollectWrite(s)
    \/ RateWrite(s)
    \/ FeedbackWrite(s)
    \/ CancelListingWrite(s)
    \/ ExpireWrite(s)

ClaimsNext ==
    \/ \E o \in Providers, l \in Listings, type \in OfferedTypes :
        \E qty \in [Items -> 0 .. MaxQty] : CreateListing(o, l, type, qty)
    \/ \E l \in Listings : DeadlinePasses(l)
    \/ \E s \in Requests, u \in Callers, l \in Listings :
        \/ ClaimFull(s, u, l)
        \/ \E lines \in Lines : ClaimPartial(s, u, l, lines)
    \/ \E s \in Requests, o \in Orgs :
        \/ \E l \in Listings : CancelListingRead(s, o, l)
        \/ \E c \in Claims :
            \/ ConfirmRead(s, o, c)
            \/ CancelClaim(s, o, c)
            \/ RateRead(s, o, c)
            \/ \E rate \in BOOLEAN :
                \/ CollectRead(s, o, c, rate)
                \/ FeedbackRead(s, o, c, rate)
    \/ \E s \in Workers, l \in Listings : ExpireRead(s, l)
    \/ \E s \in Slots : Terminate(s) \/ Crash(s)

ClaimsSpec == ClaimsInit /\ [][ClaimsNext]_claimsVars


(***************************************************************************)
(* A request or a job that is retried is not killed for ever, and the      *)
(* waiters of a row lock are served in turn, so steps that are enabled     *)
(* again and again are taken.  The sweep runs every five minutes and finds *)
(* every overdue listing, whatever happened to its delayed job.            *)
(***************************************************************************)
ClaimsFairness ==
    /\ \A s \in Slots : SF_claimsVars(Terminate(s))
    /\ \A s \in Workers, l \in Listings : SF_claimsVars(ExpireRead(s, l))

ClaimsFairSpec == ClaimsSpec /\ ClaimsFairness

\* The claimant asks again until the claim is cancelled.
CancelFairness ==
    \A c \in Claims :
        SF_claimsVars(\E s \in Requests, o \in Orgs :
                         o = claim[c].org /\ CancelClaim(s, o, c))

ClaimsCancelSpec == ClaimsFairSpec /\ CancelFairness

-----------------------------------------------------------------------------
(* Properties *)

(***************************************************************************)
(* claimListing lets a site of an organisation have one claim on a listing *)
(* that is not cancelled: two requests of the same site racing each other  *)
(* never both succeed, whatever else runs between their steps.             *)
(***************************************************************************)
OneClaimPerSite ==
    \A b, c \in Claims :
        /\ b # c
        /\ LiveClaim(b)
        /\ LiveClaim(c)
        /\ claim[b].listing = claim[c].listing
        /\ claim[b].org = claim[c].org
        => claim[b].site # claim[c].site

(***************************************************************************)
(* A claim made without a site blocks the whole organisation, so it is the *)
(* last one its organisation makes on the listing.                         *)
(***************************************************************************)
HeadOfficeClaimIsLast ==
    \A b, c \in Claims :
        /\ b < c
        /\ LiveClaim(b)
        /\ LiveClaim(c)
        /\ claim[b].listing = claim[c].listing
        /\ claim[b].org = claim[c].org
        => claim[b].site # Null

(***************************************************************************)
(* Every kilogram of an item is either still on offer or in exactly one    *)
(* claim that is not cancelled: what claimListing takes and cancelClaim    *)
(* gives back adds up to what was listed.                                  *)
(***************************************************************************)
StockConserved ==
    \A l \in Listings, i \in Items :
        stock[l][i].remaining
          + Kg([c \in {d \in Claims : LiveClaim(d) /\ claim[d].listing = l}
                    |-> claim[c].qty[i]])
        = stock[l][i].total

(***************************************************************************)
(* The remaining weight stored on the listing, which claimListing computes *)
(* from the row it read and overwrites, is the sum over its items, which   *)
(* are decremented one by one.                                             *)
(***************************************************************************)
ListingTotalsAgree ==
    \A l \in Listings :
        listing[l].remaining = Kg([i \in Items |-> stock[l][i].remaining])

(***************************************************************************)
(* The status of a listing tells what is left of it: ACTIVE means that     *)
(* nothing is taken, PARTIAL that something is left and CLAIMED that       *)
(* nothing is.  No interleaving of claims, cancellations and expiry leaves *)
(* the status behind the stock.                                            *)
(***************************************************************************)
StatusMatchesStock ==
    \A l \in Listings :
        /\ listing[l].status = "ACTIVE" => listing[l].remaining = listing[l].total
        /\ listing[l].status = "PARTIAL" => listing[l].remaining > 0
        /\ listing[l].status = "CLAIMED" => listing[l].remaining <= 0

(***************************************************************************)
(* claimListing refuses a listing that is not on offer, and its row lock   *)
(* keeps a concurrent cancellation or expiry out until it has committed:   *)
(* a claim is only ever added to a listing that is on offer at that moment.*)
(***************************************************************************)
ClaimsOnlyOnOpenListings ==
    [][\A c \in Claims :
          claim[c].status = "NONE" /\ claim'[c].status # "NONE"
            => OpenListing(claim'[c].listing)]_claimsVars

(***************************************************************************)
(* expireListingIfDue: a listing on offer whose window has ended, and that *)
(* is not reserved, is taken off offer even if jobs die on the way.        *)
(***************************************************************************)
DueListingsClose ==
    \A l \in Listings :
        OpenListing(l) /\ listing[l].due /\ ~isExclusive(listing[l])
          ~> ~OpenListing(l)

(***************************************************************************)
(* A collection is final: nothing takes a claim out of COLLECTED.          *)
(***************************************************************************)
CollectedIsFinal ==
    [][\A c \in Claims :
          claim[c].status = "COLLECTED" => claim'[c].status = "COLLECTED"]_claimsVars

(***************************************************************************)
(* A fully claimed listing cannot be cancelled or expire (cancelListing    *)
(* answers "Cannot cancel a fully claimed listing").                       *)
(***************************************************************************)
FullyClaimedStaysClaimed ==
    [][\A l \in Listings :
          listing[l].status = "CLAIMED"
            => listing'[l].status \notin {"CANCELLED", "EXPIRED"}]_claimsVars

(***************************************************************************)
(* No more of an item is claimed than remains of it (claimListing answers  *)
(* "Only ... kg remaining").                                               *)
(***************************************************************************)
NoOverdraw ==
    \A l \in Listings, i \in Items : stock[l][i].remaining >= 0

(***************************************************************************)
(* An organisation's ratingCount is the number of collections for which it *)
(* was rated: each claim is rated once by the claimant and once by the     *)
(* provider, in markCollected, rateClaim or submitProviderFeedback.        *)
(***************************************************************************)
RatingsBounded ==
    \A o \in Orgs :
        ratingCount[o]
          <= Cardinality({c \in Claims : claim[c].rated /\ listing[claim[c].listing].org = o})
             + Cardinality({c \in Claims : claim[c].feedback /\ claim[c].org = o})

(***************************************************************************)
(* A claimant who keeps asking to cancel an open claim gets it cancelled,  *)
(* unless the food is collected first (DELETE /api/v1/claims/{id}).        *)
(***************************************************************************)
CancelTakesEffect ==
    \A c \in Claims :
        claim[c].status \in {"PENDING", "CONFIRMED"}
          ~> claim[c].status \in {"CANCELLED", "COLLECTED"}
=============================================================================
