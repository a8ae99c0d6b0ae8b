------------------------ MODULE ListingClaims_proofs ------------------------
(***************************************************************************)
(* Proofs about ListingClaims, for any number of organisations, listings,  *)
(* items, claims and requests in progress.                                 *)
(***************************************************************************)
EXTENDS ListingClaims, FiniteSetTheorems, TLAPS

OnClaim == {"confirm", "collect", "rate", "feedback"}
OnListing == {"claim", "cancelListing", "expire"}

\* A claim refers to a listing that exists,
ClaimLinks ==
    \A c \in Claims :
        claim[c].status # "NONE"
          => /\ claim[c].listing \in Listings
             /\ listing[claim[c].listing].status # "NONE"

\* and a request in progress to a claim or a listing that exists.
RequestLinks ==
    \A s \in Slots :
        /\ req[s].op \in OnClaim => claim[req[s].claim].status # "NONE"
        /\ req[s].op \in OnListing => listing[req[s].listing].status # "NONE"

TypeInv == ClaimsTypeOK /\ ClaimLinks /\ RequestLinks

\* The request between the two halves of claimListing holds the row lock, and
\* what it found under the lock is still true.
LockInv ==
    \A s \in Slots :
        req[s].op = "claim"
          => lock[req[s].listing] = s /\ OpenListing(req[s].listing)

-----------------------------------------------------------------------------
(* What a request in progress holds, by its kind. *)
LEMMA RequestShape ==
    ASSUME NEW r \in Request
    PROVE  /\ r.op = "claim" => r \in ClaimReq
           /\ r.op = "confirm" => r \in ConfirmReq
           /\ r.op = "collect" => r \in CollectReq
           /\ r.op = "rate" => r \in RateReq
           /\ r.op = "feedback" => r \in FeedbackReq
           /\ r.op = "cancelListing" => r \in CancelListingReq
           /\ r.op = "expire" => r \in ExpireReq
           /\ r.op = "idle" => r = Idle
BY DEF Request, Idle, ClaimReq, ConfirmReq, CollectReq, RateReq, FeedbackReq,
       CancelListingReq, ExpireReq

(* A sum of kilograms is an integer. *)
LEMMA KgType ==
    ASSUME NEW f
    PROVE  Kg(f) \in Int
BY DEF Kg

LEMMA StoreTypeInit == StoreInit => StoreTypeOK
BY StoreAssumption DEF StoreInit, TablesInit, StoreTypeOK, NoListing, ListingRow, ItemRow, NoClaim,
   ClaimRow, NoPickup, PickupRow, NoDay, DayRow, ListingStatus, ListingTypes,
   ListingReleaseReason, ClaimStatus, DriverPickupStatus, ConnectionDayOutcome, Slots

LEMMA TypeInvInit == ClaimsInit => TypeInv
<1> SUFFICES ASSUME ClaimsInit PROVE TypeInv
  OBVIOUS
<1>1. ClaimsTypeOK
  BY StoreTypeInit DEF ClaimsInit, ClaimsTypeOK, Request
<1>2. ClaimLinks
  BY DEF ClaimsInit, StoreInit, TablesInit, ClaimLinks, NoClaim
<1>3. RequestLinks
  BY DEF ClaimsInit, RequestLinks, Idle, OnClaim, OnListing
<1> QED
  BY <1>1, <1>2, <1>3 DEF TypeInv

(* A handler that only reads registers a well-formed request. *)
LEMMA ReadTypeInv ==
    ASSUME TypeInv, UNCHANGED storeVars,
           NEW s \in Slots, NEW r \in Request, Start(s, r),
           r.op \in OnClaim => claim[r.claim].status # "NONE",
           r.op \in OnListing => listing[r.listing].status # "NONE"
    PROVE  TypeInv'
<1>1. ClaimsTypeOK'
  BY DEF TypeInv, ClaimsTypeOK, StoreTypeOK, storeVars, Start
<1>2. ClaimLinks'
  BY DEF TypeInv, ClaimLinks, storeVars
<1>3. RequestLinks'
  BY DEF TypeInv, ClaimsTypeOK, RequestLinks, storeVars, Start
<1> QED
  BY <1>1, <1>2, <1>3 DEF TypeInv

LEMMA CancelListingReadTypeInv ==
    ASSUME TypeInv, NEW s \in Requests, NEW o \in Orgs, NEW l \in Listings,
           CancelListingRead(s, o, l)
    PROVE  TypeInv'
<1> DEFINE r == req'[s]
<1>1. s \in Slots /\ UNCHANGED storeVars
  BY DEF Slots, CancelListingRead
<1>2. r \in CancelListingReq /\ r \in Request /\ Start(s, r)
  BY <1>1 DEF CancelListingRead, Start, TypeInv, ClaimsTypeOK, StoreTypeOK, CancelListingReq, Request
<1>3. /\ r.op \in OnClaim => claim[r.claim].status # "NONE"
      /\ r.op \in OnListing => listing[r.listing].status # "NONE"
  BY <1>1 DEF CancelListingRead, Start, TypeInv, ClaimsTypeOK, OnClaim, OnListing
<1> QED
  BY <1>1, <1>2, <1>3, ReadTypeInv

LEMMA ExpireReadTypeInv ==
    ASSUME TypeInv, NEW s \in Workers, NEW l \in Listings,
           ExpireRead(s, l)
    PROVE  TypeInv'
<1> DEFINE r == req'[s]
<1>1. s \in Slots /\ UNCHANGED storeVars
  BY DEF Slots, ExpireRead
<1>2. r \in ExpireReq /\ r \in Request /\ Start(s, r)
  BY <1>1 DEF ExpireRead, Expirable, Start, TypeInv, ClaimsTypeOK, StoreTypeOK, ExpireReq, Request, OpenListing
<1>3. /\ r.op \in OnClaim => claim[r.claim].status # "NONE"
      /\ r.op \in OnListing => listing[r.listing].status # "NONE"
  BY <1>1 DEF ExpireRead, Expirable, OpenListing, Start, TypeInv, ClaimsTypeOK, OnClaim, OnListing
<1> QED
  BY <1>1, <1>2, <1>3, ReadTypeInv

LEMMA ConfirmReadTypeInv ==
    ASSUME TypeInv, NEW s \in Requests, NEW o \in Orgs, NEW c \in Claims,
           ConfirmRead(s, o, c)
    PROVE  TypeInv'
<1> DEFINE r == req'[s]
<1>1. s \in Slots /\ UNCHANGED storeVars
  BY DEF Slots, ConfirmRead
<1>2. r \in ConfirmReq /\ r \in Request /\ Start(s, r)
  BY <1>1 DEF ConfirmRead, Start, TypeInv, ClaimsTypeOK, StoreTypeOK, ConfirmReq, Request
<1>3. /\ r.op \in OnClaim => claim[r.claim].status # "NONE"
      /\ r.op \in OnListing => listing[r.listing].status # "NONE"
  BY <1>1 DEF ConfirmRead, Start, TypeInv, ClaimsTypeOK, OnClaim, OnListing
<1> QED
  BY <1>1, <1>2, <1>3, ReadTypeInv

LEMMA CollectReadTypeInv ==
    ASSUME TypeInv, NEW s \in Requests, NEW o \in Orgs, NEW c \in Claims, NEW rate \in BOOLEAN,
           CollectRead(s, o, c, rate)
    PROVE  TypeInv'
<1> DEFINE r == req'[s]
<1>1. s \in Slots /\ UNCHANGED storeVars
  BY DEF Slots, CollectRead
<1>2. r \in CollectReq /\ r \in Request /\ Start(s, r)
  BY <1>1 DEF CollectRead, Start, TypeInv, ClaimsTypeOK, StoreTypeOK, CollectReq, Request, ClaimLinks, ListingRow, ListingStatus
<1>3. /\ r.op \in OnClaim => claim[r.claim].status # "NONE"
      /\ r.op \in OnListing => listing[r.listing].status # "NONE"
  BY <1>1 DEF CollectRead, Start, TypeInv, ClaimsTypeOK, OnClaim, OnListing
<1> QED
  BY <1>1, <1>2, <1>3, ReadTypeInv

LEMMA RateReadTypeInv ==
    ASSUME TypeInv, NEW s \in Requests, NEW o \in Orgs, NEW c \in Claims,
           RateRead(s, o, c)
    PROVE  TypeInv'
<1> DEFINE r == req'[s]
<1>1. s \in Slots /\ UNCHANGED storeVars
  BY DEF Slots, RateRead
<1>2. r \in RateReq /\ r \in Request /\ Start(s, r)
  BY <1>1 DEF RateRead, Start, TypeInv, ClaimsTypeOK, StoreTypeOK, RateReq, Request
<1>3. /\ r.op \in OnClaim => claim[r.claim].status # "NONE"
      /\ r.op \in OnListing => listing[r.listing].status # "NONE"
  BY <1>1 DEF RateRead, Start, TypeInv, ClaimsTypeOK, OnClaim, OnListing
<1> QED
  BY <1>1, <1>2, <1>3, ReadTypeInv

LEMMA FeedbackReadTypeInv ==
    ASSUME TypeInv, NEW s \in Requests, NEW o \in Orgs, NEW c \in Claims, NEW rate \in BOOLEAN,
           FeedbackRead(s, o, c, rate)
    PROVE  TypeInv'
<1> DEFINE r == req'[s]
<1>1. s \in Slots /\ UNCHANGED storeVars
  BY DEF Slots, FeedbackRead
<1>2. r \in FeedbackReq /\ r \in Request /\ Start(s, r)
  BY <1>1 DEF FeedbackRead, Start, TypeInv, ClaimsTypeOK, StoreTypeOK, FeedbackReq, Request
<1>3. /\ r.op \in OnClaim => claim[r.claim].status # "NONE"
      /\ r.op \in OnListing => listing[r.listing].status # "NONE"
  BY <1>1 DEF FeedbackRead, Start, TypeInv, ClaimsTypeOK, OnClaim, OnListing
<1> QED
  BY <1>1, <1>2, <1>3, ReadTypeInv

(* Requests that end, while rows are only added, leave no dangling reference. *)
LEMMA EndRequestLinks ==
    ASSUME TypeInv,
           \A t \in Slots : req'[t] \in {req[t], Idle},
           \A l \in Listings : listing[l].status # "NONE" => listing'[l].status # "NONE",
           \A c \in Claims : claim[c].status # "NONE" => claim'[c].status # "NONE"
    PROVE  RequestLinks'
<1> SUFFICES ASSUME NEW t \in Slots
             PROVE  /\ req'[t].op \in OnClaim => claim'[req'[t].claim].status # "NONE"
                    /\ req'[t].op \in OnListing => listing'[req'[t].listing].status # "NONE"
  BY DEF RequestLinks
<1>1. CASE req'[t] = Idle
  BY <1>1 DEF Idle, OnClaim, OnListing
<1>2. CASE req'[t] = req[t]
  <2>1. req[t] \in Request
    BY DEF TypeInv, ClaimsTypeOK
  <2>2. req[t].op \in OnClaim => req[t].claim \in Claims
    BY <2>1, RequestShape DEF OnClaim, ConfirmReq, CollectReq, RateReq, FeedbackReq
  <2>3. req[t].op \in OnListing => req[t].listing \in Listings
    BY <2>1, RequestShape DEF OnListing, ClaimReq, CancelListingReq, ExpireReq
  <2> QED
    BY <1>2, <2>2, <2>3 DEF TypeInv, RequestLinks
<1> QED
  BY <1>1, <1>2

LEMMA DoneRequests ==
    ASSUME TypeInv, NEW s \in Slots, Done(s)
    PROVE  /\ req' \in [Slots -> Request]
           /\ \A t \in Slots : req'[t] \in {req[t], Idle}
BY DEF Done, TypeInv, ClaimsTypeOK, Request

LEMMA CreateListingTypeInv ==
    ASSUME TypeInv, NEW o \in Orgs, NEW l \in Listings, NEW type \in ListingTypes,
           NEW qty \in [Items -> Int], CreateListing(o, l, type, qty)
    PROVE  TypeInv'
<1>1. ClaimsTypeOK'
  <2>1. [status |-> "ACTIVE", org |-> o, type |-> type, total |-> Kg(qty),
         remaining |-> Kg(qty), exclusiveTo |-> Null, released |-> "NO",
         due |-> FALSE] \in ListingRow
    BY KgType DEF ListingRow, ListingStatus
  <2>2. listing' \in [Listings -> ListingRow]
    BY <2>1 DEF CreateListing, NoListing, TypeInv, ClaimsTypeOK, StoreTypeOK
  <2>3. [i \in Items |-> [total |-> qty[i], remaining |-> qty[i]]] \in [Items -> ItemRow]
    BY DEF ItemRow
  <2>4. stock' \in [Listings -> [Items -> ItemRow]]
    BY <2>3 DEF CreateListing, TypeInv, ClaimsTypeOK, StoreTypeOK
  <2> QED
    BY <2>2, <2>4 DEF CreateListing, TypeInv, ClaimsTypeOK, StoreTypeOK
<1>2. ClaimLinks'
  BY DEF CreateListing, TypeInv, ClaimsTypeOK, StoreTypeOK, ClaimLinks, NoListing
<1>3. RequestLinks'
  BY EndRequestLinks DEF CreateListing, TypeInv, ClaimsTypeOK, StoreTypeOK, NoListing
<1> QED
  BY <1>1, <1>2, <1>3 DEF TypeInv

LEMMA DeadlinePassesTypeInv ==
    ASSUME TypeInv, NEW l \in Listings, DeadlinePasses(l)
    PROVE  TypeInv'
<1>1. ClaimsTypeOK'
  <2>1. [listing[l] EXCEPT !.due = TRUE] \in ListingRow
    BY ZenonT(60) DEF TypeInv, ClaimsTypeOK, StoreTypeOK, ListingRow
  <2>2. listing' \in [Listings -> ListingRow]
    BY <2>1 DEF DeadlinePasses, TypeInv, ClaimsTypeOK, StoreTypeOK
  <2> QED
    BY <2>2 DEF DeadlinePasses, TypeInv, ClaimsTypeOK, StoreTypeOK
<1>2. ClaimLinks'
  BY DEF DeadlinePasses, TypeInv, ClaimsTypeOK, StoreTypeOK, ClaimLinks, ListingRow
<1>3. RequestLinks'
  BY EndRequestLinks DEF DeadlinePasses, TypeInv, ClaimsTypeOK, StoreTypeOK, ListingRow
<1> QED
  BY <1>1, <1>2, <1>3 DEF TypeInv

(* The update of a listing's status by cancelListing and expireListingIfDue. *)
LEMMA CloseListingTypeInv ==
    ASSUME TypeInv, NEW s \in Slots, NEW l \in Listings, NEW status \in ListingStatus,
           listing' = [listing EXCEPT ![l].status = status],
           Done(s), day' \in [Days -> DayRow],
           UNCHANGED <<stock, claim, pickup, ratingCount, lock>>
    PROVE  TypeInv'
<1>1. ClaimsTypeOK'
  <2>1. [listing[l] EXCEPT !.status = status] \in ListingRow
    BY ZenonT(60) DEF TypeInv, ClaimsTypeOK, StoreTypeOK, ListingRow
  <2>2. listing' \in [Listings -> ListingRow]
    BY <2>1 DEF TypeInv, ClaimsTypeOK, StoreTypeOK
  <2> QED
    BY <2>2, DoneRequests DEF TypeInv, ClaimsTypeOK, StoreTypeOK
<1>2. ClaimLinks'
  BY DEF TypeInv, ClaimsTypeOK, StoreTypeOK, ClaimLinks, ListingRow, ListingStatus
<1>3. RequestLinks'
  BY EndRequestLinks, DoneRequests DEF TypeInv, ClaimsTypeOK, StoreTypeOK, ListingRow,
     ListingStatus
<1> QED
  BY <1>1, <1>2, <1>3 DEF TypeInv

LEMMA SettleDayType ==
    ASSUME StoreTypeOK, NEW l, NEW outcome \in ConnectionDayOutcome
    PROVE  SettleDay(l, outcome) \in [Days -> DayRow]
BY DEF SettleDay, StoreTypeOK, DayRow

LEMMA CollectDayType ==
    ASSUME StoreTypeOK, NEW l, NEW status
    PROVE  CollectDay(l, status) \in [Days -> DayRow]
<1>1. SettleDay(l, "COLLECTED") \in [Days -> DayRow]
  BY SettleDayType DEF ConnectionDayOutcome
<1> QED
  BY <1>1 DEF CollectDay, StoreTypeOK

LEMMA CancelListingWriteTypeInv ==
    ASSUME TypeInv, NEW s \in Slots, CancelListingWrite(s)
    PROVE  TypeInv'
<1>1. req[s] \in CancelListingReq
  BY RequestShape DEF CancelListingWrite, TypeInv, ClaimsTypeOK
<1>2. req[s].listing \in Listings /\ "CANCELLED" \in ListingStatus
  BY <1>1 DEF CancelListingReq, ListingStatus
<1>3. day' \in [Days -> DayRow]
  BY DEF CancelListingWrite, TypeInv, ClaimsTypeOK, StoreTypeOK
<1> QED
  BY <1>2, <1>3, CloseListingTypeInv DEF CancelListingWrite

LEMMA ExpireWriteTypeInv ==
    ASSUME TypeInv, NEW s \in Slots, ExpireWrite(s)
    PROVE  TypeInv'
<1>1. req[s] \in ExpireReq
  BY RequestShape DEF ExpireWrite, TypeInv, ClaimsTypeOK
<1>2. req[s].listing \in Listings /\ "EXPIRED" \in ListingStatus
  BY <1>1 DEF ExpireReq, ListingStatus
<1>3. day' \in [Days -> DayRow]
  BY SettleDayType DEF ExpireWrite, TypeInv, ClaimsTypeOK, ConnectionDayOutcome
<1> QED
  BY <1>2, <1>3, CloseListingTypeInv DEF ExpireWrite

LEMMA FullQtyType ==
    ASSUME TypeInv, NEW l \in Listings
    PROVE  FullQty(l) \in [Items -> Int]
BY DEF FullQty, TypeInv, ClaimsTypeOK, StoreTypeOK, ItemRow

LEMMA LinesQtyType ==
    ASSUME NEW lines
    PROVE  LinesQty(lines) \in [Items -> Int]
BY KgType DEF LinesQty

LEMMA ClaimReadTypeInv ==
    ASSUME TypeInv, NEW s \in Requests, NEW u \in Callers, NEW l \in Listings,
           NEW qty \in [Items -> Int], ClaimRead(s, u, l, qty)
    PROVE  TypeInv'
<1> DEFINE r == [op |-> "claim", listing |-> l, org |-> u.org, site |-> u.site,
                 qty |-> qty, left |-> listing[l].remaining - Kg(qty)]
<1>1. s \in Slots
  BY DEF Slots
<1>2. r \in Request
  <2>1. listing[l].remaining - Kg(qty) \in Int
    BY KgType DEF TypeInv, ClaimsTypeOK, StoreTypeOK, ListingRow
  <2>2. u.org \in Orgs /\ u.site \in Sites \cup {Null}
    BY ClaimsAssumption
  <2> QED
    BY <2>1, <2>2 DEF ClaimReq, Request
<1>3. req' = [req EXCEPT ![s] = r]
  BY DEF ClaimRead, Start
<1>4. ClaimsTypeOK'
  <2>1. lock' \in [Listings -> Slots \cup {Null}]
    BY <1>1 DEF ClaimRead, LockRow, TypeInv, ClaimsTypeOK, StoreTypeOK
  <2> QED
    BY <1>2, <1>3, <2>1 DEF ClaimRead, TypeInv, ClaimsTypeOK, StoreTypeOK
<1>5. ClaimLinks'
  BY DEF ClaimRead, TypeInv, ClaimLinks
<1>6. RequestLinks'
  BY <1>3 DEF ClaimRead, OpenListing, TypeInv, ClaimsTypeOK, RequestLinks, OnClaim, OnListing
<1> QED
  BY <1>4, <1>5, <1>6 DEF TypeInv

LEMMA ClaimWriteTypeInv ==
    ASSUME TypeInv, NEW s \in Slots, ClaimWrite(s)
    PROVE  TypeInv'
<1> DEFINE r == req[s]
<1>1. r \in ClaimReq /\ listing[r.listing].status # "NONE"
  BY RequestShape DEF ClaimWrite, TypeInv, ClaimsTypeOK, RequestLinks, OnListing
<1> DEFINE row == [status |-> "PENDING", listing |-> r.listing, org |-> r.org,
                   site |-> r.site, qty |-> r.qty, rated |-> FALSE, feedback |-> FALSE]
<1>3. PICK c \in Claims : claim' = [claim EXCEPT ![c] = row]
  BY DEF ClaimWrite
<1>4. ClaimsTypeOK'
  <2>1. row \in ClaimRow
    BY <1>1 DEF ClaimReq, ClaimRow, ClaimStatus
  <2>2. claim' \in [Claims -> ClaimRow]
    BY <1>3, <2>1 DEF TypeInv, ClaimsTypeOK, StoreTypeOK
  <2>3. stock' \in [Listings -> [Items -> ItemRow]]
    <3>1. \A i \in Items : stock[r.listing][i] \in ItemRow /\ r.qty[i] \in Int
      BY <1>1 DEF ClaimReq, TypeInv, ClaimsTypeOK, StoreTypeOK
    <3>2. \A i \in Items : [stock[r.listing][i] EXCEPT !.remaining = @ - r.qty[i]] \in ItemRow
      BY <3>1 DEF ItemRow
    <3> QED
      BY <3>2 DEF ClaimWrite, TakeStock, TypeInv, ClaimsTypeOK, StoreTypeOK
  <2>4. listing' \in [Listings -> ListingRow]
    <3>1. listing[r.listing] \in ListingRow /\ r.left \in Int
      BY <1>1 DEF ClaimReq, TypeInv, ClaimsTypeOK, StoreTypeOK
    <3>2. StatusAfterClaim(r.left) \in ListingStatus
      BY DEF StatusAfterClaim, ListingStatus
    <3>3. [listing[r.listing] EXCEPT !.remaining = r.left,
                                     !.status = StatusAfterClaim(r.left)] \in ListingRow
      BY <3>1, <3>2 DEF ListingRow
    <3> QED
      BY <3>3 DEF ClaimWrite, TypeInv, ClaimsTypeOK, StoreTypeOK
  <2>5. lock' \in [Listings -> Slots \cup {Null}]
    BY DEF ClaimWrite, TypeInv, ClaimsTypeOK, StoreTypeOK
  <2> QED
    BY <2>2, <2>3, <2>4, <2>5, DoneRequests DEF ClaimWrite, TypeInv, ClaimsTypeOK, StoreTypeOK
<1>5. \A l \in Listings : listing[l].status # "NONE" => listing'[l].status # "NONE"
  BY <1>1 DEF ClaimWrite, StatusAfterClaim, ClaimReq, TypeInv, ClaimsTypeOK, StoreTypeOK, ListingRow
<1>6. ClaimLinks'
  BY <1>1, <1>3, <1>5 DEF ClaimReq, TypeInv, ClaimsTypeOK, StoreTypeOK, ClaimLinks
<1>7. RequestLinks'
  BY <1>3, <1>5, DoneRequests, EndRequestLinks DEF ClaimWrite, TypeInv, ClaimsTypeOK, StoreTypeOK
<1> QED
  BY <1>4, <1>6, <1>7 DEF TypeInv

(* A write that changes claims that exist, and no listing. *)
LEMMA UpdateClaimTypeInv ==
    ASSUME TypeInv, NEW s \in Slots, Done(s),
           claim' \in [Claims -> ClaimRow],
           \A c \in Claims :
              claim[c].status # "NONE" => /\ claim'[c].status # "NONE"
                                          /\ claim'[c].listing = claim[c].listing,
           \A c \in Claims : claim[c].status = "NONE" => claim'[c].status = "NONE",
           ratingCount' \in [Orgs -> Int], day' \in [Days -> DayRow],
           UNCHANGED <<listing, stock, pickup, lock>>
    PROVE  TypeInv'
<1>1. ClaimsTypeOK'
  BY DoneRequests DEF TypeInv, ClaimsTypeOK, StoreTypeOK
<1>2. ClaimLinks'
  BY DEF TypeInv, ClaimLinks
<1>3. RequestLinks'
  BY EndRequestLinks, DoneRequests
<1> QED
  BY <1>1, <1>2, <1>3 DEF TypeInv

LEMMA RatingCountType ==
    ASSUME TypeInv, NEW o
    PROVE  [ratingCount EXCEPT ![o] = @ + 1] \in [Orgs -> Int]
<1>1. ratingCount \in [Orgs -> Int]
  BY DEF TypeInv, ClaimsTypeOK, StoreTypeOK
<1>2. CASE o \in Orgs
  BY <1>1, <1>2
<1>3. CASE o \notin Orgs
  <2>1. [ratingCount EXCEPT ![o] = @ + 1] = ratingCount
    BY <1>1, <1>3
  <2> QED
    BY <1>1, <2>1
<1> QED
  BY <1>2, <1>3

LEMMA ConfirmWriteTypeInv ==
    ASSUME TypeInv, NEW s \in Slots, ConfirmWrite(s)
    PROVE  TypeInv'
<1> DEFINE c == req[s].claim
<1>1. c \in Claims /\ claim[c].status # "NONE"
  BY RequestShape DEF ConfirmWrite, ConfirmReq, TypeInv, ClaimsTypeOK, RequestLinks, OnClaim
<1>2. [claim[c] EXCEPT !.status = "CONFIRMED"] \in ClaimRow
  <2>1. claim[c] \in ClaimRow
    BY <1>1 DEF TypeInv, ClaimsTypeOK, StoreTypeOK
  <2> QED
    BY <2>1 DEF ClaimRow, ClaimStatus
<1>3. claim' \in [Claims -> ClaimRow]
  BY <1>1, <1>2 DEF ConfirmWrite, TypeInv, ClaimsTypeOK, StoreTypeOK
<1>4. /\ \A d \in Claims :
            claim[d].status # "NONE" => /\ claim'[d].status # "NONE"
                                        /\ claim'[d].listing = claim[d].listing
      /\ \A d \in Claims : claim[d].status = "NONE" => claim'[d].status = "NONE"
  BY <1>1 DEF ConfirmWrite, TypeInv, ClaimsTypeOK, StoreTypeOK, ClaimRow
<1>5. ratingCount' \in [Orgs -> Int]
  BY DEF ConfirmWrite, TypeInv, ClaimsTypeOK, StoreTypeOK
<1>6. day' \in [Days -> DayRow]
  BY SMTT(60) DEF ConfirmWrite, TypeInv, ClaimsTypeOK, StoreTypeOK
<1> QED
  BY <1>3, <1>4, <1>5, <1>6, UpdateClaimTypeInv DEF ConfirmWrite

LEMMA RateWriteTypeInv ==
    ASSUME TypeInv, NEW s \in Slots, RateWrite(s)
    PROVE  TypeInv'
<1> DEFINE c == req[s].claim
<1>1. c \in Claims /\ claim[c].status # "NONE"
  BY RequestShape DEF RateWrite, RateReq, TypeInv, ClaimsTypeOK, RequestLinks, OnClaim
<1>2. [claim[c] EXCEPT !.rated = TRUE] \in ClaimRow
  <2>1. claim[c] \in ClaimRow
    BY <1>1 DEF TypeInv, ClaimsTypeOK, StoreTypeOK
  <2> QED
    BY <2>1 DEF ClaimRow, ClaimStatus
<1>3. claim' \in [Claims -> ClaimRow]
  BY <1>1, <1>2 DEF RateWrite, TypeInv, ClaimsTypeOK, StoreTypeOK
<1>4. /\ \A d \in Claims :
            claim[d].status # "NONE" => /\ claim'[d].status # "NONE"
                                        /\ claim'[d].listing = claim[d].listing
      /\ \A d \in Claims : claim[d].status = "NONE" => claim'[d].status = "NONE"
  BY <1>1 DEF RateWrite, TypeInv, ClaimsTypeOK, StoreTypeOK, ClaimRow
<1>5. ratingCount' \in [Orgs -> Int]
  BY RatingCountType DEF RateWrite, TypeInv, ClaimsTypeOK, StoreTypeOK
<1>6. day' \in [Days -> DayRow]
  BY DEF RateWrite, TypeInv, ClaimsTypeOK, StoreTypeOK
<1> QED
  BY <1>3, <1>4, <1>5, <1>6, UpdateClaimTypeInv DEF RateWrite

LEMMA FeedbackWriteTypeInv ==
    ASSUME TypeInv, NEW s \in Slots, FeedbackWrite(s)
    PROVE  TypeInv'
<1> DEFINE c == req[s].claim
<1>1. c \in Claims /\ claim[c].status # "NONE"
  BY RequestShape DEF FeedbackWrite, FeedbackReq, TypeInv, ClaimsTypeOK, RequestLinks, OnClaim
<1>2. [claim[c] EXCEPT !.feedback = TRUE] \in ClaimRow
  <2>1. claim[c] \in ClaimRow
    BY <1>1 DEF TypeInv, ClaimsTypeOK, StoreTypeOK
  <2> QED
    BY <2>1 DEF ClaimRow, ClaimStatus
<1>3. claim' \in [Claims -> ClaimRow]
  BY <1>1, <1>2 DEF FeedbackWrite, TypeInv, ClaimsTypeOK, StoreTypeOK
<1>4. /\ \A d \in Claims :
            claim[d].status # "NONE" => /\ claim'[d].status # "NONE"
                                        /\ claim'[d].listing = claim[d].listing
      /\ \A d \in Claims : claim[d].status = "NONE" => claim'[d].status = "NONE"
  BY <1>1 DEF FeedbackWrite, TypeInv, ClaimsTypeOK, StoreTypeOK, ClaimRow
<1>5. ratingCount' \in [Orgs -> Int]
  BY RatingCountType DEF FeedbackWrite, TypeInv, ClaimsTypeOK, StoreTypeOK
<1>6. day' \in [Days -> DayRow]
  BY SMTT(60) DEF FeedbackWrite, TypeInv, ClaimsTypeOK, StoreTypeOK
<1> QED
  BY <1>3, <1>4, <1>5, <1>6, UpdateClaimTypeInv DEF FeedbackWrite

LEMMA CollectWriteTypeInv ==
    ASSUME TypeInv, NEW s \in Slots, CollectWrite(s)
    PROVE  TypeInv'
<1> DEFINE c == req[s].claim
<1>1. c \in Claims /\ claim[c].status # "NONE"
  BY RequestShape DEF CollectWrite, CollectReq, TypeInv, ClaimsTypeOK, RequestLinks, OnClaim
<1>2. [claim[c] EXCEPT !.status = "COLLECTED", !.rated = @ \/ req[s].rate] \in ClaimRow
  <2>1. claim[c] \in ClaimRow
    BY <1>1 DEF TypeInv, ClaimsTypeOK, StoreTypeOK
  <2> QED
    BY <2>1 DEF ClaimRow, ClaimStatus
<1>3. claim' \in [Claims -> ClaimRow]
  BY <1>1, <1>2 DEF CollectWrite, TypeInv, ClaimsTypeOK, StoreTypeOK
<1>4. /\ \A d \in Claims :
            claim[d].status # "NONE" => /\ claim'[d].status # "NONE"
                                        /\ claim'[d].listing = claim[d].listing
      /\ \A d \in Claims : claim[d].status = "NONE" => claim'[d].status = "NONE"
  <2>1. CASE claim' = [claim EXCEPT ![c].status = "COLLECTED",
                                     ![c].rated = @ \/ req[s].rate]
    <3>1. \A d \in Claims : d # c => claim'[d] = claim[d]
      BY <1>1, <2>1 DEF TypeInv, ClaimsTypeOK, StoreTypeOK
    <3>2. claim'[c].status = "COLLECTED" /\ claim'[c].listing = claim[c].listing
      BY <1>1, <2>1 DEF TypeInv, ClaimsTypeOK, StoreTypeOK, ClaimRow
    <3> QED
      BY <1>1, <3>1, <3>2
  <2>2. CASE claim' = claim
    BY <2>2
  <2> QED
    BY <2>1, <2>2 DEF CollectWrite
<1>5. ratingCount' \in [Orgs -> Int]
  BY RatingCountType DEF CollectWrite, TypeInv, ClaimsTypeOK, StoreTypeOK
<1>6. day' \in [Days -> DayRow]
  BY CollectDayType DEF CollectWrite, TypeInv, ClaimsTypeOK, StoreTypeOK
<1> QED
  BY <1>3, <1>4, <1>5, <1>6, UpdateClaimTypeInv DEF CollectWrite

LEMMA CancelLockedTypeInv ==
    ASSUME TypeInv, NEW o \in Orgs, NEW c \in Claims, CancelLocked(o, c), UNCHANGED req
    PROVE  TypeInv'
<1> DEFINE l == claim[c].listing
           left == listing[l].remaining + Kg(claim[c].qty)
<1>1. claim[c] \in ClaimRow /\ claim[c].status # "NONE"
  BY DEF CancelLocked, Cancellable, TypeInv, ClaimsTypeOK, StoreTypeOK
<1>2. l \in Listings /\ listing[l].status # "NONE" /\ listing[l] \in ListingRow
  BY <1>1 DEF TypeInv, ClaimLinks, ClaimsTypeOK, StoreTypeOK
<1>3. StatusAfterCancel(l, left) \in ListingStatus
  BY <1>2 DEF StatusAfterCancel, ListingRow, ListingStatus
<1>4. listing' = [listing EXCEPT ![l].remaining = left, ![l].status = StatusAfterCancel(l, left)]
  BY DEF CancelLocked
<1>5. \A k \in Listings : listing[k].status # "NONE" => listing'[k].status # "NONE"
  <2>1. \A k \in Listings : k # l => listing'[k] = listing[k]
    BY <1>2, <1>4 DEF TypeInv, ClaimsTypeOK, StoreTypeOK
  <2>2. listing'[l].status = StatusAfterCancel(l, left)
    BY <1>2, <1>4 DEF TypeInv, ClaimsTypeOK, StoreTypeOK, ListingRow
  <2> QED
    BY <1>3, <2>1, <2>2 DEF ListingStatus
<1>6. claim' = [claim EXCEPT ![c].status = "CANCELLED"]
  BY DEF CancelLocked
<1>7. ClaimsTypeOK'
  <2>1. listing' \in [Listings -> ListingRow]
    <3>1. left \in Int
      BY <1>2, KgType DEF ListingRow
    <3>2. [listing[l] EXCEPT !.remaining = left, !.status = StatusAfterCancel(l, left)]
            \in ListingRow
      BY <1>2, <1>3, <3>1 DEF ListingRow
    <3> QED
      BY <1>2, <1>4, <3>2 DEF TypeInv, ClaimsTypeOK, StoreTypeOK
  <2>2. stock' \in [Listings -> [Items -> ItemRow]]
    <3>1. \A i \in Items : stock[l][i] \in ItemRow /\ claim[c].qty[i] \in Int
      BY <1>1, <1>2 DEF TypeInv, ClaimsTypeOK, StoreTypeOK, ClaimRow
    <3>2. \A i \in Items : [stock[l][i] EXCEPT !.remaining = @ + claim[c].qty[i]] \in ItemRow
      BY <3>1 DEF ItemRow
    <3> QED
      BY <3>2 DEF CancelLocked, ReturnStock, TypeInv, ClaimsTypeOK, StoreTypeOK
  <2>3. claim' \in [Claims -> ClaimRow]
    <3>1. [claim[c] EXCEPT !.status = "CANCELLED"] \in ClaimRow
      BY <1>1 DEF ClaimRow, ClaimStatus
    <3> QED
      BY <1>6, <3>1 DEF TypeInv, ClaimsTypeOK, StoreTypeOK
  <2> QED
    BY <2>1, <2>2, <2>3 DEF CancelLocked, TypeInv, ClaimsTypeOK, StoreTypeOK
<1>8. ClaimLinks'
  BY <1>2, <1>5, <1>6, SMTT(60) DEF TypeInv, ClaimsTypeOK, StoreTypeOK, ClaimLinks, ClaimRow
<1>9. RequestLinks'
  BY <1>5, <1>6, EndRequestLinks DEF CancelLocked, TypeInv, ClaimsTypeOK, StoreTypeOK, ClaimRow
<1> QED
  BY <1>7, <1>8, <1>9 DEF TypeInv

LEMMA UnchangedTypeInv == ASSUME TypeInv, UNCHANGED claimsVars PROVE TypeInv'
BY DEF claimsVars, storeVars, TypeInv, ClaimsTypeOK, StoreTypeOK, ClaimLinks, RequestLinks

LEMMA CancelClaimTypeInv ==
    ASSUME TypeInv, NEW s \in Requests, NEW o \in Orgs, NEW c \in Claims, CancelClaim(s, o, c)
    PROVE  TypeInv'
<1>1. CASE LockQueryResolves
  BY <1>1, CancelLockedTypeInv DEF CancelClaim
<1>2. CASE ~LockQueryResolves
  BY <1>2, UnchangedTypeInv DEF CancelClaim, claimsVars
<1> QED
  BY <1>1, <1>2

LEMMA CrashTypeInv ==
    ASSUME TypeInv, NEW s \in Slots, Crash(s)
    PROVE  TypeInv'
<1>1. ClaimsTypeOK'
  BY DoneRequests DEF Crash, TypeInv, ClaimsTypeOK, StoreTypeOK
<1>2. ClaimLinks'
  BY DEF Crash, TypeInv, ClaimLinks
<1>3. RequestLinks'
  BY DoneRequests, EndRequestLinks DEF Crash
<1> QED
  BY <1>1, <1>2, <1>3 DEF TypeInv

-----------------------------------------------------------------------------
(* The types and the references of the tables survive every step. *)
LEMMA TypeInvNext == TypeInv /\ [ClaimsNext]_claimsVars => TypeInv'
<1> SUFFICES ASSUME TypeInv, [ClaimsNext]_claimsVars PROVE TypeInv'
  OBVIOUS
<1>1. ASSUME NEW o \in Providers, NEW l \in Listings, NEW type \in OfferedTypes,
             NEW qty \in [Items -> 0 .. MaxQty], CreateListing(o, l, type, qty)
      PROVE  TypeInv'
  <2>1. o \in Orgs /\ type \in ListingTypes /\ qty \in [Items -> Int]
    BY ClaimsAssumption
  <2> QED
    BY <1>1, <2>1, CreateListingTypeInv
<1>2. ASSUME NEW l \in Listings, DeadlinePasses(l) PROVE TypeInv'
  BY <1>2, DeadlinePassesTypeInv
<1>3. ASSUME NEW s \in Requests, NEW u \in Callers, NEW l \in Listings, ClaimFull(s, u, l)
      PROVE  TypeInv'
  BY <1>3, FullQtyType, ClaimReadTypeInv DEF ClaimFull
<1>4. ASSUME NEW s \in Requests, NEW u \in Callers, NEW l \in Listings, NEW lines \in Lines,
             ClaimPartial(s, u, l, lines)
      PROVE  TypeInv'
  BY <1>4, LinesQtyType, ClaimReadTypeInv DEF ClaimPartial
<1>5. ASSUME NEW s \in Requests, NEW o \in Orgs, NEW l \in Listings,
             CancelListingRead(s, o, l)
      PROVE  TypeInv'
  BY <1>5, CancelListingReadTypeInv
<1>6. ASSUME NEW s \in Requests, NEW o \in Orgs, NEW c \in Claims,
             ConfirmRead(s, o, c) \/ CancelClaim(s, o, c) \/ RateRead(s, o, c)
      PROVE  TypeInv'
  BY <1>6, ConfirmReadTypeInv, CancelClaimTypeInv, RateReadTypeInv
<1>7. ASSUME NEW s \in Requests, NEW o \in Orgs, NEW c \in Claims, NEW rate \in BOOLEAN,
             CollectRead(s, o, c, rate) \/ FeedbackRead(s, o, c, rate)
      PROVE  TypeInv'
  BY <1>7, CollectReadTypeInv, FeedbackReadTypeInv
<1>8. ASSUME NEW s \in Workers, NEW l \in Listings, ExpireRead(s, l) PROVE TypeInv'
  BY <1>8, ExpireReadTypeInv
<1>9. ASSUME NEW s \in Slots, Terminate(s) \/ Crash(s) PROVE TypeInv'
  BY <1>9, ClaimWriteTypeInv, ConfirmWriteTypeInv, CollectWriteTypeInv, RateWriteTypeInv,
     FeedbackWriteTypeInv, CancelListingWriteTypeInv, ExpireWriteTypeInv, CrashTypeInv
     DEF Terminate
<1>10. CASE UNCHANGED claimsVars
  BY <1>10, UnchangedTypeInv
<1> QED
  BY <1>1, <1>2, <1>3, <1>4, <1>5, <1>6, <1>7, <1>8, <1>9, <1>10 DEF ClaimsNext

(***************************************************************************)
(* Every table keeps its type, in particular the enums of status columns,  *)
(* under every handler of claims.service and food.listing.service.         *)
(***************************************************************************)
THEOREM ClaimsTypeCorrect == ClaimsSpec => []ClaimsTypeOK
<1>1. TypeInv => ClaimsTypeOK
  BY DEF TypeInv
<1> QED
  BY <1>1, TypeInvInit, TypeInvNext, PTL DEF ClaimsSpec

LEMMA ClaimsTypeInv == ClaimsSpec => []TypeInv
BY TypeInvInit, TypeInvNext, PTL DEF ClaimsSpec

-----------------------------------------------------------------------------
(* The row lock of claimListing *)

(* The lock excludes every other writer of the listing's status, so what a *)
(* claim request found under it stays true until the request writes.       *)
LEMMA LockInvNext == TypeInv /\ LockInv /\ [ClaimsNext]_claimsVars => LockInv'
<1> SUFFICES ASSUME TypeInv, LockInv, [ClaimsNext]_claimsVars,
                    NEW t \in Slots, req'[t].op = "claim"
             PROVE  /\ lock'[req'[t].listing] = t
                    /\ listing'[req'[t].listing].status \in {"ACTIVE", "PARTIAL"}
  BY DEF LockInv, OpenListing
<1> DEFINE k == req[t].listing
           Kept == req'[t] = req[t] /\ lock'[k] = t
                     /\ listing'[k].status \in {"ACTIVE", "PARTIAL"}
<1>a. req[t].op = "claim"
        => k \in Listings /\ lock[k] = t /\ listing[k].status \in {"ACTIVE", "PARTIAL"}
  BY RequestShape DEF TypeInv, ClaimsTypeOK, ClaimReq, LockInv, OpenListing
<1>b. t # Null
  BY StoreAssumption
<1>c. /\ listing \in [Listings -> ListingRow]
      /\ lock \in [Listings -> Slots \cup {Null}]
      /\ req \in [Slots -> Request]
  BY DEF TypeInv, ClaimsTypeOK, StoreTypeOK
<1>1. ASSUME NEW o \in Providers, NEW l \in Listings, NEW type \in OfferedTypes,
             NEW qty \in [Items -> 0 .. MaxQty], CreateListing(o, l, type, qty)
      PROVE  Kept
  BY <1>1, <1>a, <1>c DEF CreateListing
<1>2. ASSUME NEW l \in Listings, DeadlinePasses(l)
      PROVE  Kept
  BY <1>2, <1>a, <1>c DEF DeadlinePasses, ListingRow
<1>3. ASSUME NEW s \in Requests, NEW u \in Callers, NEW l \in Listings, NEW qty,
             ClaimRead(s, u, l, qty)
      PROVE  /\ lock'[req'[t].listing] = t
             /\ listing'[req'[t].listing].status \in {"ACTIVE", "PARTIAL"}
  <2>1. s \in Slots
    BY DEF Slots
  <2>2. CASE s = t
    BY <1>3, <1>c, <2>1, <2>2 DEF ClaimRead, LockRow, OpenListing, Start
  <2>3. CASE s # t
    <3>1. req'[t] = req[t] /\ k # l
      BY <1>3, <1>a, <1>b, <1>c, <2>1, <2>3 DEF ClaimRead, LockRow, Start
    <3> QED
      BY <1>3, <1>a, <1>c, <3>1 DEF ClaimRead, LockRow
  <2> QED
    BY <2>2, <2>3
<1>4. ASSUME NEW s \in Slots, NEW r \in Request, r.op # "claim", Start(s, r),
             UNCHANGED storeVars
      PROVE  Kept
  BY <1>4, <1>a, <1>c DEF Start, storeVars
<1>5. ASSUME NEW s \in Slots, Done(s), UNCHANGED <<listing, lock>>
      PROVE  Kept
  BY <1>5, <1>a, <1>c DEF Done, Idle
<1>6. ASSUME NEW s \in Slots, CancelListingWrite(s) \/ ExpireWrite(s)
      PROVE  Kept
  <2>1. req'[t] = req[t] /\ lock' = lock /\ RowFree(req[s].listing)
    BY <1>6, <1>c DEF CancelListingWrite, ExpireWrite, Done, Idle
  <2>2. k # req[s].listing
    BY <1>a, <1>b, <2>1 DEF RowFree
  <2> QED
    BY <1>6, <1>a, <1>c, <2>1, <2>2 DEF CancelListingWrite, ExpireWrite
<1>7. ASSUME NEW s \in Slots, ClaimWrite(s)
      PROVE  Kept
  <2>1. req'[t] = req[t] /\ s # t
    BY <1>7, <1>c DEF ClaimWrite, Done, Idle
  <2>2. lock[req[s].listing] = s
    BY <1>7 DEF ClaimWrite, LockInv
  <2>3. k # req[s].listing
    BY <1>a, <2>1, <2>2
  <2> QED
    BY <1>7, <1>a, <1>c, <2>1, <2>3 DEF ClaimWrite
<1>8. ASSUME NEW s \in Requests, NEW o \in Orgs, NEW c \in Claims, CancelClaim(s, o, c)
      PROVE  Kept
  <2>1. CASE ~LockQueryResolves
    BY <1>8, <1>a, <1>c, <2>1 DEF CancelClaim, storeVars
  <2>2. CASE LockQueryResolves
    <3>1. k # claim[c].listing
      BY <1>8, <1>a, <1>b, <2>2 DEF CancelClaim, CancelLocked, RowFree
    <3> QED
      BY <1>8, <1>a, <1>c, <2>2, <3>1 DEF CancelClaim, CancelLocked
  <2> QED
    BY <2>1, <2>2
<1>9. ASSUME NEW s \in Slots, Crash(s)
      PROVE  Kept
  <2>1. req'[t] = req[t] /\ s # t
    BY <1>9, <1>c DEF Crash, Done, Idle
  <2> QED
    BY <1>9, <1>a, <1>c, <2>1 DEF Crash
<1>10. CASE UNCHANGED claimsVars
  BY <1>10, <1>a DEF claimsVars, storeVars
<1>11. ASSUME NEW s \in Requests, NEW o \in Orgs, NEW l \in Listings,
              CancelListingRead(s, o, l)
       PROVE  Kept
  BY <1>11, <1>4 DEF CancelListingRead, Slots, Request, CancelListingReq
<1>12. ASSUME NEW s \in Requests, NEW o \in Orgs, NEW c \in Claims,
              ConfirmRead(s, o, c) \/ RateRead(s, o, c)
       PROVE  Kept
  BY <1>12, <1>4 DEF ConfirmRead, RateRead, Slots, Request, ConfirmReq, RateReq
<1>13. ASSUME NEW s \in Requests, NEW o \in Orgs, NEW c \in Claims, NEW rate \in BOOLEAN,
              CollectRead(s, o, c, rate) \/ FeedbackRead(s, o, c, rate)
       PROVE  Kept
  <2>1. s \in Slots /\ UNCHANGED storeVars
    BY <1>13 DEF CollectRead, FeedbackRead, Slots
  <2>2. req'[t] = req[t]
    BY <1>13, <1>c, <2>1 DEF CollectRead, FeedbackRead, Start
  <2> QED
    BY <1>a, <2>1, <2>2 DEF storeVars
<1>14. ASSUME NEW s \in Workers, NEW l \in Listings, ExpireRead(s, l)
       PROVE  Kept
  BY <1>14, <1>4, SMTT(60) DEF ExpireRead, Slots, Request, ExpireReq
<1>15. ASSUME NEW s \in Slots, ConfirmWrite(s) \/ CollectWrite(s) \/ RateWrite(s) \/ FeedbackWrite(s)
       PROVE  Kept
  BY <1>15, <1>5 DEF ConfirmWrite, CollectWrite, RateWrite, FeedbackWrite
<1> QED
  BY <1>1, <1>2, <1>3, <1>6, <1>7, <1>8, <1>9, <1>10, <1>11, <1>12, <1>13, <1>14, <1>15
     DEF ClaimsNext, ClaimFull, ClaimPartial, Terminate

LEMMA LockInvInit == ClaimsInit => LockInv
BY DEF ClaimsInit, LockInv, Idle

-----------------------------------------------------------------------------
(* Where claims come from *)

\* No claim appears or disappears, or changes the listing, organisation, site
\* or weights it was made for.
SameClaims ==
    \A c \in Claims :
        /\ claim'[c].status = "NONE" <=> claim[c].status = "NONE"
        /\ claim'[c].listing = claim[c].listing
        /\ claim'[c].org = claim[c].org
        /\ claim'[c].site = claim[c].site
        /\ claim'[c].qty = claim[c].qty

(* Only the write of claimListing adds a claim. *)
LEMMA ClaimsAddedByClaimWrite ==
    ASSUME TypeInv, [ClaimsNext]_claimsVars
    PROVE  SameClaims \/ \E s \in Slots : ClaimWrite(s)
<1>a. /\ claim \in [Claims -> ClaimRow]
      /\ \A s \in Slots :
            req[s].op \in OnClaim
              => req[s].claim \in Claims /\ claim[req[s].claim].status # "NONE"
  <2>1. claim \in [Claims -> ClaimRow] /\ req \in [Slots -> Request] /\ RequestLinks
    BY DEF TypeInv, ClaimsTypeOK, StoreTypeOK
  <2>2. ASSUME NEW s \in Slots, req[s].op \in OnClaim
        PROVE  req[s].claim \in Claims
    BY <2>1, <2>2, RequestShape DEF OnClaim, ConfirmReq, CollectReq, RateReq, FeedbackReq
  <2> QED
    BY <2>1, <2>2 DEF RequestLinks
<1>1. CASE UNCHANGED claim
  BY <1>1 DEF SameClaims
<1>2. ASSUME NEW s \in Slots, ConfirmWrite(s) \/ RateWrite(s) \/ FeedbackWrite(s)
      PROVE  SameClaims
  <2> DEFINE c == req[s].claim
  <2>1. c \in Claims /\ claim[c].status # "NONE"
    BY <1>2, <1>a, ZenonT(60) DEF ConfirmWrite, RateWrite, FeedbackWrite, OnClaim
  <2>2. \/ claim' = [claim EXCEPT ![c].status = "CONFIRMED"]
        \/ claim' = [claim EXCEPT ![c].rated = TRUE]
        \/ claim' = [claim EXCEPT ![c].feedback = TRUE]
    BY <1>2 DEF ConfirmWrite, RateWrite, FeedbackWrite
  <2>3. \A d \in Claims : d # c => claim'[d] = claim[d]
    BY <1>a, <2>1, <2>2
  <2>4. /\ claim'[c].status # "NONE" /\ claim'[c].listing = claim[c].listing
        /\ claim'[c].org = claim[c].org /\ claim'[c].site = claim[c].site
    BY <1>a, <2>1, <2>2 DEF ClaimRow
  <2>5. claim'[c].qty = claim[c].qty
    BY <1>a, <2>1, <2>2 DEF ClaimRow
  <2> QED
    BY <2>1, <2>3, <2>4, <2>5, SMTT(60) DEF SameClaims
<1>3. ASSUME NEW s \in Slots, CollectWrite(s)
      PROVE  SameClaims
  <2>1. CASE claim' = claim
    BY <2>1 DEF SameClaims
  <2>2. CASE claim' # claim
    <3> DEFINE c == req[s].claim
    <3>1. c \in Claims /\ claim[c].status # "NONE"
      BY <1>3, <1>a DEF CollectWrite, OnClaim
    <3>2. claim' = [claim EXCEPT ![c].status = "COLLECTED", ![c].rated = @ \/ req[s].rate]
      BY <1>3, <2>2 DEF CollectWrite
    <3>3. \A d \in Claims : d # c => claim'[d] = claim[d]
      BY <1>a, <3>1, <3>2
    <3>4. /\ claim'[c].status = "COLLECTED" /\ claim'[c].listing = claim[c].listing
          /\ claim'[c].org = claim[c].org /\ claim'[c].site = claim[c].site
      BY <1>a, <3>1, <3>2 DEF ClaimRow
    <3>5. claim'[c].qty = claim[c].qty
      BY <1>a, <3>1, <3>2 DEF ClaimRow
    <3> QED
      BY <3>1, <3>3, <3>4, <3>5, SMTT(60) DEF SameClaims
  <2> QED
    BY <2>1, <2>2
<1>4. ASSUME NEW s \in Requests, NEW o \in Orgs, NEW c \in Claims, CancelClaim(s, o, c)
      PROVE  SameClaims
  BY <1>4, <1>a, SMTT(60) DEF CancelClaim, CancelLocked, storeVars, Cancellable, SameClaims, ClaimRow
<1>5. ASSUME NEW s \in Requests, NEW o \in Orgs, NEW c \in Claims, NEW rate \in BOOLEAN,
             ConfirmRead(s, o, c) \/ RateRead(s, o, c) \/ CollectRead(s, o, c, rate)
               \/ FeedbackRead(s, o, c, rate)
      PROVE  UNCHANGED claim
  BY <1>5 DEF ConfirmRead, RateRead, CollectRead, FeedbackRead, storeVars
<1>6. ASSUME NEW s \in Slots, NEW o, NEW l, NEW u, NEW qty,
             \/ ClaimRead(s, u, l, qty)
             \/ CancelListingRead(s, o, l) \/ CancelListingWrite(s)
             \/ ExpireRead(s, l) \/ ExpireWrite(s)
             \/ Crash(s)
      PROVE  UNCHANGED claim
  BY <1>6 DEF ClaimRead, CancelListingRead, CancelListingWrite, ExpireRead, ExpireWrite,
     Crash, storeVars
<1>7. ASSUME NEW o, NEW l, NEW qty, NEW type,
             CreateListing(o, l, type, qty) \/ DeadlinePasses(l)
      PROVE  UNCHANGED claim
  BY <1>7 DEF CreateListing, DeadlinePasses
<1>8. CASE UNCHANGED claimsVars
  BY <1>8, <1>1 DEF claimsVars, storeVars
<1>9. CASE ClaimsNext
  BY <1>9, <1>1, <1>2, <1>3, <1>4, <1>5, <1>6, <1>7
     DEF ClaimsNext, ClaimFull, ClaimPartial, Terminate, Slots
<1> QED
  BY <1>8, <1>9

(* What the write of claimListing adds. *)
LEMMA ClaimWriteEffect ==
    ASSUME TypeInv, NEW s \in Slots, ClaimWrite(s)
    PROVE  \E c \in Claims :
              /\ claim[c].status = "NONE"
              /\ \A b \in Claims : b < c => claim[b].status # "NONE"
              /\ \A b \in Claims : b # c => claim'[b] = claim[b]
              /\ claim'[c].status = "PENDING"
              /\ claim'[c].listing = req[s].listing
              /\ claim'[c].org = req[s].org
              /\ claim'[c].site = req[s].site
              /\ claim'[c].qty = req[s].qty
BY DEF ClaimWrite, NextClaim, TypeInv, ClaimsTypeOK, StoreTypeOK

(***************************************************************************)
(* claimListing refuses a listing that is not on offer, and its row lock   *)
(* keeps a concurrent cancellation or expiry out until it has committed,   *)
(* for any number of requests and listings and in either schema.           *)
(***************************************************************************)
THEOREM ClaimsAreOnOpenListings == ClaimsSpec => ClaimsOnlyOnOpenListings
<1> DEFINE Step == \A c \in Claims :
                      claim[c].status = "NONE" /\ claim'[c].status # "NONE"
                        => OpenListing(claim'[c].listing)
<1>1. TypeInv /\ LockInv /\ [ClaimsNext]_claimsVars => [Step]_claimsVars
  <2> SUFFICES ASSUME TypeInv, LockInv, [ClaimsNext]_claimsVars PROVE Step
    OBVIOUS
  <2>1. CASE SameClaims
    BY <2>1, SMTT(60) DEF SameClaims
  <2>2. ASSUME NEW s \in Slots, ClaimWrite(s) PROVE Step
    BY <2>2, ClaimWriteEffect DEF LockInv, ClaimWrite
  <2> QED
    BY <2>1, <2>2, ClaimsAddedByClaimWrite
<1> QED
  BY <1>1, TypeInvInit, TypeInvNext, LockInvInit, LockInvNext, PTL
     DEF ClaimsSpec, ClaimsOnlyOnOpenListings

-----------------------------------------------------------------------------
(* One claim per site *)

\* Claims are numbered without gaps,
NoGaps ==
    \A b, c \in Claims : b < c /\ claim[c].status # "NONE" => claim[b].status # "NONE"

\* and a request that holds the row lock has no rival among them.
NoRival ==
    \A s \in Slots, c \in Claims :
        /\ req[s].op = "claim"
        /\ LiveClaim(c)
        /\ claim[c].listing = req[s].listing
        /\ claim[c].org = req[s].org
        => claim[c].site \notin {req[s].site, Null}

SiteInv == NoGaps /\ NoRival /\ OneClaimPerSite /\ HeadOfficeClaimIsLast

\* The step brings no cancelled claim back.  A confirmClaim that read its claim
\* before cancelClaim cancelled it does.
NoRevival ==
    \A c \in Claims : claim[c].status = "CANCELLED" => claim'[c].status = "CANCELLED"

LEMMA SiteInvInit == ClaimsInit => SiteInv
BY DEF ClaimsInit, StoreInit, TablesInit, SiteInv, NoGaps, NoRival, OneClaimPerSite,
   HeadOfficeClaimIsLast, LiveClaim, NoClaim, Idle, ClaimStatus

(* Only cancelClaim cancels a claim. *)
LEMMA ClaimsCancelledByCancelClaim ==
    ASSUME TypeInv, [ClaimsNext]_claimsVars
    PROVE  \/ \A c \in Claims : claim[c].status # "CANCELLED" => claim'[c].status # "CANCELLED"
           \/ \E o \in Orgs, c \in Claims :
                 LockQueryResolves /\ CancelLocked(o, c) /\ UNCHANGED req
<1> DEFINE NoneGivenBack ==
       \A c \in Claims : claim[c].status # "CANCELLED" => claim'[c].status # "CANCELLED"
<1>a. claim \in [Claims -> ClaimRow]
  BY DEF TypeInv, ClaimsTypeOK, StoreTypeOK
<1>1. CASE UNCHANGED claim
  BY <1>1
<1>2. ASSUME NEW s \in Slots, ConfirmWrite(s) \/ RateWrite(s) \/ FeedbackWrite(s)
      PROVE  NoneGivenBack
  <2> DEFINE c == req[s].claim
  <2>1. \/ claim' = [claim EXCEPT ![c].status = "CONFIRMED"]
        \/ claim' = [claim EXCEPT ![c].rated = TRUE]
        \/ claim' = [claim EXCEPT ![c].feedback = TRUE]
    BY <1>2 DEF ConfirmWrite, RateWrite, FeedbackWrite
  <2>2. CASE claim' = [claim EXCEPT ![c].status = "CONFIRMED"]
    BY <1>a, <2>2 DEF ClaimRow
  <2>3. CASE claim' = [claim EXCEPT ![c].rated = TRUE]
    BY <1>a, <2>3 DEF ClaimRow
  <2>4. CASE claim' = [claim EXCEPT ![c].feedback = TRUE]
    BY <1>a, <2>4 DEF ClaimRow
  <2> QED
    BY <2>1, <2>2, <2>3, <2>4
<1>3. ASSUME NEW s \in Slots, CollectWrite(s)
      PROVE  NoneGivenBack
  <2> DEFINE c == req[s].claim
  <2>1. \/ claim' = [claim EXCEPT ![c].status = "COLLECTED", ![c].rated = @ \/ req[s].rate]
        \/ claim' = claim
    BY <1>3 DEF CollectWrite
  <2> QED
    BY <1>a, <2>1, SMTT(60) DEF ClaimRow
<1>4. ASSUME NEW s \in Slots, ClaimWrite(s)
      PROVE  NoneGivenBack
  BY <1>4, ClaimWriteEffect
<1>5. ASSUME NEW s \in Requests, NEW o \in Orgs, NEW c \in Claims, NEW rate \in BOOLEAN,
             ConfirmRead(s, o, c) \/ RateRead(s, o, c) \/ CollectRead(s, o, c, rate)
               \/ FeedbackRead(s, o, c, rate)
      PROVE  UNCHANGED claim
  BY <1>5 DEF ConfirmRead, RateRead, CollectRead, FeedbackRead, storeVars
<1>6. ASSUME NEW s \in Slots, NEW o, NEW l, NEW u, NEW qty,
             \/ ClaimRead(s, u, l, qty)
             \/ CancelListingRead(s, o, l) \/ CancelListingWrite(s)
             \/ ExpireRead(s, l) \/ ExpireWrite(s)
             \/ Crash(s)
      PROVE  UNCHANGED claim
  BY <1>6 DEF ClaimRead, CancelListingRead, CancelListingWrite, ExpireRead, ExpireWrite,
     Crash, storeVars
<1>7. ASSUME NEW o, NEW l, NEW qty, NEW type,
             CreateListing(o, l, type, qty) \/ DeadlinePasses(l)
      PROVE  UNCHANGED claim
  BY <1>7 DEF CreateListing, DeadlinePasses
<1>8. CASE UNCHANGED claimsVars
  BY <1>8, <1>1 DEF claimsVars, storeVars
<1>9. CASE ClaimsNext
  BY <1>9, <1>1, <1>2, <1>3, <1>4, <1>5, <1>6, <1>7
     DEF ClaimsNext, ClaimFull, ClaimPartial, CancelClaim, storeVars, Terminate, Slots
<1> QED
  BY <1>8, <1>9

\* What a full or a partial claim of listing l asks for.
AskedFor(l, qty) ==
    \/ qty = FullQty(l) /\ \E i \in Items : stock[l][i].remaining > 0
    \/ \E lines \in Lines : LinesAllowed(l, lines) /\ qty = LinesQty(lines)

(* A request that is about to write a claim has just taken the lock, or was so before. *)
LEMMA ClaimRequestStep ==
    ASSUME TypeInv, [ClaimsNext]_claimsVars, NEW s \in Slots, req'[s].op = "claim"
    PROVE  \/ req'[s] = req[s]
           \/ \E u \in Callers, l \in Listings :
                 /\ UNCHANGED <<claim, listing, stock>>
                 /\ ~HasActiveClaim(l, u)
                 /\ req'[s].listing = l /\ req'[s].org = u.org /\ req'[s].site = u.site
                 /\ req'[s].left = listing[l].remaining - Kg(req'[s].qty)
                 /\ AskedFor(l, req'[s].qty)
<1>a. req \in [Slots -> Request]
  BY DEF TypeInv, ClaimsTypeOK
<1> DEFINE Goal ==
       \/ req'[s] = req[s]
       \/ \E u \in Callers, l \in Listings :
             /\ UNCHANGED <<claim, listing, stock>>
             /\ ~HasActiveClaim(l, u)
             /\ req'[s].listing = l /\ req'[s].org = u.org /\ req'[s].site = u.site
             /\ req'[s].left = listing[l].remaining - Kg(req'[s].qty)
             /\ AskedFor(l, req'[s].qty)
<1>1. ASSUME NEW t \in Slots, NEW u \in Callers, NEW l \in Listings, NEW qty,
             ClaimRead(t, u, l, qty), AskedFor(l, qty)
      PROVE  Goal
  <2>1. CASE t = s
    BY <1>1, <1>a, <2>1 DEF ClaimRead, Start
  <2>2. CASE t # s
    BY <1>1, <1>a, <2>2 DEF ClaimRead, Start
  <2> QED
    BY <2>1, <2>2
<1>2. ASSUME NEW t \in Slots, NEW o, NEW l, NEW c, NEW rate,
             \/ ConfirmRead(t, o, c) \/ RateRead(t, o, c) \/ CollectRead(t, o, c, rate)
             \/ FeedbackRead(t, o, c, rate) \/ CancelListingRead(t, o, l) \/ ExpireRead(t, l)
      PROVE  req'[s] = req[s]
  BY <1>2, <1>a DEF ConfirmRead, RateRead, CollectRead, FeedbackRead, CancelListingRead,
     ExpireRead, Start
<1>3. ASSUME NEW t \in Slots, Done(t)
      PROVE  req'[s] = req[s]
  BY <1>3, <1>a, SMTT(60) DEF Done, Idle
<1>4. ASSUME NEW t \in Slots, Terminate(t) \/ Crash(t)
      PROVE  Done(t)
  BY <1>4 DEF Terminate, Crash, ClaimWrite, ConfirmWrite, CollectWrite, RateWrite,
     FeedbackWrite, CancelListingWrite, ExpireWrite
<1>5. CASE UNCHANGED req
  BY <1>5
<1>6. CASE UNCHANGED claimsVars
  BY <1>5, <1>6 DEF claimsVars
<1>7. CASE ClaimsNext
  BY <1>7, <1>1, <1>2, <1>3, <1>4, <1>5 DEF ClaimsNext, ClaimFull, ClaimPartial, AskedFor,
     CreateListing, DeadlinePasses, CancelClaim, Slots
<1> QED
  BY <1>6, <1>7

(* Claims only die, and a new request to claim has seen no rival. *)
LEMMA SiteInvKept ==
    ASSUME TypeInv, SiteInv, SameClaims, NoRevival,
           \A s \in Slots :
              req'[s].op = "claim"
                => \/ req'[s] = req[s]
                   \/ \E u \in Callers, l \in Listings :
                         /\ UNCHANGED claim
                         /\ ~HasActiveClaim(l, u)
                         /\ req'[s].listing = l /\ req'[s].org = u.org /\ req'[s].site = u.site
    PROVE  SiteInv'
<1>a. claim \in [Claims -> ClaimRow]
  BY DEF TypeInv, ClaimsTypeOK, StoreTypeOK
<1>b. \A c \in Claims : LiveClaim(c)' => LiveClaim(c)
  BY <1>a DEF LiveClaim, SameClaims, NoRevival, ClaimRow, ClaimStatus
<1>1. NoGaps'
  BY DEF SiteInv, NoGaps, SameClaims
<1>2. OneClaimPerSite'
  BY <1>b DEF SiteInv, OneClaimPerSite, SameClaims
<1>3. HeadOfficeClaimIsLast'
  BY <1>b DEF SiteInv, HeadOfficeClaimIsLast, SameClaims
<1>4. NoRival'
  <2> SUFFICES ASSUME NEW s \in Slots, NEW c \in Claims, req'[s].op = "claim",
                      LiveClaim(c)',
                      claim'[c].listing = req'[s].listing, claim'[c].org = req'[s].org
               PROVE  claim'[c].site \notin {req'[s].site, Null}
    BY DEF NoRival
  <2>1. CASE req'[s] = req[s]
    BY <1>b, <2>1 DEF SiteInv, NoRival, SameClaims
  <2>2. CASE \E u \in Callers, l \in Listings :
                /\ UNCHANGED claim
                /\ ~HasActiveClaim(l, u)
                /\ req'[s].listing = l /\ req'[s].org = u.org /\ req'[s].site = u.site
    BY <1>b, <2>2 DEF HasActiveClaim
  <2> QED
    BY <2>1, <2>2
<1> QED
  BY <1>1, <1>2, <1>3, <1>4 DEF SiteInv

LEMMA SiteInvNext ==
    ASSUME TypeInv, LockInv, SiteInv, NoRevival, [ClaimsNext]_claimsVars
    PROVE  SiteInv'
<1>a. /\ claim \in [Claims -> ClaimRow]
      /\ req \in [Slots -> Request]
      /\ Claims \subseteq Int
  BY DEF TypeInv, ClaimsTypeOK, StoreTypeOK, Claims
<1>1. CASE SameClaims
  BY <1>1, SiteInvKept, ClaimRequestStep
<1>2. ASSUME NEW t \in Slots, ClaimWrite(t)
      PROVE  SiteInv'
  <2>1. PICK c \in Claims :
           /\ claim[c].status = "NONE"
           /\ \A b \in Claims : b < c => claim[b].status # "NONE"
           /\ \A b \in Claims : b # c => claim'[b] = claim[b]
           /\ claim'[c].status = "PENDING"
           /\ claim'[c].listing = req[t].listing
           /\ claim'[c].org = req[t].org
           /\ claim'[c].site = req[t].site
    BY <1>2, ClaimWriteEffect
  <2>2. req[t].op = "claim" /\ Done(t)
    BY <1>2 DEF ClaimWrite
  <2>3. \A b \in Claims : claim[b].status # "NONE" => b < c
    BY <1>a, <2>1 DEF SiteInv, NoGaps
  <2>a. \A b \in Claims : b # c /\ LiveClaim(b)' => LiveClaim(b)
    BY <2>1 DEF LiveClaim
  <2>b. \A b \in Claims : b # c /\ LiveClaim(b)' => b < c
    BY <2>3, <2>a DEF LiveClaim, ClaimStatus
  \* the new claim against the older ones
  <2>4. \A b \in Claims :
           /\ b # c
           /\ LiveClaim(b)'
           /\ claim'[b].listing = claim'[c].listing
           /\ claim'[b].org = claim'[c].org
           => claim'[b].site \notin {claim'[c].site, Null}
    BY <2>1, <2>2, <2>a DEF SiteInv, NoRival
  <2>5. NoGaps'
    BY <1>a, <2>1, <2>3 DEF SiteInv, NoGaps
  <2>6. OneClaimPerSite'
    <3> SUFFICES ASSUME NEW b \in Claims, NEW d \in Claims, b # d,
                        LiveClaim(b)', LiveClaim(d)',
                        claim'[b].listing = claim'[d].listing, claim'[b].org = claim'[d].org
                 PROVE  claim'[b].site # claim'[d].site
      BY DEF OneClaimPerSite
    <3>1. CASE b = c \/ d = c
      BY <2>4, <3>1
    <3>2. CASE b # c /\ d # c
      BY <2>1, <2>a, <3>2 DEF SiteInv, OneClaimPerSite
    <3> QED
      BY <3>1, <3>2
  <2>7. HeadOfficeClaimIsLast'
    <3> SUFFICES ASSUME NEW b \in Claims, NEW d \in Claims, b < d,
                        LiveClaim(b)', LiveClaim(d)',
                        claim'[b].listing = claim'[d].listing, claim'[b].org = claim'[d].org
                 PROVE  claim'[b].site # Null
      BY DEF HeadOfficeClaimIsLast
    <3>1. b # c
      BY <1>a, <2>b
    <3>2. CASE d = c
      BY <2>4, <3>1, <3>2
    <3>3. CASE d # c
      BY <2>1, <2>a, <3>1, <3>3 DEF SiteInv, HeadOfficeClaimIsLast
    <3> QED
      BY <3>2, <3>3
  <2>8. NoRival'
    <3> SUFFICES ASSUME NEW s \in Slots, NEW d \in Claims, req'[s].op = "claim",
                        LiveClaim(d)',
                        claim'[d].listing = req'[s].listing, claim'[d].org = req'[s].org
                 PROVE  claim'[d].site \notin {req'[s].site, Null}
      BY DEF NoRival
    <3>1. s # t /\ req'[s] = req[s]
      BY <1>a, <2>2 DEF Done, Idle
    \* both hold the row lock of their listing, so it is not the same listing
    <3>2. req[s].listing # req[t].listing
      BY <2>2, <3>1 DEF LockInv
    <3>3. d # c
      BY <2>1, <3>1, <3>2
    <3> QED
      BY <2>1, <2>a, <3>1, <3>3 DEF SiteInv, NoRival
  <2> QED
    BY <2>5, <2>6, <2>7, <2>8 DEF SiteInv
<1> QED
  BY <1>1, <1>2, ClaimsAddedByClaimWrite

LEMMA SiteInvUnlessRevived == ClaimsSpec /\ [][NoRevival]_claimsVars => []SiteInv
<1>1. TypeInv /\ LockInv /\ SiteInv /\ [ClaimsNext]_claimsVars /\ [NoRevival]_claimsVars
        => SiteInv'
  <2>1. UNCHANGED claimsVars => NoRevival
    BY DEF claimsVars, storeVars, NoRevival
  <2> QED
    BY <2>1, SiteInvNext
<1> QED
  BY <1>1, SiteInvInit, TypeInvInit, TypeInvNext, LockInvInit, LockInvNext, PTL DEF ClaimsSpec

(* In the schema of the repository cancelClaim fails, and there is no cancelled *)
(* claim to bring back.                                                        *)
NoneCancelled == \A c \in Claims : claim[c].status # "CANCELLED"

LEMMA NoneCancelledInit == ClaimsInit => NoneCancelled
BY DEF ClaimsInit, StoreInit, TablesInit, NoneCancelled, NoClaim

LEMMA NoneCancelledNext ==
    ASSUME ~LockQueryResolves, TypeInv, NoneCancelled, [ClaimsNext]_claimsVars
    PROVE  NoneCancelled'
BY ClaimsCancelledByCancelClaim DEF NoneCancelled

LEMMA NoneRevived ==
    ASSUME "listing_id" \notin ClaimColumns
    PROVE  ClaimsSpec => [][NoRevival]_claimsVars
<1>1. ~LockQueryResolves
  BY DEF LockQueryResolves
<1>2. TypeInv /\ NoneCancelled /\ [ClaimsNext]_claimsVars => NoneCancelled'
  BY <1>1, NoneCancelledNext
<1>3. NoneCancelled => [NoRevival]_claimsVars
  BY DEF NoneCancelled, NoRevival
<1> QED
  BY <1>2, <1>3, NoneCancelledInit, TypeInvInit, TypeInvNext, PTL DEF ClaimsSpec

(***************************************************************************)
(* What it takes for two claims of one site to be live at the same time:   *)
(* a step that brings a cancelled claim back.  In either schema, and for   *)
(* any requests in progress, nothing else does it.                         *)
(***************************************************************************)
THEOREM OneClaimPerSiteUnlessRevived ==
    ClaimsSpec /\ [][NoRevival]_claimsVars => []OneClaimPerSite
<1>1. SiteInv => OneClaimPerSite
  BY DEF SiteInv
<1> QED
  BY <1>1, SiteInvUnlessRevived, PTL

(***************************************************************************)
(* claimListing lets a site of an organisation have one claim on a listing *)
(* that is not cancelled, however many requests race each other.  Proved   *)
(* for the schema of the repository, in which food_claims has no column    *)
(* listing_id; with that column confirmClaim can bring a cancelled claim   *)
(* back and the statement is false.                                        *)
(***************************************************************************)
THEOREM OneClaimPerSiteHolds ==
    ASSUME "listing_id" \notin ClaimColumns
    PROVE  ClaimsSpec => []OneClaimPerSite
BY NoneRevived, OneClaimPerSiteUnlessRevived, PTL

(***************************************************************************)
(* A claim made without a site blocks the whole organisation: it is the    *)
(* last one its organisation makes on the listing (same schema).           *)
(***************************************************************************)
THEOREM HeadOfficeClaimIsLastHolds ==
    ASSUME "listing_id" \notin ClaimColumns
    PROVE  ClaimsSpec => []HeadOfficeClaimIsLast
<1>1. SiteInv => HeadOfficeClaimIsLast
  BY DEF SiteInv
<1> QED
  BY <1>1, SiteInvUnlessRevived, NoneRevived, PTL

-----------------------------------------------------------------------------
(* The status of a listing *)

LEMMA StatusMatchesStockInit == ClaimsInit => StatusMatchesStock
BY DEF ClaimsInit, StoreInit, TablesInit, StatusMatchesStock, NoListing

(* Only cancelClaim can leave a listing in a wrong status. *)
LEMMA StatusMatchesStockNext ==
    ASSUME TypeInv, StatusMatchesStock, [ClaimsNext]_claimsVars
    PROVE  \/ StatusMatchesStock'
           \/ \E o \in Orgs, c \in Claims :
                 LockQueryResolves /\ CancelLocked(o, c) /\ UNCHANGED req
<1>a. listing \in [Listings -> ListingRow]
  BY DEF TypeInv, ClaimsTypeOK, StoreTypeOK
<1>1. CASE UNCHANGED listing
  BY <1>1 DEF StatusMatchesStock
<1>2. ASSUME NEW o, NEW l \in Listings, NEW type, NEW qty, CreateListing(o, l, type, qty)
      PROVE  StatusMatchesStock'
  BY <1>2, <1>a DEF CreateListing, NoListing, StatusMatchesStock
<1>3. ASSUME NEW l \in Listings, DeadlinePasses(l)
      PROVE  StatusMatchesStock'
  <2>1. \A k \in Listings : /\ listing'[k].status = listing[k].status
                            /\ listing'[k].remaining = listing[k].remaining
                            /\ listing'[k].total = listing[k].total
    BY <1>3, <1>a DEF DeadlinePasses, ListingRow
  <2> QED
    BY <2>1 DEF StatusMatchesStock
<1>4. ASSUME NEW s \in Slots, CancelListingWrite(s) \/ ExpireWrite(s)
      PROVE  StatusMatchesStock'
  <2> DEFINE l == req[s].listing
  <2>1. \/ listing' = [listing EXCEPT ![l].status = "CANCELLED"]
        \/ listing' = [listing EXCEPT ![l].status = "EXPIRED"]
    BY <1>4 DEF CancelListingWrite, ExpireWrite
  <2>2. \A k \in Listings : k # l => listing'[k] = listing[k]
    BY <1>a, <2>1
  <2>3. l \in Listings => listing'[l].status \in {"CANCELLED", "EXPIRED"}
    BY <1>a, <2>1 DEF ListingRow
  <2> QED
    BY <2>2, <2>3 DEF StatusMatchesStock
<1>5. ASSUME NEW s \in Slots, ClaimWrite(s)
      PROVE  StatusMatchesStock'
  <2> DEFINE l == req[s].listing
  <2>1. l \in Listings /\ req[s].left \in Int
    BY <1>5, RequestShape DEF ClaimWrite, ClaimReq, TypeInv, ClaimsTypeOK
  <2>2. \A k \in Listings : k # l => listing'[k] = listing[k]
    BY <1>5, <1>a DEF ClaimWrite
  <2>3. /\ listing'[l].remaining = req[s].left
        /\ listing'[l].status = StatusAfterClaim(req[s].left)
    BY <1>5, <1>a, <2>1, SMTT(60) DEF ClaimWrite, ListingRow
  <2> QED
    BY <2>1, <2>2, <2>3 DEF StatusMatchesStock, StatusAfterClaim
<1>6. ASSUME NEW s \in Slots, NEW o, NEW u, NEW l, NEW c, NEW rate, NEW qty,
             \/ ClaimRead(s, u, l, qty) \/ ConfirmRead(s, o, c) \/ RateRead(s, o, c)
             \/ CollectRead(s, o, c, rate) \/ FeedbackRead(s, o, c, rate)
             \/ CancelListingRead(s, o, l) \/ ExpireRead(s, l)
             \/ ConfirmWrite(s) \/ CollectWrite(s) \/ RateWrite(s) \/ FeedbackWrite(s)
             \/ Crash(s)
      PROVE  UNCHANGED listing
  BY <1>6 DEF ClaimRead, ConfirmRead, RateRead, CollectRead, FeedbackRead, CancelListingRead,
     ExpireRead, ConfirmWrite, CollectWrite, RateWrite, FeedbackWrite, Crash, storeVars
<1>7. CASE UNCHANGED claimsVars
  BY <1>7, <1>1 DEF claimsVars, storeVars
<1>8. CASE ClaimsNext
  BY <1>8, <1>1, <1>2, <1>3, <1>4, <1>5, <1>6
     DEF ClaimsNext, ClaimFull, ClaimPartial, CancelClaim, storeVars, Terminate, Slots
<1> QED
  BY <1>7, <1>8

(***************************************************************************)
(* ACTIVE means that nothing is taken, PARTIAL that something is left and  *)
(* CLAIMED that nothing is (same schema: no claim gives food back).        *)
(***************************************************************************)
THEOREM StatusMatchesStockHolds ==
    ASSUME "listing_id" \notin ClaimColumns
    PROVE  ClaimsSpec => []StatusMatchesStock
<1>1. ~LockQueryResolves
  BY DEF LockQueryResolves
<1>2. TypeInv /\ StatusMatchesStock /\ [ClaimsNext]_claimsVars => StatusMatchesStock'
  BY <1>1, StatusMatchesStockNext
<1> QED
  BY <1>2, StatusMatchesStockInit, TypeInvInit, TypeInvNext, PTL DEF ClaimsSpec

-----------------------------------------------------------------------------
(***************************************************************************)
(* Sums.  SumFunctionOnSet is a recursive function over the subsets of an  *)
(* index set; what it computes is proved by looking at a smallest subset   *)
(* for which it would not.                                                 *)
(***************************************************************************)
Sum(f, S) == SumFunctionOnSet(f, S)

Chosen(S) == CHOOSE x \in S : TRUE

\* g adds up f over every subset of S.
AddsUp(f, S, g) ==
    g = [s \in SUBSET S |-> IF s = {} THEN 0 ELSE f[Chosen(s)] + g[s \ {Chosen(s)}]]

LEMMA SumIsRecursive ==
    ASSUME NEW f, NEW S
    PROVE  Sum(f, S) = (CHOOSE g : AddsUp(f, S, g))[S]
BY DEF Sum, SumFunctionOnSet, FoldFunctionOnSet, MapThenFoldSet, AddsUp, Chosen

(* Among the subsets of a finite set one is smallest. *)
LEMMA Smallest ==
    ASSUME NEW S, IsFiniteSet(S), NEW T, T \subseteq SUBSET S, T # {}
    PROVE  \E s \in T : \A t \in SUBSET s : t # s => t \notin T
<1>1. IsWellFoundedOn(StrictSubsetOrdering(S), SUBSET S)
  BY FS_StrictSubsetOrderingWellFounded, FS_FiniteSubsetsOfFinite
<1>2. PICK s \in T : \A t \in T : ~ (<<t, s>> \in StrictSubsetOrdering(S))
  BY <1>1, WFMin
<1> QED
  BY <1>2 DEF StrictSubsetOrdering

LEMMA AddsUpOnce ==
    ASSUME NEW f, NEW S, IsFiniteSet(S), NEW g, NEW h, AddsUp(f, S, g), AddsUp(f, S, h)
    PROVE  g = h
<1>1. \A s \in SUBSET S : g[s] = IF s = {} THEN 0 ELSE f[Chosen(s)] + g[s \ {Chosen(s)}]
  BY DEF AddsUp
<1>2. \A s \in SUBSET S : h[s] = IF s = {} THEN 0 ELSE f[Chosen(s)] + h[s \ {Chosen(s)}]
  BY DEF AddsUp
<1> DEFINE T == {s \in SUBSET S : g[s] # h[s]}
<1>a. T \subseteq SUBSET S
  OBVIOUS
<1>b. T # {} => \E s \in T : \A t \in SUBSET s : t # s => t \notin T
  <2> HIDE DEF T
  <2> QED
    BY <1>a, Smallest
<1>3. CASE T # {}
  <2>1. PICK s \in T : \A t \in SUBSET s : t # s => t \notin T
    BY <1>3, <1>b
  <2>2. s # {}
    BY <1>1, <1>2, <2>1
  <2>3. Chosen(s) \in s
    BY <2>2 DEF Chosen
  <2>4. g[s \ {Chosen(s)}] = h[s \ {Chosen(s)}]
    BY <2>1, <2>3
  <2> QED
    BY <1>1, <1>2, <2>1, <2>2, <2>4
<1>4. CASE T = {}
  <2>1. \A s \in SUBSET S : g[s] = h[s]
    BY <1>4
  <2>2. g = [s \in SUBSET S |-> g[s]] /\ h = [s \in SUBSET S |-> h[s]]
    BY DEF AddsUp
  <2> QED
    BY <2>1, <2>2
<1> QED
  BY <1>3, <1>4

LEMMA AddsUpWithin ==
    ASSUME NEW f, NEW S, NEW g, AddsUp(f, S, g), NEW T, T \subseteq S
    PROVE  AddsUp(f, T, [s \in SUBSET T |-> g[s]])
<1> DEFINE h == [s \in SUBSET T |-> g[s]]
<1>1. ASSUME NEW s \in SUBSET T
      PROVE  h[s] = IF s = {} THEN 0 ELSE f[Chosen(s)] + h[s \ {Chosen(s)}]
  <2>1. s \in SUBSET S
    OBVIOUS
  <2>2. g[s] = IF s = {} THEN 0 ELSE f[Chosen(s)] + g[s \ {Chosen(s)}]
    BY <2>1 DEF AddsUp
  <2>3. s \ {Chosen(s)} \in SUBSET T
    OBVIOUS
  <2> QED
    BY <2>2, <2>3
<1>2. h = [s \in SUBSET T |-> h[s]]
  OBVIOUS
<1> HIDE DEF h
<1>3. h = [s \in SUBSET T |-> IF s = {} THEN 0 ELSE f[Chosen(s)] + h[s \ {Chosen(s)}]]
  BY <1>1, <1>2
<1>4. AddsUp(f, T, h)
  BY <1>3 DEF AddsUp
<1> QED
  BY <1>4 DEF h

LEMMA SumIfAddsUp ==
    ASSUME NEW f, NEW S, IsFiniteSet(S), NEW g, AddsUp(f, S, g)
    PROVE  \A s \in SUBSET S : Sum(f, s) = g[s]
<1> SUFFICES ASSUME NEW s \in SUBSET S PROVE Sum(f, s) = g[s]
  OBVIOUS
<1>1. AddsUp(f, s, [t \in SUBSET s |-> g[t]])
  BY AddsUpWithin
<1>2. AddsUp(f, s, CHOOSE h : AddsUp(f, s, h))
  BY <1>1
<1>3. IsFiniteSet(s)
  BY FS_Subset
<1>4. (CHOOSE h : AddsUp(f, s, h)) = [t \in SUBSET s |-> g[t]]
  BY <1>1, <1>2, <1>3, AddsUpOnce
<1> QED
  BY <1>4, SumIsRecursive

\* What the recursion says of Sum, where it is well defined.
SumStep(f, s) == Sum(f, s) = IF s = {} THEN 0 ELSE f[Chosen(s)] + Sum(f, s \ {Chosen(s)})

LEMMA AddsUpStep ==
    ASSUME NEW f, NEW S, IsFiniteSet(S), NEW g, AddsUp(f, S, g)
    PROVE  SumStep(f, S)
<1>1. g[S] = IF S = {} THEN 0 ELSE f[Chosen(S)] + g[S \ {Chosen(S)}]
  BY DEF AddsUp
<1>2. Sum(f, S) = g[S] /\ Sum(f, S \ {Chosen(S)}) = g[S \ {Chosen(S)}]
  BY SumIfAddsUp
<1> QED
  BY <1>1, <1>2 DEF SumStep

LEMMA AddsUpExists ==
    ASSUME NEW f, NEW S, IsFiniteSet(S)
    PROVE  \E g : AddsUp(f, S, g)
<1> DEFINE T == {s \in SUBSET S : ~ \E g : AddsUp(f, s, g)}
<1>a. T \subseteq SUBSET S
  OBVIOUS
<1>b. T # {} => \E s \in T : \A t \in SUBSET s : t # s => t \notin T
  <2> HIDE DEF T
  <2> QED
    BY <1>a, Smallest
<1>1. CASE T # {}
  <2>1. PICK s \in T : \A t \in SUBSET s : t # s => t \notin T
    BY <1>1, <1>b
  <2>2. \A t \in SUBSET s : t # s => SumStep(f, t)
    <3> SUFFICES ASSUME NEW t \in SUBSET s, t # s PROVE SumStep(f, t)
      OBVIOUS
    <3>1. PICK g : AddsUp(f, t, g)
      BY <2>1
    <3>2. IsFiniteSet(t)
      BY FS_Subset
    <3> QED
      BY <3>1, <3>2, AddsUpStep
  <2> DEFINE h == [t \in SUBSET s |-> IF t = {} THEN 0 ELSE f[Chosen(t)] + Sum(f, t \ {Chosen(t)})]
  <2>3. ASSUME NEW t \in SUBSET s
        PROVE  h[t] = IF t = {} THEN 0 ELSE f[Chosen(t)] + h[t \ {Chosen(t)}]
    <3>1. CASE t = {}
      BY <3>1
    <3>2. CASE t # {}
      <4>1. Chosen(t) \in t
        BY <3>2 DEF Chosen
      <4>2. PICK u : u = t \ {Chosen(t)}
        OBVIOUS
      <4>3. u \in SUBSET s /\ u # s
        BY <4>1, <4>2
      <4>4. h[u] = Sum(f, u)
        BY <2>2, <4>3 DEF SumStep
      <4> QED
        BY <3>2, <4>2, <4>4
    <3> QED
      BY <3>1, <3>2
  <2>4. h = [t \in SUBSET s |-> h[t]]
    OBVIOUS
  <2> HIDE DEF h
  <2>5. AddsUp(f, s, h)
    BY <2>3, <2>4 DEF AddsUp
  <2> QED
    BY <2>1, <2>5
<1>2. CASE T = {}
  BY <1>2
<1> QED
  BY <1>1, <1>2

LEMMA SumRecursion ==
    ASSUME NEW f, NEW S, IsFiniteSet(S)
    PROVE  /\ Sum(f, {}) = 0
           /\ S # {} => Chosen(S) \in S /\ Sum(f, S) = f[Chosen(S)] + Sum(f, S \ {Chosen(S)})
<1>1. SumStep(f, S)
  BY AddsUpExists, AddsUpStep
<1>2. SumStep(f, {})
  BY AddsUpExists, AddsUpStep, FS_EmptySet
<1>3. S # {} => Chosen(S) \in S
  BY DEF Chosen
<1> QED
  BY <1>1, <1>2, <1>3 DEF SumStep

LEMMA SumEmpty == ASSUME NEW f PROVE Sum(f, {}) = 0
BY SumRecursion, FS_EmptySet

(* A sum of integers is one, ... *)
LEMMA SumType ==
    ASSUME NEW f, NEW S, IsFiniteSet(S), \A x \in S : f[x] \in Int
    PROVE  Sum(f, S) \in Int
<1> DEFINE T == {s \in SUBSET S : Sum(f, s) \notin Int}
<1>a. T \subseteq SUBSET S
  OBVIOUS
<1>b. T # {} => \E s \in T : \A t \in SUBSET s : t # s => t \notin T
  <2> HIDE DEF T
  <2> QED
    BY <1>a, Smallest
<1>1. CASE T # {}
  <2>1. PICK s \in T : \A t \in SUBSET s : t # s => t \notin T
    BY <1>1, <1>b
  <2>2. IsFiniteSet(s)
    BY FS_Subset
  <2>3. s # {}
    BY <2>1, SumEmpty, SMTT(60)
  <2>4. Chosen(s) \in s /\ Sum(f, s) = f[Chosen(s)] + Sum(f, s \ {Chosen(s)})
    BY <2>2, <2>3, SumRecursion
  <2>5. Sum(f, s \ {Chosen(s)}) \in Int
    BY <2>1, <2>4
  <2> QED
    BY <2>1, <2>4, <2>5
<1>2. CASE T = {}
  BY <1>2
<1> QED
  BY <1>1, <1>2

(* ... in which the terms may come in any order, *)
LEMMA SumRemove ==
    ASSUME NEW f, NEW S, IsFiniteSet(S), \A x \in S : f[x] \in Int, NEW x \in S
    PROVE  Sum(f, S) = f[x] + Sum(f, S \ {x})
<1> DEFINE T == {s \in SUBSET S : \E y \in s : Sum(f, s) # f[y] + Sum(f, s \ {y})}
<1>a. T \subseteq SUBSET S
  OBVIOUS
<1>b. T # {} => \E s \in T : \A t \in SUBSET s : t # s => t \notin T
  <2> HIDE DEF T
  <2> QED
    BY <1>a, Smallest
<1>1. CASE T # {}
  <2>1. PICK s \in T : \A t \in SUBSET s : t # s => t \notin T
    BY <1>1, <1>b
  <2>2. PICK y \in s : Sum(f, s) # f[y] + Sum(f, s \ {y})
    BY <2>1
  <2>3. IsFiniteSet(s)
    BY FS_Subset
  <2>4. PICK c \in s : Sum(f, s) = f[c] + Sum(f, s \ {c})
    BY <2>2, <2>3, SumRecursion
  <2>5. c # y
    BY <2>2, <2>4
  <2>6. \A t \in SUBSET s : t # s => \A z \in t : Sum(f, t) = f[z] + Sum(f, t \ {z})
    BY <2>1
  <2>7. Sum(f, s \ {c}) = f[y] + Sum(f, (s \ {c}) \ {y})
    BY <2>5, <2>6
  <2>8. Sum(f, s \ {y}) = f[c] + Sum(f, (s \ {y}) \ {c})
    BY <2>5, <2>6
  <2>9. PICK u : u = (s \ {c}) \ {y} /\ u = (s \ {y}) \ {c}
    OBVIOUS
  <2>10. Sum(f, u) \in Int
    <3>1. u \subseteq S
      BY <2>9
    <3>2. IsFiniteSet(u)
      BY <3>1, FS_Subset
    <3> QED
      BY <3>1, <3>2, SumType
  <2>11. f[c] \in Int /\ f[y] \in Int
    OBVIOUS
  <2>12. Sum(f, s) = f[c] + (f[y] + Sum(f, u))
    BY <2>4, <2>7, <2>9
  <2>13. Sum(f, s \ {y}) = f[c] + Sum(f, u)
    BY <2>8, <2>9
  <2> QED
    BY <2>2, <2>10, <2>11, <2>12, <2>13
<1>2. CASE T = {}
  BY <1>2
<1> QED
  BY <1>1, <1>2

(* of which terms that are equal may be replaced, *)
LEMMA SumEqual ==
    ASSUME NEW f, NEW g, NEW S, IsFiniteSet(S), \A x \in S : f[x] = g[x]
    PROVE  Sum(f, S) = Sum(g, S)
<1> DEFINE T == {s \in SUBSET S : Sum(f, s) # Sum(g, s)}
<1>a. T \subseteq SUBSET S
  OBVIOUS
<1>b. T # {} => \E s \in T : \A t \in SUBSET s : t # s => t \notin T
  <2> HIDE DEF T
  <2> QED
    BY <1>a, Smallest
<1>1. CASE T # {}
  <2>1. PICK s \in T : \A t \in SUBSET s : t # s => t \notin T
    BY <1>1, <1>b
  <2>2. IsFiniteSet(s)
    BY FS_Subset
  <2>3. s # {}
    BY <2>1, SumEmpty
  <2>4. /\ Chosen(s) \in s
        /\ Sum(f, s) = f[Chosen(s)] + Sum(f, s \ {Chosen(s)})
        /\ Sum(g, s) = g[Chosen(s)] + Sum(g, s \ {Chosen(s)})
    BY <2>2, <2>3, SumRecursion
  <2>5. Sum(f, s \ {Chosen(s)}) = Sum(g, s \ {Chosen(s)})
    BY <2>1, <2>4
  <2> QED
    BY <2>1, <2>4, <2>5
<1>2. CASE T = {}
  BY <1>2
<1> QED
  BY <1>1, <1>2

(* which adds up what is added term by term, *)
LEMMA SumPlus ==
    ASSUME NEW f, NEW g, NEW h, NEW S, IsFiniteSet(S),
           \A x \in S : f[x] \in Int /\ g[x] \in Int /\ h[x] = f[x] + g[x]
    PROVE  Sum(h, S) = Sum(f, S) + Sum(g, S)
<1> DEFINE T == {s \in SUBSET S : Sum(h, s) # Sum(f, s) + Sum(g, s)}
<1>a. T \subseteq SUBSET S
  OBVIOUS
<1>b. T # {} => \E s \in T : \A t \in SUBSET s : t # s => t \notin T
  <2> HIDE DEF T
  <2> QED
    BY <1>a, Smallest
<1>1. CASE T # {}
  <2>1. PICK s \in T : \A t \in SUBSET s : t # s => t \notin T
    BY <1>1, <1>b
  <2>2. IsFiniteSet(s)
    BY FS_Subset
  <2>3. s # {}
    <3>1. Sum(f, {}) = 0 /\ Sum(g, {}) = 0 /\ Sum(h, {}) = 0
      BY SumEmpty
    <3>2. Sum(h, {}) = Sum(f, {}) + Sum(g, {})
      BY <3>1
    <3>3. Sum(h, s) # Sum(f, s) + Sum(g, s)
      BY <2>1
    <3> QED
      BY <3>2, <3>3, Zenon
  <2>4. PICK c \in s : /\ Sum(f, s) = f[c] + Sum(f, s \ {c})
                       /\ Sum(g, s) = g[c] + Sum(g, s \ {c})
                       /\ Sum(h, s) = h[c] + Sum(h, s \ {c})
    BY <2>2, <2>3, SumRecursion, ZenonT(60)
  <2>5. Sum(h, s \ {c}) = Sum(f, s \ {c}) + Sum(g, s \ {c})
    BY <2>1, <2>4
  <2>6. Sum(f, s \ {c}) \in Int /\ Sum(g, s \ {c}) \in Int
    <3>1. IsFiniteSet(s \ {c})
      BY FS_Subset
    <3> QED
      BY <3>1, SumType
  <2>7. f[c] \in Int /\ g[c] \in Int /\ h[c] = f[c] + g[c]
    OBVIOUS
  <2> QED
    BY <2>1, <2>4, <2>5, <2>6, <2>7
<1>2. CASE T = {}
  BY <1>2
<1> QED
  BY <1>1, <1>2

(* and is not negative if no term is. *)
LEMMA SumNat ==
    ASSUME NEW f, NEW S, IsFiniteSet(S), \A x \in S : f[x] \in Nat
    PROVE  Sum(f, S) \in Nat
<1> DEFINE T == {s \in SUBSET S : Sum(f, s) \notin Nat}
<1>a. T \subseteq SUBSET S
  OBVIOUS
<1>b. T # {} => \E s \in T : \A t \in SUBSET s : t # s => t \notin T
  <2> HIDE DEF T
  <2> QED
    BY <1>a, Smallest
<1>1. CASE T # {}
  <2>1. PICK s \in T : \A t \in SUBSET s : t # s => t \notin T
    BY <1>1, <1>b
  <2>2. IsFiniteSet(s)
    BY FS_Subset
  <2>3. s # {}
    <3>1. Sum(f, {}) \in Nat
      BY SumEmpty
    <3>2. Sum(f, s) \notin Nat
      BY <2>1
    <3> QED
      BY <3>1, <3>2, Zenon
  <2>4. Chosen(s) \in s /\ Sum(f, s) = f[Chosen(s)] + Sum(f, s \ {Chosen(s)})
    BY <2>2, <2>3, SumRecursion
  <2>5. Sum(f, s \ {Chosen(s)}) \in Nat
    BY <2>1, <2>4
  <2> QED
    BY <2>1, <2>4, <2>5
<1>2. CASE T = {}
  BY <1>2
<1> QED
  BY <1>1, <1>2

(* The weight of a listing or a claim is such a sum. *)
LEMMA KgIsSum ==
    ASSUME NEW f, IsFiniteSet(DOMAIN f), \A x \in DOMAIN f : f[x] \in Int
    PROVE  Kg(f) = Sum(f, DOMAIN f)
<1>1. Sum(f, DOMAIN f) = SumFunction(f)
  BY DEF Sum, SumFunction
<1>2. Sum(f, DOMAIN f) \in Int
  BY SumType
<1> QED
  BY <1>1, <1>2 DEF Kg

LEMMA KgAdds ==
    ASSUME NEW f \in [Items -> Int], NEW g \in [Items -> Int], NEW h \in [Items -> Int],
           \A i \in Items : h[i] = f[i] + g[i]
    PROVE  Kg(h) = Kg(f) + Kg(g)
<1>1. IsFiniteSet(Items)
  BY ItemsAssumption
<1>2. Sum(h, Items) = Sum(f, Items) + Sum(g, Items)
  BY <1>1, SumPlus
<1>3. Kg(f) = Sum(f, Items) /\ Kg(g) = Sum(g, Items) /\ Kg(h) = Sum(h, Items)
  BY <1>1, KgIsSum
<1> QED
  BY <1>2, <1>3

-----------------------------------------------------------------------------
(* What is left of a listing *)

\* No weight of a listing or of one of its items changes.
SameWeights ==
    /\ stock' = stock
    /\ \A l \in Listings : /\ listing'[l].remaining = listing[l].remaining
                            /\ listing'[l].total = listing[l].total

(* Weights are written when a listing is created, claimed or given back. *)
LEMMA WeightsStep ==
    ASSUME TypeInv, [ClaimsNext]_claimsVars
    PROVE  \/ SameWeights
           \/ \E o \in Providers, l \in Listings, type \in OfferedTypes,
                 qty \in [Items -> 0 .. MaxQty] : CreateListing(o, l, type, qty)
           \/ \E s \in Slots : ClaimWrite(s)
           \/ \E o \in Orgs, c \in Claims :
                 LockQueryResolves /\ CancelLocked(o, c) /\ UNCHANGED req
<1>a. listing \in [Listings -> ListingRow]
  BY DEF TypeInv, ClaimsTypeOK, StoreTypeOK
<1>1. CASE UNCHANGED <<listing, stock>>
  BY <1>1 DEF SameWeights
<1>2. ASSUME NEW l \in Listings, DeadlinePasses(l)
      PROVE  SameWeights
  BY <1>2, <1>a DEF DeadlinePasses, ListingRow, SameWeights
<1>3. ASSUME NEW s \in Slots, CancelListingWrite(s) \/ ExpireWrite(s)
      PROVE  SameWeights
  <2> DEFINE l == req[s].listing
  <2>1. /\ \/ listing' = [listing EXCEPT ![l].status = "CANCELLED"]
           \/ listing' = [listing EXCEPT ![l].status = "EXPIRED"]
        /\ stock' = stock
    BY <1>3, SMTT(60) DEF CancelListingWrite, ExpireWrite
  <2> QED
    BY <1>a, <2>1 DEF ListingRow, SameWeights
<1>4. ASSUME NEW s \in Slots, NEW o, NEW u, NEW l, NEW c, NEW rate, NEW qty,
             \/ ClaimRead(s, u, l, qty) \/ ConfirmRead(s, o, c) \/ RateRead(s, o, c)
             \/ CollectRead(s, o, c, rate) \/ FeedbackRead(s, o, c, rate)
             \/ CancelListingRead(s, o, l) \/ ExpireRead(s, l)
             \/ ConfirmWrite(s) \/ CollectWrite(s) \/ RateWrite(s) \/ FeedbackWrite(s)
             \/ Crash(s)
      PROVE  UNCHANGED <<listing, stock>>
  BY <1>4 DEF ClaimRead, ConfirmRead, RateRead, CollectRead, FeedbackRead, CancelListingRead,
     ExpireRead, ConfirmWrite, CollectWrite, RateWrite, FeedbackWrite, Crash, storeVars
<1>5. CASE UNCHANGED claimsVars
  BY <1>1, <1>5 DEF claimsVars, storeVars
<1>6. CASE ClaimsNext
  BY <1>6, <1>1, <1>2, <1>3, <1>4, SMTT(60)
     DEF ClaimsNext, ClaimFull, ClaimPartial, CancelClaim, storeVars, Terminate, Slots
<1> QED
  BY <1>5, <1>6

(* Nobody writes the weights of a listing while a request holds its row lock. *)
LEMMA LockedRow ==
    ASSUME TypeInv, LockInv, [ClaimsNext]_claimsVars,
           NEW t \in Slots, req[t].op = "claim", req'[t] = req[t]
    PROVE  LET k == req[t].listing
           IN  /\ k \in Listings
               /\ listing'[k].remaining = listing[k].remaining
               /\ stock'[k] = stock[k]
<1> DEFINE k == req[t].listing
<1>a. /\ listing \in [Listings -> ListingRow]
      /\ stock \in [Listings -> [Items -> ItemRow]]
      /\ req \in [Slots -> Request]
      /\ t # Null
  BY StoreAssumption DEF TypeInv, ClaimsTypeOK, StoreTypeOK
<1>b. k \in Listings /\ lock[k] = t /\ listing[k].status # "NONE"
  <2>1. req[t] \in ClaimReq
    BY <1>a, RequestShape
  <2> QED
    BY <2>1 DEF ClaimReq, LockInv, OpenListing
<1> DEFINE Kept == listing'[k].remaining = listing[k].remaining /\ stock'[k] = stock[k]
<1>1. CASE SameWeights
  BY <1>b, <1>1 DEF SameWeights
<1>2. ASSUME NEW o, NEW l \in Listings, NEW type, NEW qty, CreateListing(o, l, type, qty)
      PROVE  Kept
  BY <1>2, <1>a, <1>b DEF CreateListing
<1>3. ASSUME NEW s \in Slots, ClaimWrite(s)
      PROVE  Kept
  <2>1. s # t
    BY <1>3, <1>a DEF ClaimWrite, Done, Idle
  <2>2. lock[req[s].listing] = s
    BY <1>3 DEF ClaimWrite, LockInv
  <2>3. k # req[s].listing
    BY <1>b, <2>1, <2>2
  <2> QED
    BY <1>3, <1>a, <1>b, <2>3 DEF ClaimWrite, TakeStock
<1>4. ASSUME NEW o, NEW c, CancelLocked(o, c)
      PROVE  Kept
  <2>1. k # claim[c].listing
    BY <1>4, <1>a, <1>b DEF CancelLocked, RowFree
  <2> QED
    BY <1>4, <1>a, <1>b, <2>1 DEF CancelLocked, ReturnStock
<1> QED
  BY <1>b, <1>1, <1>2, <1>3, <1>4, WeightsStep

\* What claimListing computed from the row it read under the lock is still the
\* difference it will make.
LeftInv ==
    \A s \in Slots :
        req[s].op = "claim"
          => req[s].left = listing[req[s].listing].remaining - Kg(req[s].qty)

LEMMA LeftInvInit == ClaimsInit => LeftInv
BY DEF ClaimsInit, LeftInv, Idle

LEMMA LeftInvNext ==
    ASSUME TypeInv, LockInv, LeftInv, [ClaimsNext]_claimsVars
    PROVE  LeftInv'
<1> SUFFICES ASSUME NEW t \in Slots, req'[t].op = "claim"
             PROVE  req'[t].left = listing'[req'[t].listing].remaining - Kg(req'[t].qty)
  BY DEF LeftInv
<1>1. CASE \E u \in Callers, l \in Listings :
              /\ UNCHANGED <<claim, listing, stock>>
              /\ req'[t].listing = l
              /\ req'[t].left = listing[l].remaining - Kg(req'[t].qty)
  BY <1>1
<1>2. CASE req'[t] = req[t]
  BY <1>2, LockedRow DEF LeftInv
<1> QED
  BY <1>1, <1>2, ClaimRequestStep

LEMMA ListingTotalsAgreeInit == ClaimsInit => ListingTotalsAgree
<1> SUFFICES ASSUME ClaimsInit, NEW l \in Listings
             PROVE  listing[l].remaining = Kg([i \in Items |-> stock[l][i].remaining])
  BY DEF ListingTotalsAgree
<1> DEFINE f == [i \in Items |-> stock[l][i].remaining]
<1>1. f = [i \in Items |-> 0] /\ listing[l].remaining = 0
  BY DEF ClaimsInit, StoreInit, TablesInit, NoListing
<1>2. f \in [Items -> Int] /\ \A i \in Items : f[i] = f[i] + f[i]
  BY <1>1
<1> HIDE DEF f
<1>3. Kg(f) = Kg(f) + Kg(f)
  BY <1>2, KgAdds
<1>4. Kg(f) = 0
  BY <1>3, KgType
<1> QED
  BY <1>1, <1>4 DEF f

LEMMA ListingTotalsAgreeNext ==
    ASSUME TypeInv, LockInv, LeftInv, ListingTotalsAgree, [ClaimsNext]_claimsVars
    PROVE  ListingTotalsAgree'
<1> SUFFICES ASSUME NEW k \in Listings
             PROVE  listing'[k].remaining = Kg([i \in Items |-> stock'[k][i].remaining])
  BY DEF ListingTotalsAgree
<1>a. /\ listing \in [Listings -> ListingRow]
      /\ claim \in [Claims -> ClaimRow]
      /\ stock \in [Listings -> [Items -> ItemRow]]
      /\ req \in [Slots -> Request]
  BY DEF TypeInv, ClaimsTypeOK, StoreTypeOK
<1>b. stock' \in [Listings -> [Items -> ItemRow]]
  BY TypeInvNext DEF TypeInv, ClaimsTypeOK, StoreTypeOK
<1> DEFINE f == [i \in Items |-> stock[k][i].remaining]
           h == [i \in Items |-> stock'[k][i].remaining]
<1>c. f \in [Items -> Int] /\ h \in [Items -> Int] /\ Kg(f) \in Int /\ Kg(h) \in Int
  BY <1>a, <1>b, KgType DEF ItemRow
<1>d. listing[k].remaining = Kg(f)
  BY DEF ListingTotalsAgree
<1>e. ASSUME listing'[k].remaining = listing[k].remaining, stock'[k] = stock[k]
      PROVE  listing'[k].remaining = Kg(h)
  <2>1. h = f
    BY <1>e
  <2> QED
    BY <1>e, <1>d, <2>1
<1>1. CASE SameWeights
  BY <1>1, <1>e DEF SameWeights
<1>2. ASSUME NEW o, NEW l \in Listings, NEW type, NEW qty \in [Items -> 0 .. MaxQty],
             CreateListing(o, l, type, qty)
      PROVE  listing'[k].remaining = Kg(h)
  <2>1. CASE k # l
    BY <1>2, <1>a, <1>e, <2>1 DEF CreateListing
  <2>2. CASE k = l
    <3>1. stock'[k] = [i \in Items |-> [total |-> qty[i], remaining |-> qty[i]]]
      BY <1>2, <1>a, <2>2 DEF CreateListing
    <3>2. h = qty
      BY <3>1
    <3>3. listing'[k].remaining = Kg(qty)
      BY <1>2, <1>a, <2>2 DEF CreateListing, NoListing
    <3> QED
      BY <3>2, <3>3
  <2> QED
    BY <2>1, <2>2
<1>3. ASSUME NEW s \in Slots, ClaimWrite(s)
      PROVE  listing'[k].remaining = Kg(h)
  <2> DEFINE l == req[s].listing
  <2>1. req[s] \in ClaimReq /\ req[s].op = "claim"
    BY <1>3, <1>a, RequestShape DEF ClaimWrite
  <2>2. l \in Listings /\ req[s].qty \in [Items -> Int]
    BY <2>1 DEF ClaimReq
  <2>3. CASE k # l
    BY <1>3, <1>a, <1>e, <2>3 DEF ClaimWrite, TakeStock
  <2>4. CASE k = l
    <3>1. listing'[k].remaining = req[s].left
      BY <1>3, <1>a, <2>4 DEF ClaimWrite, ListingRow
    <3>2. req[s].left = Kg(f) - Kg(req[s].qty)
      BY <1>d, <2>1, <2>4 DEF LeftInv
    <3>3. stock'[k] = [i \in Items |-> [stock[k][i] EXCEPT !.remaining = @ - req[s].qty[i]]]
      BY <1>3, <1>a, <2>4 DEF ClaimWrite, TakeStock
    <3>4. \A i \in Items : stock[k][i] \in ItemRow /\ req[s].qty[i] \in Int
      BY <1>a, <2>2
    <3>5. \A i \in Items : f[i] = h[i] + req[s].qty[i]
      BY <3>3, <3>4 DEF ItemRow
    <3>6. Kg(f) = Kg(h) + Kg(req[s].qty)
      <4> HIDE DEF f, h
      <4> QED
        BY <1>c, <2>2, <3>5, KgAdds
    <3> QED
      BY <1>c, <3>1, <3>2, <3>6, KgType
  <2> QED
    BY <2>3, <2>4
<1>4. ASSUME NEW o, NEW c \in Claims, CancelLocked(o, c)
      PROVE  listing'[k].remaining = Kg(h)
  <2> DEFINE l == claim[c].listing
             qty == claim[c].qty
             left == listing[l].remaining + Kg(qty)
  <2>1. l \in Listings /\ qty \in [Items -> Int]
    BY <1>4, <1>a DEF CancelLocked, Cancellable, TypeInv, ClaimLinks, ClaimRow
  <2>2. /\ listing' = [listing EXCEPT ![l].remaining = left,
                                      ![l].status = StatusAfterCancel(l, left)]
        /\ stock' = [stock EXCEPT ![l] =
                [i \in Items |-> [stock[l][i] EXCEPT !.remaining = @ + qty[i]]]]
    BY <1>4 DEF CancelLocked, ReturnStock
  <2>3. CASE k # l
    BY <1>a, <1>e, <2>2, <2>3
  <2>4. CASE k = l
    <3>1. listing'[k].remaining = Kg(f) + Kg(qty)
      BY <1>a, <1>d, <2>2, <2>4 DEF ListingRow
    <3>2. stock'[k] = [i \in Items |-> [stock[k][i] EXCEPT !.remaining = @ + qty[i]]]
      BY <1>a, <2>2, <2>4
    <3>3. \A i \in Items : stock[k][i] \in ItemRow /\ qty[i] \in Int
      BY <1>a, <2>1
    <3>4. \A i \in Items : h[i] = f[i] + qty[i]
      BY <3>2, <3>3 DEF ItemRow
    <3>5. Kg(h) = Kg(f) + Kg(qty)
      <4> HIDE DEF f, h, qty
      <4> QED
        BY <1>c, <2>1, <3>4, KgAdds
    <3> QED
      BY <3>1, <3>5
  <2> QED
    BY <2>3, <2>4
<1> QED
  BY <1>1, <1>2, <1>3, <1>4, WeightsStep

(***************************************************************************)
(* The remaining weight stored on a listing is the sum of what remains of  *)
(* its items, although claimListing computes the one from the row it read  *)
(* and decrements the others one by one: for any requests in progress, and *)
(* in either schema.                                                       *)
(***************************************************************************)
THEOREM ListingTotalsAgreeHolds == ClaimsSpec => []ListingTotalsAgree
<1> DEFINE Inv == TypeInv /\ LockInv /\ LeftInv /\ ListingTotalsAgree
<1>1. ClaimsInit => Inv
  BY TypeInvInit, LockInvInit, LeftInvInit, ListingTotalsAgreeInit
<1>2. Inv /\ [ClaimsNext]_claimsVars => Inv'
  BY TypeInvNext, LockInvNext, LeftInvNext, ListingTotalsAgreeNext
<1>3. Inv => ListingTotalsAgree
  OBVIOUS
<1> QED
  BY <1>1, <1>2, <1>3, PTL DEF ClaimsSpec

-----------------------------------------------------------------------------
(* Where the food of a listing is *)

LEMMA ClaimsFinite == IsFiniteSet(Claims)
BY StoreAssumption, FS_Interval DEF Claims

(* What the claims in H hold of item i, in claims that may have changed. *)
LEMMA HeldIsSum ==
    ASSUME NEW rows \in [Claims -> ClaimRow], NEW i \in Items, NEW H \in SUBSET Claims
    PROVE  Kg([c \in H |-> rows[c].qty[i]]) = Sum([c \in Claims |-> rows[c].qty[i]], H)
<1> DEFINE f == [c \in H |-> rows[c].qty[i]]
           g == [c \in Claims |-> rows[c].qty[i]]
<1>1. IsFiniteSet(H)
  BY ClaimsFinite, FS_Subset
<1>2. /\ DOMAIN f = H
      /\ \A c \in H : f[c] \in Int /\ f[c] = g[c]
  BY DEF ClaimRow
<1> HIDE DEF f, g
<1>3. Kg(f) = Sum(f, H)
  BY <1>1, <1>2, KgIsSum
<1>4. Sum(f, H) = Sum(g, H)
  BY <1>1, <1>2, SumEqual
<1> QED
  BY <1>3, <1>4 DEF f, g

\* The claims that hold food of listing l.
Holding(l) == {d \in Claims : LiveClaim(d) /\ claim[d].listing = l}

\* The kilograms of item i by claim.
KgByClaim(i) == [c \in Claims |-> claim[c].qty[i]]

LEMMA HoldingStep ==
    ASSUME claim \in [Claims -> ClaimRow], claim' \in [Claims -> ClaimRow],
           stock \in [Listings -> [Items -> ItemRow]],
           NEW l \in Listings, NEW i \in Items
    PROVE  /\ Kg([c \in Holding(l) |-> claim[c].qty[i]]) = Sum(KgByClaim(i), Holding(l))
           /\ Kg([c \in Holding(l)' |-> claim'[c].qty[i]]) = Sum(KgByClaim(i)', Holding(l)')
           /\ Sum(KgByClaim(i), Holding(l)) \in Int
           /\ IsFiniteSet(Holding(l)) /\ IsFiniteSet(Holding(l)')
           /\ \A c \in Claims : KgByClaim(i)[c] \in Int /\ KgByClaim(i)'[c] \in Int
<1>1. Holding(l) \in SUBSET Claims /\ Holding(l)' \in SUBSET Claims
  BY DEF Holding
<1>2. IsFiniteSet(Holding(l)) /\ IsFiniteSet(Holding(l)')
  BY <1>1, ClaimsFinite, FS_Subset
<1>3. \A c \in Claims : KgByClaim(i)[c] \in Int /\ KgByClaim(i)'[c] \in Int
  BY DEF KgByClaim, ClaimRow
<1>4. Sum(KgByClaim(i), Holding(l)) \in Int
  BY <1>1, <1>2, <1>3, SumType
<1>5. Kg([c \in Holding(l) |-> claim[c].qty[i]]) = Sum(KgByClaim(i), Holding(l))
  BY <1>1, HeldIsSum DEF KgByClaim
<1>6. Kg([c \in Holding(l)' |-> claim'[c].qty[i]]) = Sum(KgByClaim(i)', Holding(l)')
  BY <1>1, HeldIsSum DEF KgByClaim
<1> QED
  BY <1>2, <1>3, <1>4, <1>5, <1>6

LEMMA StockConservedInit == ClaimsInit => StockConserved
<1> SUFFICES ASSUME ClaimsInit, NEW l \in Listings, NEW i \in Items
             PROVE  stock[l][i].remaining + Kg([c \in Holding(l) |-> claim[c].qty[i]])
                      = stock[l][i].total
  BY DEF StockConserved, Holding
<1>1. claim \in [Claims -> ClaimRow]
  BY TypeInvInit DEF TypeInv, ClaimsTypeOK, StoreTypeOK
<1>2. Holding(l) = {}
  BY DEF ClaimsInit, StoreInit, TablesInit, Holding, LiveClaim, NoClaim, ClaimStatus
<1>3. Kg([c \in Holding(l) |-> claim[c].qty[i]]) = Sum(KgByClaim(i), Holding(l))
  BY <1>1, HeldIsSum DEF Holding, KgByClaim
<1>4. Kg([c \in Holding(l) |-> claim[c].qty[i]]) = 0
  BY <1>2, <1>3, SumEmpty
<1>5. stock[l][i] = [total |-> 0, remaining |-> 0]
  BY DEF ClaimsInit, StoreInit, TablesInit
<1> QED
  BY <1>4, <1>5

(* Food stays where it is while the same claims hold it and none takes or gives any. *)
LEMMA StockConservedKept ==
    ASSUME TypeInv, TypeInv', StockConserved, SameClaims, UNCHANGED stock,
           \A c \in Claims : claim'[c].status = "CANCELLED" <=> claim[c].status = "CANCELLED"
    PROVE  StockConserved'
<1> SUFFICES ASSUME NEW k \in Listings, NEW i \in Items
             PROVE  stock'[k][i].remaining + Kg([c \in Holding(k)' |-> claim'[c].qty[i]])
                      = stock'[k][i].total
  BY DEF StockConserved, Holding
<1>a. /\ claim \in [Claims -> ClaimRow] /\ claim' \in [Claims -> ClaimRow]
      /\ stock \in [Listings -> [Items -> ItemRow]]
  BY DEF TypeInv, ClaimsTypeOK, StoreTypeOK
<1>1. stock[k][i].remaining + Sum(KgByClaim(i), Holding(k)) = stock[k][i].total
  BY <1>a, HoldingStep DEF StockConserved, Holding
<1>2. /\ IsFiniteSet(Holding(k))
      /\ \A c \in Holding(k) : KgByClaim(i)[c] \in Int /\ KgByClaim(i)'[c] \in Int
  BY <1>a, HoldingStep DEF Holding
<1>3. \A c \in Claims : LiveClaim(c)' <=> LiveClaim(c)
  BY <1>a DEF LiveClaim, SameClaims, ClaimRow, ClaimStatus
<1>4. Holding(k)' = Holding(k)
  BY <1>3 DEF Holding, SameClaims
<1>5. \A c \in Holding(k) : KgByClaim(i)'[c] = KgByClaim(i)[c]
  BY DEF KgByClaim, Holding, SameClaims
<1>6. Sum(KgByClaim(i)', Holding(k)) = Sum(KgByClaim(i), Holding(k))
  BY <1>2, <1>5, SumEqual
<1>7. Kg([c \in Holding(k)' |-> claim'[c].qty[i]]) = Sum(KgByClaim(i)', Holding(k)')
  BY <1>a, HoldingStep
<1> QED
  BY <1>1, <1>4, <1>6, <1>7

(***************************************************************************)
(* Food moves between the shelf and the claims that hold it, unless a step *)
(* brings a cancelled claim back, whose food may have gone to another.     *)
(***************************************************************************)
LEMMA StockConservedNext ==
    ASSUME TypeInv, StockConserved, [ClaimsNext]_claimsVars, NoRevival
    PROVE  StockConserved'
<1> SUFFICES ASSUME NEW k \in Listings, NEW i \in Items
             PROVE  stock'[k][i].remaining + Kg([c \in Holding(k)' |-> claim'[c].qty[i]])
                      = stock'[k][i].total
  BY DEF StockConserved, Holding
<1>a. /\ listing \in [Listings -> ListingRow]
      /\ claim \in [Claims -> ClaimRow] /\ claim' \in [Claims -> ClaimRow]
      /\ stock \in [Listings -> [Items -> ItemRow]]
      /\ stock' \in [Listings -> [Items -> ItemRow]]
      /\ req \in [Slots -> Request]
  BY TypeInvNext DEF TypeInv, ClaimsTypeOK, StoreTypeOK
<1>b. stock[k][i] \in ItemRow /\ stock'[k][i] \in ItemRow
  BY <1>a
<1>c. stock[k][i].remaining + Sum(KgByClaim(i), Holding(k)) = stock[k][i].total
  BY <1>a, HoldingStep DEF StockConserved, Holding
<1>f. /\ IsFiniteSet(Holding(k)) /\ IsFiniteSet(Holding(k)')
      /\ \A c \in Holding(k) : KgByClaim(i)[c] \in Int
      /\ \A c \in Holding(k)' : KgByClaim(i)'[c] \in Int
  BY <1>a, HoldingStep DEF Holding
<1> DEFINE Goal == stock'[k][i].remaining + Sum(KgByClaim(i)', Holding(k)') = stock'[k][i].total
<1>d. ASSUME Goal PROVE stock'[k][i].remaining + Kg([c \in Holding(k)' |-> claim'[c].qty[i]])
                          = stock'[k][i].total
  BY <1>a, <1>d, HoldingStep
\* the same food in the same claims
<1>e. ASSUME stock'[k] = stock[k], Holding(k)' = Holding(k),
             \A c \in Holding(k) : claim'[c].qty = claim[c].qty
      PROVE  Goal
  <2>1. \A c \in Holding(k) : KgByClaim(i)'[c] = KgByClaim(i)[c]
    BY <1>e DEF KgByClaim, Holding
  <2>2. Sum(KgByClaim(i)', Holding(k)) = Sum(KgByClaim(i), Holding(k))
    BY <1>f, <2>1, SumEqual
  <2> QED
    BY <1>c, <1>e, <2>2
<1>1. ASSUME SameClaims, SameWeights,
             \A c \in Claims : claim[c].status # "CANCELLED" => claim'[c].status # "CANCELLED"
      PROVE  Goal
  <2>1. TypeInv'
    BY TypeInvNext
  <2>2. StockConserved'
    BY <1>1, <2>1, StockConservedKept DEF SameWeights, NoRevival
  <2> QED
    BY <1>a, <2>2, HoldingStep DEF StockConserved, Holding
<1>2. ASSUME NEW o, NEW l \in Listings, NEW type, NEW qty, CreateListing(o, l, type, qty)
      PROVE  Goal
  <2>1. claim' = claim /\ Holding(k)' = Holding(k)
    BY <1>2 DEF CreateListing, Holding, LiveClaim
  <2>2. CASE k # l
    BY <1>2, <1>a, <1>e, <2>1, <2>2 DEF CreateListing
  <2>3. CASE k = l
    \* no claim on a listing that did not exist
    <3>1. Holding(k)' = {}
      BY <1>2, <2>1, <2>3 DEF CreateListing, Holding, LiveClaim, TypeInv, ClaimLinks, ClaimStatus
    <3>2. Sum(KgByClaim(i)', Holding(k)') = 0
      BY <3>1, SumEmpty
    <3>3. stock'[k][i] = [total |-> qty[i], remaining |-> qty[i]]
      BY <1>2, <1>a, <2>3 DEF CreateListing
    <3>4. stock'[k][i].remaining = stock'[k][i].total /\ stock'[k][i].remaining \in Int
      BY <1>b, <3>3 DEF ItemRow
    <3> QED
      BY <3>2, <3>4
  <2> QED
    BY <2>2, <2>3
<1>3. ASSUME NEW s \in Slots, ClaimWrite(s)
      PROVE  Goal
  <2> DEFINE l == req[s].listing
  <2>1. l \in Listings /\ req[s].qty \in [Items -> Int]
    BY <1>3, <1>a, RequestShape DEF ClaimWrite, ClaimReq
  <2>2. PICK c \in Claims :
           /\ claim[c].status = "NONE"
           /\ \A b \in Claims : b # c => claim'[b] = claim[b]
           /\ claim'[c].status = "PENDING"
           /\ claim'[c].listing = l
           /\ claim'[c].qty = req[s].qty
    BY <1>3, ClaimWriteEffect
  <2>3. c \notin Holding(k) /\ (c \in Holding(k)' <=> k = l)
    BY <2>2 DEF Holding, LiveClaim, ClaimStatus
  <2>4. \A b \in Claims : b # c => (b \in Holding(k)' <=> b \in Holding(k))
    BY <2>2 DEF Holding, LiveClaim
  <2>5. \A b \in Holding(k) : claim'[b].qty = claim[b].qty
    BY <2>2, <2>3 DEF Holding
  <2>6. CASE k # l
    <3>1. Holding(k)' = Holding(k)
      BY <2>3, <2>4, <2>6 DEF Holding
    <3>2. stock'[k] = stock[k]
      BY <1>3, <1>a, <2>6 DEF ClaimWrite, TakeStock
    <3> QED
      BY <1>e, <2>5, <3>1, <3>2
  <2>7. CASE k = l
    <3>1. c \in Holding(k)' /\ Holding(k)' \ {c} = Holding(k)
      BY <2>3, <2>4, <2>7 DEF Holding
    <3>2. Sum(KgByClaim(i)', Holding(k)') = KgByClaim(i)'[c] + Sum(KgByClaim(i)', Holding(k)' \ {c})
      BY <1>f, <3>1, SumRemove
    <3>3. KgByClaim(i)'[c] = req[s].qty[i]
      BY <2>2 DEF KgByClaim
    <3>4. Sum(KgByClaim(i)', Holding(k)) = Sum(KgByClaim(i), Holding(k))
      <4>1. \A b \in Holding(k) : KgByClaim(i)'[b] = KgByClaim(i)[b]
        BY <2>5 DEF KgByClaim, Holding
      <4> QED
        BY <1>f, <4>1, SumEqual
    <3>5. stock'[k][i] = [stock[k][i] EXCEPT !.remaining = @ - req[s].qty[i]]
      BY <1>3, <1>a, <2>7 DEF ClaimWrite, TakeStock
    <3>6. /\ stock'[k][i].remaining = stock[k][i].remaining - req[s].qty[i]
          /\ stock'[k][i].total = stock[k][i].total
      BY <1>b, <3>5 DEF ItemRow
    <3>7. /\ stock[k][i].remaining \in Int /\ stock[k][i].total \in Int
          /\ req[s].qty[i] \in Int /\ Sum(KgByClaim(i), Holding(k)) \in Int
      BY <1>a, <1>b, <2>1, HoldingStep DEF ItemRow
    <3>8. Sum(KgByClaim(i)', Holding(k)') = req[s].qty[i] + Sum(KgByClaim(i), Holding(k))
      BY <3>1, <3>2, <3>3, <3>4
    <3> QED
      BY <1>c, <3>6, <3>7, <3>8
  <2> QED
    BY <2>6, <2>7
<1>4. ASSUME NEW o, NEW c \in Claims, CancelLocked(o, c)
      PROVE  Goal
  <2> DEFINE l == claim[c].listing
             qty == claim[c].qty
  <2>1. l \in Listings /\ qty \in [Items -> Int]
    BY <1>4, <1>a DEF CancelLocked, Cancellable, TypeInv, ClaimLinks, ClaimRow
  <2>2. /\ stock' = [stock EXCEPT ![l] =
                [j \in Items |-> [stock[l][j] EXCEPT !.remaining = @ + qty[j]]]]
        /\ claim' = [claim EXCEPT ![c].status = "CANCELLED"]
        /\ claim[c].status \in {"PENDING", "CONFIRMED"}
    BY <1>4 DEF CancelLocked, ReturnStock, Cancellable
  <2>3. /\ \A b \in Claims : b # c => claim'[b] = claim[b]
        /\ claim'[c].status = "CANCELLED"
    BY <1>a, <2>2 DEF ClaimRow
  <2>4. c \notin Holding(k)' /\ (c \in Holding(k) <=> k = l)
    BY <2>2, <2>3 DEF Holding, LiveClaim, ClaimStatus
  <2>5. \A b \in Claims : b # c => (b \in Holding(k)' <=> b \in Holding(k))
    BY <2>3 DEF Holding, LiveClaim
  <2>6. \A b \in Holding(k)' : claim'[b].qty = claim[b].qty
    BY <2>3, <2>4 DEF Holding
  <2>7. CASE k # l
    <3>1. Holding(k)' = Holding(k)
      BY <2>4, <2>5, <2>7 DEF Holding
    <3>2. stock'[k] = stock[k]
      BY <1>a, <2>2, <2>7
    <3> QED
      BY <1>e, <2>6, <3>1, <3>2
  <2>8. CASE k = l
    <3>1. c \in Holding(k) /\ Holding(k) \ {c} = Holding(k)'
      BY <2>4, <2>5, <2>8 DEF Holding
    <3>2. Sum(KgByClaim(i), Holding(k)) = KgByClaim(i)[c] + Sum(KgByClaim(i), Holding(k) \ {c})
      BY <1>f, <3>1, SumRemove
    <3>3. KgByClaim(i)[c] = qty[i]
      BY DEF KgByClaim
    <3>4. Sum(KgByClaim(i)', Holding(k)') = Sum(KgByClaim(i), Holding(k)')
      <4>1. \A b \in Holding(k)' : KgByClaim(i)'[b] = KgByClaim(i)[b]
        BY <2>6 DEF KgByClaim, Holding
      <4> QED
        BY <1>f, <4>1, SumEqual
    <3>5. stock'[k][i] = [stock[k][i] EXCEPT !.remaining = @ + qty[i]]
      BY <1>a, <2>2, <2>8
    <3>6. /\ stock'[k][i].remaining = stock[k][i].remaining + qty[i]
          /\ stock'[k][i].total = stock[k][i].total
      BY <1>b, <3>5 DEF ItemRow
    <3>7. /\ stock[k][i].remaining \in Int /\ stock[k][i].total \in Int /\ qty[i] \in Int
      BY <1>b, <2>1 DEF ItemRow
    <3>8. Sum(KgByClaim(i)', Holding(k)') \in Int
      BY <1>f, SumType
    <3>9. Sum(KgByClaim(i), Holding(k)) = qty[i] + Sum(KgByClaim(i)', Holding(k)')
      BY <3>1, <3>2, <3>3, <3>4
    <3> QED
      BY <1>c, <3>6, <3>7, <3>8, <3>9
  <2> QED
    BY <2>7, <2>8
<1>5. \/ /\ SameClaims /\ SameWeights
         /\ \A c \in Claims : claim[c].status # "CANCELLED" => claim'[c].status # "CANCELLED"
      \/ \E o \in Providers, l \in Listings, type \in OfferedTypes,
            qty \in [Items -> 0 .. MaxQty] : CreateListing(o, l, type, qty)
      \/ \E s \in Slots : ClaimWrite(s)
      \/ \E o \in Orgs, c \in Claims : CancelLocked(o, c)
  BY WeightsStep, ClaimsAddedByClaimWrite, ClaimsCancelledByCancelClaim
<1>6. Goal
  BY <1>1, <1>2, <1>3, <1>4, <1>5
<1> QED
  BY <1>6, <1>d

(***************************************************************************)
(* Every kilogram of an item is on offer or in exactly one claim unless a  *)
(* step brings a cancelled claim back: in either schema, and whatever the  *)
(* requests in progress, nothing else loses or doubles any food.           *)
(***************************************************************************)
THEOREM StockConservedUnlessRevived ==
    ClaimsSpec /\ [][NoRevival]_claimsVars => []StockConserved
<1>1. TypeInv /\ StockConserved /\ [ClaimsNext]_claimsVars /\ [NoRevival]_claimsVars
        => StockConserved'
  <2>1. UNCHANGED claimsVars => NoRevival
    BY DEF claimsVars, storeVars, NoRevival
  <2> QED
    BY <2>1, StockConservedNext
<1> QED
  BY <1>1, ClaimsTypeInv, StockConservedInit, PTL DEF ClaimsSpec

(***************************************************************************)
(* What claimListing takes and cancelClaim gives back adds up to what was  *)
(* listed, for the schema of the repository and any requests in progress;  *)
(* with the column listing_id a confirmClaim in progress can bring back a  *)
(* claim whose food was given away.                                        *)
(***************************************************************************)
THEOREM StockConservedHolds ==
    ASSUME "listing_id" \notin ClaimColumns
    PROVE  ClaimsSpec => []StockConserved
BY NoneRevived, StockConservedUnlessRevived, PTL

-----------------------------------------------------------------------------
(* Claims of one line *)

(* Sums of kilograms that nobody owes, *)
LEMMA KgNat ==
    ASSUME NEW f \in [Items -> Int], \A i \in Items : f[i] >= 0
    PROVE  Kg(f) >= 0 /\ \A i \in Items : Kg(f) >= f[i]
<1>1. IsFiniteSet(Items) /\ \A i \in Items : f[i] \in Nat
  BY ItemsAssumption
<1>2. Kg(f) = Sum(f, Items)
  BY <1>1, KgIsSum
<1>3. Sum(f, Items) \in Nat
  BY <1>1, SumNat
<1>4. ASSUME NEW i \in Items PROVE Kg(f) >= f[i]
  <2>1. Sum(f, Items) = f[i] + Sum(f, Items \ {i})
    BY <1>1, SumRemove
  <2>2. IsFiniteSet(Items \ {i})
    BY <1>1, FS_Subset
  <2>3. Sum(f, Items \ {i}) \in Nat
    BY <1>1, <2>2, SumNat
  <2> QED
    BY <1>1, <1>2, <2>1, <2>3
<1> QED
  BY <1>2, <1>3, <1>4

(* and of more kilograms than others. *)
LEMMA KgMonotonic ==
    ASSUME NEW f \in [Items -> Int], NEW g \in [Items -> Int], \A i \in Items : f[i] <= g[i]
    PROVE  Kg(f) <= Kg(g)
<1> DEFINE d == [i \in Items |-> g[i] - f[i]]
<1>1. d \in [Items -> Int] /\ \A i \in Items : d[i] >= 0 /\ g[i] = f[i] + d[i]
  OBVIOUS
<1> HIDE DEF d
<1>2. Kg(g) = Kg(f) + Kg(d) /\ Kg(d) >= 0
  BY <1>1, KgAdds, KgNat
<1> QED
  BY <1>2, KgType

(* What a partial claim of one line asks for. *)
LEMMA OneLine ==
    ASSUME MaxLines <= 1, NEW lines \in Lines
    PROVE  /\ DOMAIN lines = {1}
           /\ lines[1][1] \in Items
           /\ lines[1][2] \in 1 .. MaxQty
           /\ \A i \in Items : LinesQty(lines)[i] = IF i = lines[1][1] THEN lines[1][2] ELSE 0
<1>1. PICK n \in 1 .. MaxLines : lines \in [1 .. n -> Items \X (1 .. MaxQty)]
  BY DEF Lines
<1>2. n = 1
  BY <1>1, ClaimsAssumption
<1>3. DOMAIN lines = {1} /\ lines[1] \in Items \X (1 .. MaxQty)
  BY <1>1, <1>2
<1>4. lines[1][1] \in Items /\ lines[1][2] \in 1 .. MaxQty
  BY <1>3
<1>5. ASSUME NEW i \in Items
      PROVE  LinesQty(lines)[i] = IF i = lines[1][1] THEN lines[1][2] ELSE 0
  <2> DEFINE S == {m \in DOMAIN lines : lines[m][1] = i}
             f == [m \in S |-> lines[m][2]]
  <2>1. LinesQty(lines)[i] = Kg(f)
    BY DEF LinesQty
  <2>2. S \subseteq {1}
    BY <1>3
  <2>3. DOMAIN f = S /\ \A m \in S : f[m] = lines[1][2]
    BY <2>2
  <2>a. IsFiniteSet(S) /\ \A m \in S : f[m] \in Int
    <3>1. IsFiniteSet(S)
      BY <2>2, FS_Singleton, FS_Subset
    <3>2. lines[1][2] \in Int
      BY <1>4
    <3> QED
      BY <2>3, <3>1, <3>2, Zenon
  <2>4. 1 \in S <=> i = lines[1][1]
    BY <1>3
  <2> HIDE DEF S, f
  <2>5. Kg(f) = Sum(f, S)
    BY <2>3, <2>a, KgIsSum
  <2>6. CASE i # lines[1][1]
    <3>1. S = {}
      BY <2>2, <2>4, <2>6
    <3> QED
      BY <2>1, <2>5, <2>6, <3>1, SumEmpty
  <2>7. CASE i = lines[1][1]
    <3>1. 1 \in S /\ S \ {1} = {}
      BY <2>2, <2>4, <2>7
    <3>2. Sum(f, S) = f[1] + Sum(f, S \ {1})
      BY <2>a, <3>1, SumRemove
    <3>3. Sum(f, S \ {1}) = 0
      BY <3>1, SumEmpty
    <3> QED
      BY <1>4, <2>1, <2>3, <2>5, <2>7, <3>1, <3>2, <3>3
  <2> QED
    BY <2>6, <2>7
<1> QED
  BY <1>3, <1>4, <1>5

\* A claim takes something, and gives nothing.
Takes(qty) == (\A i \in Items : qty[i] >= 0) /\ \E i \in Items : qty[i] > 0

\* Claims take something, a request that holds the row lock no more than there is.
TakesInv ==
    /\ \A c \in Claims : claim[c].status # "NONE" => Takes(claim[c].qty)
    /\ \A s \in Slots :
          req[s].op = "claim"
            => /\ Takes(req[s].qty)
               /\ \A i \in Items : req[s].qty[i] <= stock[req[s].listing][i].remaining

(* The checks of claimListing compare what a claim of one line asks for with what is left. *)
LEMMA AskedFits ==
    ASSUME MaxLines <= 1, TypeInv, NoOverdraw, NEW l \in Listings, NEW qty, AskedFor(l, qty)
    PROVE  Takes(qty) /\ \A i \in Items : qty[i] <= stock[l][i].remaining
<1>a. \A i \in Items : stock[l][i].remaining \in Int /\ stock[l][i].remaining >= 0
  BY DEF TypeInv, ClaimsTypeOK, StoreTypeOK, ItemRow, NoOverdraw
<1>1. CASE qty = FullQty(l) /\ \E i \in Items : stock[l][i].remaining > 0
  <2>1. \A i \in Items : qty[i] = stock[l][i].remaining
    BY <1>1, <1>a DEF FullQty
  <2> QED
    BY <1>1, <1>a, <2>1 DEF Takes
<1>2. ASSUME NEW lines \in Lines, LinesAllowed(l, lines), qty = LinesQty(lines)
      PROVE  Takes(qty) /\ \A i \in Items : qty[i] <= stock[l][i].remaining
  <2> DEFINE k == lines[1][1]
             w == lines[1][2]
  <2>1. /\ DOMAIN lines = {1} /\ k \in Items /\ w \in 1 .. MaxQty
        /\ \A i \in Items : qty[i] = IF i = k THEN w ELSE 0
    BY <1>2, OneLine
  <2>2. w <= stock[l][k].remaining
    BY <1>2, <2>1 DEF LinesAllowed
  <2> HIDE DEF k, w
  <2>3. Takes(qty)
    BY <2>1, ClaimsAssumption DEF Takes
  <2> QED
    BY <1>a, <2>1, <2>2, <2>3
<1> QED
  BY <1>1, <1>2 DEF AskedFor

LEMMA NoOverdrawNext ==
    ASSUME TypeInv, NoOverdraw, TakesInv, [ClaimsNext]_claimsVars
    PROVE  NoOverdraw'
<1> SUFFICES ASSUME NEW k \in Listings, NEW i \in Items PROVE stock'[k][i].remaining >= 0
  BY DEF NoOverdraw
<1>a. /\ stock \in [Listings -> [Items -> ItemRow]]
      /\ claim \in [Claims -> ClaimRow]
      /\ req \in [Slots -> Request]
  BY DEF TypeInv, ClaimsTypeOK, StoreTypeOK
<1>b. stock[k][i] \in ItemRow /\ stock[k][i].remaining \in Int /\ stock[k][i].remaining >= 0
  BY <1>a DEF ItemRow, NoOverdraw
<1>1. CASE SameWeights
  BY <1>1, <1>b DEF SameWeights
<1>2. ASSUME NEW o, NEW l, NEW type, NEW qty \in [Items -> 0 .. MaxQty],
             CreateListing(o, l, type, qty)
      PROVE  stock'[k][i].remaining >= 0
  <2>1. CASE k # l
    BY <1>2, <1>a, <1>b, <2>1 DEF CreateListing
  <2>2. CASE k = l
    <3>1. stock'[k][i] = [total |-> qty[i], remaining |-> qty[i]]
      BY <1>2, <1>a, <2>2 DEF CreateListing
    <3> QED
      BY <3>1, ClaimsAssumption
  <2> QED
    BY <2>1, <2>2
<1>3. ASSUME NEW s \in Slots, ClaimWrite(s)
      PROVE  stock'[k][i].remaining >= 0
  <2> DEFINE l == req[s].listing
  <2>1. req[s].op = "claim" /\ l \in Listings /\ req[s].qty \in [Items -> Int]
    BY <1>3, <1>a, RequestShape DEF ClaimWrite, ClaimReq
  <2>2. CASE k # l
    BY <1>3, <1>a, <1>b, <2>2 DEF ClaimWrite, TakeStock
  <2>3. CASE k = l
    <3>1. stock'[k][i] = [stock[k][i] EXCEPT !.remaining = @ - req[s].qty[i]]
      BY <1>3, <1>a, <2>3 DEF ClaimWrite, TakeStock
    <3>2. stock'[k][i].remaining = stock[k][i].remaining - req[s].qty[i]
      BY <1>b, <3>1 DEF ItemRow
    <3>3. req[s].qty[i] <= stock[k][i].remaining /\ req[s].qty[i] \in Int
      BY <2>1, <2>3 DEF TakesInv
    <3> QED
      BY <1>b, <3>2, <3>3
  <2> QED
    BY <2>2, <2>3
<1>4. ASSUME NEW o, NEW c \in Claims, CancelLocked(o, c)
      PROVE  stock'[k][i].remaining >= 0
  <2> DEFINE l == claim[c].listing
  <2>1. claim[c].status # "NONE" /\ claim[c].qty \in [Items -> Int]
    BY <1>4, <1>a DEF CancelLocked, Cancellable, ClaimRow
  <2>2. stock' = [stock EXCEPT ![l] =
            [j \in Items |-> [stock[l][j] EXCEPT !.remaining = @ + claim[c].qty[j]]]]
    BY <1>4 DEF CancelLocked, ReturnStock
  <2>3. CASE k # l
    BY <1>a, <1>b, <2>2, <2>3
  <2>4. CASE k = l
    <3>1. stock'[k][i] = [stock[k][i] EXCEPT !.remaining = @ + claim[c].qty[i]]
      BY <1>a, <2>2, <2>4
    <3>2. stock'[k][i].remaining = stock[k][i].remaining + claim[c].qty[i]
      BY <1>b, <3>1 DEF ItemRow
    <3>3. claim[c].qty[i] \in Int /\ claim[c].qty[i] >= 0
      BY <2>1 DEF TakesInv, Takes
    <3> QED
      BY <1>b, <3>2, <3>3
  <2> QED
    BY <2>3, <2>4
<1> QED
  BY <1>1, <1>2, <1>3, <1>4, WeightsStep

LEMMA TakesInvNext ==
    ASSUME MaxLines <= 1, TypeInv, LockInv, NoOverdraw, TakesInv, [ClaimsNext]_claimsVars
    PROVE  TakesInv'
<1>a. req \in [Slots -> Request]
  BY DEF TypeInv, ClaimsTypeOK
<1>1. ASSUME NEW c \in Claims, claim'[c].status # "NONE"
      PROVE  Takes(claim'[c].qty)
  <2>1. CASE SameClaims
    BY <1>1, <2>1 DEF SameClaims, TakesInv
  <2>2. ASSUME NEW s \in Slots, ClaimWrite(s)
        PROVE  Takes(claim'[c].qty)
    <3>1. \/ claim[c].status # "NONE" /\ claim'[c].qty = claim[c].qty
          \/ claim'[c].qty = req[s].qty
      BY <1>1, <2>2, ClaimWriteEffect
    <3>2. Takes(req[s].qty)
      BY <2>2 DEF ClaimWrite, TakesInv
    <3>3. claim[c].status # "NONE" => Takes(claim[c].qty)
      BY DEF TakesInv
    <3> QED
      BY <3>1, <3>2, <3>3, Zenon
  <2> QED
    BY <2>1, <2>2, ClaimsAddedByClaimWrite
<1>2. ASSUME NEW t \in Slots, req'[t].op = "claim"
      PROVE  /\ Takes(req'[t].qty)
             /\ \A i \in Items : req'[t].qty[i] <= stock'[req'[t].listing][i].remaining
  <2>1. CASE req'[t] = req[t]
    BY <1>2, <2>1, LockedRow DEF TakesInv
  <2>2. ASSUME NEW l \in Listings, UNCHANGED stock, req'[t].listing = l, AskedFor(l, req'[t].qty)
        PROVE  /\ Takes(req'[t].qty)
               /\ \A i \in Items : req'[t].qty[i] <= stock'[req'[t].listing][i].remaining
    BY <2>2, AskedFits
  <2> QED
    BY <1>2, <2>1, <2>2, ClaimRequestStep
<1> QED
  BY <1>1, <1>2 DEF TakesInv, Takes

LEMMA NoOverdrawInit == ClaimsInit => NoOverdraw /\ TakesInv
BY DEF ClaimsInit, StoreInit, TablesInit, NoOverdraw, TakesInv, NoClaim, Idle

LEMMA OneLineInv ==
    ASSUME MaxLines <= 1
    PROVE  ClaimsSpec => [](TypeInv /\ LockInv /\ NoOverdraw /\ TakesInv)
<1> DEFINE Inv == TypeInv /\ LockInv /\ NoOverdraw /\ TakesInv
<1>1. ClaimsInit => Inv
  BY TypeInvInit, LockInvInit, NoOverdrawInit
<1>2. Inv /\ [ClaimsNext]_claimsVars => Inv'
  BY TypeInvNext, LockInvNext, NoOverdrawNext, TakesInvNext
<1> QED
  BY <1>1, <1>2, PTL DEF ClaimsSpec

(***************************************************************************)
(* What a listing has of an item never goes below zero while a partial     *)
(* claim has one line: any requests in progress, either schema, and even   *)
(* when a cancelled claim is brought back.  claimListing compares each     *)
(* line with what remains on its own, so with a second line for the item   *)
(* the statement is false.                                                 *)
(***************************************************************************)
THEOREM NoOverdrawByOneLine ==
    ASSUME MaxLines <= 1
    PROVE  ClaimsSpec => []NoOverdraw
<1>1. TypeInv /\ LockInv /\ NoOverdraw /\ TakesInv => NoOverdraw
  OBVIOUS
<1> QED
  BY <1>1, OneLineInv, PTL

\* The total weight stored on a listing is the sum of those of its items.
TotalsInv ==
    \A l \in Listings : listing[l].total = Kg([i \in Items |-> stock[l][i].total])

LEMMA TotalsInvInit == ClaimsInit => TotalsInv
<1> SUFFICES ASSUME ClaimsInit, NEW l \in Listings
             PROVE  listing[l].total = Kg([i \in Items |-> stock[l][i].total])
  BY DEF TotalsInv
<1>1. [i \in Items |-> stock[l][i].total] = [i \in Items |-> stock[l][i].remaining]
        /\ listing[l].total = listing[l].remaining
  BY DEF ClaimsInit, StoreInit, TablesInit, NoListing
<1>2. listing[l].remaining = Kg([i \in Items |-> stock[l][i].remaining])
  BY ListingTotalsAgreeInit DEF ListingTotalsAgree
<1> QED
  BY <1>1, <1>2, Zenon

LEMMA TotalsInvNext ==
    ASSUME TypeInv, TotalsInv, [ClaimsNext]_claimsVars
    PROVE  TotalsInv'
<1> SUFFICES ASSUME NEW k \in Listings
             PROVE  listing'[k].total = Kg([i \in Items |-> stock'[k][i].total])
  BY DEF TotalsInv
<1>a. /\ listing \in [Listings -> ListingRow]
      /\ claim \in [Claims -> ClaimRow]
      /\ stock \in [Listings -> [Items -> ItemRow]]
      /\ req \in [Slots -> Request]
  BY DEF TypeInv, ClaimsTypeOK, StoreTypeOK
<1>b. \A i \in Items : stock[k][i] \in ItemRow
  BY <1>a
<1>c. ASSUME listing'[k].total = listing[k].total,
             \A i \in Items : stock'[k][i].total = stock[k][i].total
      PROVE  listing'[k].total = Kg([i \in Items |-> stock'[k][i].total])
  <2>1. [i \in Items |-> stock'[k][i].total] = [i \in Items |-> stock[k][i].total]
    BY <1>c
  <2>2. listing[k].total = Kg([i \in Items |-> stock[k][i].total])
    BY DEF TotalsInv
  <2> QED
    BY <1>c, <2>1, <2>2, Zenon
<1>1. CASE SameWeights
  BY <1>1, <1>c DEF SameWeights
<1>2. ASSUME NEW o, NEW l, NEW type, NEW qty \in [Items -> 0 .. MaxQty],
             CreateListing(o, l, type, qty)
      PROVE  listing'[k].total = Kg([i \in Items |-> stock'[k][i].total])
  <2>1. CASE k # l
    BY <1>2, <1>a, <1>c, <2>1 DEF CreateListing
  <2>2. CASE k = l
    <3>1. stock'[k] = [i \in Items |-> [total |-> qty[i], remaining |-> qty[i]]]
      BY <1>2, <1>a, <2>2 DEF CreateListing
    <3>2. [i \in Items |-> stock'[k][i].total] = qty
      BY <3>1
    <3>3. listing'[k].total = Kg(qty)
      BY <1>2, <1>a, <2>2 DEF CreateListing, NoListing
    <3> QED
      BY <3>2, <3>3
  <2> QED
    BY <2>1, <2>2
<1>3. ASSUME NEW s \in Slots, ClaimWrite(s)
      PROVE  listing'[k].total = Kg([i \in Items |-> stock'[k][i].total])
  <2>1. listing'[k].total = listing[k].total
    BY <1>3, <1>a DEF ClaimWrite, ListingRow
  <2>2. ASSUME NEW i \in Items PROVE stock'[k][i].total = stock[k][i].total
    <3>1. \/ stock'[k] = stock[k]
          \/ stock'[k][i] = [stock[k][i] EXCEPT !.remaining = @ - req[s].qty[i]]
      BY <1>3, <1>a DEF ClaimWrite, TakeStock
    <3> QED
      BY <1>b, <3>1 DEF ItemRow
  <2> QED
    BY <1>c, <2>1, <2>2
<1>4. ASSUME NEW o, NEW c \in Claims, CancelLocked(o, c)
      PROVE  listing'[k].total = Kg([i \in Items |-> stock'[k][i].total])
  <2> DEFINE l == claim[c].listing
             left == listing[l].remaining + Kg(claim[c].qty)
             back == StatusAfterCancel(l, left)
  <2>1. listing' = [listing EXCEPT ![l].remaining = left, ![l].status = back]
    BY <1>4 DEF CancelLocked
  <2>2. listing'[k].total = listing[k].total
    <3> HIDE DEF left, back
    <3> QED
      BY <1>a, <2>1 DEF ListingRow
  <2>3. ASSUME NEW i \in Items PROVE stock'[k][i].total = stock[k][i].total
    <3>1. \/ stock'[k] = stock[k]
          \/ stock'[k][i] = [stock[k][i] EXCEPT !.remaining = @ + claim[c].qty[i]]
      BY <1>4, <1>a DEF CancelLocked, ReturnStock
    <3> QED
      BY <1>b, <3>1 DEF ItemRow
  <2> QED
    BY <1>c, <2>2, <2>3
<1> QED
  BY <1>1, <1>2, <1>3, <1>4, WeightsStep

(* No more of an item remains than was listed. *)
LEMMA RemainsWithinTotal ==
    ASSUME TypeInv, TypeInv', TakesInv', StockConserved',
           NEW l \in Listings, NEW i \in Items
    PROVE  stock'[l][i].remaining <= stock'[l][i].total
<1>a. /\ claim \in [Claims -> ClaimRow] /\ claim' \in [Claims -> ClaimRow]
      /\ stock \in [Listings -> [Items -> ItemRow]]
      /\ stock' \in [Listings -> [Items -> ItemRow]]
  BY DEF TypeInv, ClaimsTypeOK, StoreTypeOK
<1>b. stock'[l][i].remaining \in Int /\ stock'[l][i].total \in Int
  BY <1>a DEF ItemRow
<1>1. stock'[l][i].remaining + Sum(KgByClaim(i)', Holding(l)') = stock'[l][i].total
  BY <1>a, HoldingStep DEF StockConserved, Holding
<1>2. \A c \in Holding(l)' : KgByClaim(i)'[c] \in Nat
  <2> SUFFICES ASSUME NEW c \in Claims, LiveClaim(c)' PROVE claim'[c].qty[i] \in Nat
    BY DEF Holding, KgByClaim
  <2>1. claim'[c].qty[i] \in Int
    BY <1>a DEF ClaimRow
  <2>2. claim'[c].qty[i] >= 0
    BY DEF LiveClaim, ClaimStatus, TakesInv, Takes
  <2> QED
    BY <2>1, <2>2
<1>3. IsFiniteSet(Holding(l)')
  BY <1>a, HoldingStep
<1>4. Sum(KgByClaim(i)', Holding(l)') \in Nat
  BY <1>2, <1>3, SumNat
<1> QED
  BY <1>b, <1>1, <1>4

(* What a cancelled claim gives back is no more than was taken, and not nothing. *)
LEMMA CancelKeepsStatus ==
    ASSUME TypeInv, TypeInv', StatusMatchesStock, ListingTotalsAgree, ListingTotalsAgree',
           TotalsInv', NoOverdraw, TakesInv, TakesInv', StockConserved',
           NEW o, NEW c \in Claims, CancelLocked(o, c)
    PROVE  StatusMatchesStock'
<1> DEFINE l == claim[c].listing
           left == listing[l].remaining + Kg(claim[c].qty)
           back == StatusAfterCancel(l, left)
<1>a. /\ listing \in [Listings -> ListingRow]
      /\ claim \in [Claims -> ClaimRow]
      /\ stock \in [Listings -> [Items -> ItemRow]]
      /\ stock' \in [Listings -> [Items -> ItemRow]]
  BY SMTT(60) DEF TypeInv, ClaimsTypeOK, StoreTypeOK
<1>b. /\ claim[c].status # "NONE"
      /\ l \in Listings
      /\ claim[c].qty \in [Items -> Int]
      /\ Takes(claim[c].qty)
  BY <1>a DEF CancelLocked, Cancellable, TypeInv, ClaimLinks, ClaimRow, TakesInv
<1>c. listing[l].remaining \in Int /\ listing[l].total \in Int /\ left \in Int
  BY <1>a, <1>b, KgType DEF ListingRow
<1>1. listing' = [listing EXCEPT ![l].remaining = left, ![l].status = back]
  BY DEF CancelLocked
<1>2. /\ \A k \in Listings : k # l => listing'[k] = listing[k]
      /\ listing'[l].remaining = left
      /\ listing'[l].status = back
      /\ listing'[l].total = listing[l].total
  <2> HIDE DEF left, back, l
  <2> QED
    BY <1>a, <1>b, <1>1 DEF ListingRow
<1>3. left <= listing[l].total
  <2> DEFINE f == [i \in Items |-> stock'[l][i].remaining]
             g == [i \in Items |-> stock'[l][i].total]
  <2>1. f \in [Items -> Int] /\ g \in [Items -> Int]
    BY <1>a, <1>b DEF ItemRow
  <2>2. \A i \in Items : f[i] <= g[i]
    BY <1>b, RemainsWithinTotal
  <2>3. Kg(f) <= Kg(g)
    <3> HIDE DEF f, g
    <3> QED
      BY <2>1, <2>2, KgMonotonic
  <2>4. left = Kg(f) /\ listing[l].total = Kg(g)
    BY <1>b, <1>2 DEF ListingTotalsAgree, TotalsInv
  <2> QED
    BY <2>3, <2>4
<1>4. left > 0
  <2> DEFINE f == [i \in Items |-> stock[l][i].remaining]
             qty == claim[c].qty
  <2>1. f \in [Items -> Int] /\ \A i \in Items : f[i] >= 0
    BY <1>a, <1>b DEF ItemRow, NoOverdraw
  <2>2. listing[l].remaining = Kg(f)
    BY <1>b DEF ListingTotalsAgree
  <2> HIDE DEF f
  <2>3. listing[l].remaining >= 0
    BY <2>1, <2>2, KgNat
  <2>4. PICK i \in Items : qty[i] > 0
    BY <1>b DEF Takes
  <2>5. Kg(qty) >= qty[i] /\ qty[i] \in Int /\ Kg(qty) \in Int
    BY <1>b, KgNat, KgType DEF Takes
  <2> QED
    BY <1>c, <2>3, <2>4, <2>5
<1>5. /\ back = "ACTIVE" => left = listing[l].total
      /\ back # "CLAIMED"
  <2>1. \/ back \in {"CANCELLED", "EXPIRED"}
        \/ back = "ACTIVE" /\ left >= listing[l].total
        \/ back = "PARTIAL"
    BY DEF StatusAfterCancel
  <2> QED
    BY <1>c, <1>3, <2>1
<1> HIDE DEF left, back
<1> QED
  BY <1>2, <1>4, <1>5 DEF StatusMatchesStock

(***************************************************************************)
(* With claims of one line, the status of a listing is right in either     *)
(* schema unless a step brings a cancelled claim back: cancelClaim makes   *)
(* it ACTIVE exactly when everything is there again, since no claim took   *)
(* more than there was.                                                    *)
(***************************************************************************)
THEOREM StatusMatchesStockUnlessRevived ==
    ASSUME MaxLines <= 1
    PROVE  ClaimsSpec /\ [][NoRevival]_claimsVars => []StatusMatchesStock
<1> DEFINE One == TypeInv /\ LockInv /\ NoOverdraw /\ TakesInv
           Inv == ListingTotalsAgree /\ TotalsInv /\ StatusMatchesStock
<1>1. ClaimsInit => Inv
  BY ListingTotalsAgreeInit, TotalsInvInit, StatusMatchesStockInit
<1>2. /\ One /\ One' /\ ListingTotalsAgree /\ ListingTotalsAgree' /\ StockConserved'
      /\ Inv /\ [ClaimsNext]_claimsVars
      => Inv'
  <2> SUFFICES ASSUME One, One', ListingTotalsAgree', StockConserved', Inv,
                      [ClaimsNext]_claimsVars
               PROVE  TotalsInv' /\ StatusMatchesStock'
    OBVIOUS
  <2>1. TotalsInv'
    BY TotalsInvNext
  <2> QED
    BY <2>1, StatusMatchesStockNext, CancelKeepsStatus
<1>3. Inv => StatusMatchesStock
  OBVIOUS
<1>4. ClaimsSpec => []One
  BY OneLineInv
<1> HIDE DEF One
<1> QED
  BY <1>1, <1>2, <1>3, <1>4, ListingTotalsAgreeHolds, StockConservedUnlessRevived, PTL
     DEF ClaimsSpec
=============================================================================
