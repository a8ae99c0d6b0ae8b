------------------------- MODULE Collections_proofs -------------------------
(***************************************************************************)
(* Proofs about Collections: claims and driver pickups running against the *)
(* same tables, for any number of organisations, listings, claims, pickups *)
(* and handlers.                                                           *)
(***************************************************************************)
EXTENDS Collections, ListingClaims_proofs, FiniteSetTheorems

\* A pickup is of a claim that exists,
PickupLinks ==
    \A p \in Pickups :
        pickup[p].status # "NONE"
          => /\ pickup[p].claim \in Claims
             /\ claim[pickup[p].claim].status # "NONE"
             /\ pickup[p].listing \in Listings

\* and a driver's request of a claim or a pickup that exists.
DriverLinks ==
    \A s \in Requests :
        /\ dreq[s].op \in {"create", "heal"} => claim[dreq[s].claim].status # "NONE"
        /\ dreq[s].op \in {"set", "complete"} => pickup[dreq[s].pickup].status # "NONE"

DriverInv == TypeInv /\ DriverTypeOK /\ PickupLinks /\ DriverLinks

-----------------------------------------------------------------------------
(* What a driver's request in progress holds, by its kind. *)
LEMMA DriverRequestShape ==
    ASSUME NEW r \in DriverRequest
    PROVE  /\ r.op = "create" => r \in CreateReq
           /\ r.op = "set" => r \in SetReq
           /\ r.op = "complete" => r \in CompleteReq
           /\ r.op \in {"heal", "healDay"} => r \in HealReq
BY DEF DriverRequest, NoDriverReq, CreateReq, SetReq, CompleteReq, HealReq

(* The rows a driver's request names, by its kind. *)
LEMMA DriverRequestRows ==
    ASSUME DriverInv, NEW s \in Requests
    PROVE  /\ dreq[s].op \in {"create", "heal"}
                => dreq[s].claim \in Claims /\ claim[dreq[s].claim].status # "NONE"
           /\ dreq[s].op \in {"set", "complete"}
                => dreq[s].pickup \in Pickups /\ pickup[dreq[s].pickup].status # "NONE"
<1>1. dreq[s] \in DriverRequest
  BY DEF DriverInv, DriverTypeOK
<1> QED
  BY <1>1, DriverRequestShape DEF DriverInv, DriverLinks, CreateReq, HealReq, SetReq, CompleteReq

LEMMA Tables ==
    ASSUME DriverInv
    PROVE  /\ listing \in [Listings -> ListingRow]
           /\ claim \in [Claims -> ClaimRow]
           /\ pickup \in [Pickups -> PickupRow]
           /\ day \in [Days -> DayRow]
           /\ ratingCount \in [Orgs -> Int]
           /\ dreq \in [Requests -> DriverRequest]
           /\ StoreTypeOK
BY DEF DriverInv, TypeInv, ClaimsTypeOK, StoreTypeOK, DriverTypeOK

(* A pickup names a claim, and the claim a listing. *)
LEMMA PickupRows ==
    ASSUME DriverInv, NEW p \in Pickups, pickup[p].status # "NONE"
    PROVE  /\ pickup[p].claim \in Claims
           /\ claim[pickup[p].claim].status \in ClaimStatus
           /\ claim[pickup[p].claim].listing \in Listings
           /\ listing[claim[pickup[p].claim].listing].status \in ListingStatus
           /\ pickup[p].listing \in Listings
<1>1. pickup[p].claim \in Claims /\ claim[pickup[p].claim].status # "NONE"
        /\ pickup[p].listing \in Listings
  BY DEF DriverInv, PickupLinks
<1>2. /\ claim[pickup[p].claim].listing \in Listings
      /\ listing[claim[pickup[p].claim].listing].status # "NONE"
  BY <1>1 DEF DriverInv, TypeInv, ClaimLinks
<1> QED
  BY <1>1, <1>2, Tables DEF ClaimRow, ListingRow

-----------------------------------------------------------------------------
(* Steps of the driver's handlers *)

LEMMA BeginDriverInv ==
    ASSUME DriverInv, UNCHANGED req, NEW s \in Requests, NEW r \in DriverRequest, Begin(s, r),
           r.op \in {"create", "heal"} => claim[r.claim].status # "NONE",
           r.op \in {"set", "complete"} => pickup[r.pickup].status # "NONE"
    PROVE  DriverInv'
<1>1. TypeInv'
  BY UnchangedTypeInv DEF Begin, DriverInv, claimsVars
<1>2. DriverTypeOK'
  BY DEF Begin, DriverInv, DriverTypeOK
<1>3. PickupLinks'
  BY DEF Begin, DriverInv, PickupLinks, storeVars
<1>4. DriverLinks'
  BY DEF Begin, DriverInv, DriverTypeOK, DriverLinks, storeVars
<1> QED
  BY <1>1, <1>2, <1>3, <1>4 DEF DriverInv

(* No reference is lost while rows stay, whatever else is written to them. *)
LEMMA LinksStay ==
    ASSUME DriverInv,
           \A c \in Claims : claim[c].status # "NONE" => claim'[c].status # "NONE",
           \A p \in Pickups :
              /\ pickup'[p].status = "NONE" <=> pickup[p].status = "NONE"
              /\ pickup'[p].claim = pickup[p].claim
              /\ pickup'[p].listing = pickup[p].listing,
           \A s \in Requests :
              dreq'[s].op \in {"create", "set", "complete", "heal"} => dreq'[s] = dreq[s]
    PROVE  PickupLinks' /\ DriverLinks'
<1>1. PickupLinks'
  BY DEF DriverInv, PickupLinks
<1>2. DriverLinks'
  BY DriverRequestRows DEF DriverLinks
<1> QED
  BY <1>1, <1>2

(* The types of the tables after a write of a driver's handler. *)
LEMMA DriverWriteTypeInv ==
    ASSUME DriverInv, UNCHANGED <<req, listing, stock, lock>>,
           claim' \in [Claims -> ClaimRow],
           \A c \in Claims :
              /\ claim'[c].status = "NONE" <=> claim[c].status = "NONE"
              /\ claim'[c].listing = claim[c].listing,
           pickup' \in [Pickups -> PickupRow],
           day' \in [Days -> DayRow],
           ratingCount' \in [Orgs -> Int]
    PROVE  TypeInv'
<1>1. ClaimsTypeOK'
  BY DEF DriverInv, TypeInv, ClaimsTypeOK, StoreTypeOK
<1>2. ClaimLinks'
  BY DEF DriverInv, TypeInv, ClaimLinks
<1>3. RequestLinks'
  BY EndRequestLinks DEF DriverInv
<1> QED
  BY <1>1, <1>2, <1>3 DEF TypeInv

LEMMA EndDriverTypeOK ==
    ASSUME DriverInv, NEW s \in Requests, End(s)
    PROVE  /\ DriverTypeOK'
           /\ \A t \in Requests : t # s => dreq'[t] = dreq[t]
           /\ dreq'[s] = NoDriverReq
BY DEF DriverInv, DriverTypeOK, End, DriverRequest

LEMMA EndedRequests ==
    ASSUME DriverInv, NEW s \in Requests, End(s)
    PROVE  \A t \in Requests :
              dreq'[t].op \in {"create", "set", "complete", "heal"} => dreq'[t] = dreq[t]
BY EndDriverTypeOK DEF NoDriverReq

(* What the insert of acceptPickup and assignDriverToPickup writes. *)
LEMMA CreateWriteEffect ==
    ASSUME DriverInv, NEW s \in Requests, CreateWrite(s)
    PROVE  \E p \in Pickups :
              /\ pickup[p].status = "NONE"
              /\ \A q \in Pickups : q # p => pickup'[q] = pickup[q]
              /\ pickup'[p].status = dreq[s].status
              /\ pickup'[p].claim = dreq[s].claim
              /\ pickup'[p].listing = dreq[s].listing
              /\ pickup' \in [Pickups -> PickupRow]
<1> DEFINE row == [NoPickup EXCEPT !.status = dreq[s].status, !.claim = dreq[s].claim,
                                   !.listing = dreq[s].listing, !.driver = dreq[s].driver]
<1>1. PICK p \in Pickups : NextPickup(p) /\ pickup' = [pickup EXCEPT ![p] = row]
  BY DEF CreateWrite
<1>2. dreq[s] \in CreateReq
  BY Tables, DriverRequestShape DEF CreateWrite
<1>3. /\ row \in PickupRow
      /\ row.status = dreq[s].status
      /\ row.claim = dreq[s].claim
      /\ row.listing = dreq[s].listing
  BY <1>2 DEF CreateReq, PickupRow, DriverPickupStatus, NoPickup
<1>4. pickup' \in [Pickups -> PickupRow]
  BY <1>1, <1>3, Tables
<1> HIDE DEF row
<1>5. pickup'[p] = row /\ \A q \in Pickups : q # p => pickup'[q] = pickup[q]
  BY <1>1, Tables
<1> QED
  BY <1>1, <1>3, <1>4, <1>5 DEF NextPickup

LEMMA CreateWriteInv ==
    ASSUME DriverInv, UNCHANGED req, NEW s \in Requests, CreateWrite(s)
    PROVE  DriverInv'
<1> DEFINE c == dreq[s].claim
<1>1. dreq[s] \in CreateReq /\ c \in Claims /\ claim[c].status # "NONE"
  BY Tables, DriverRequestShape, DriverRequestRows DEF CreateWrite
<1>2. PICK p \in Pickups :
              /\ pickup[p].status = "NONE"
              /\ \A q \in Pickups : q # p => pickup'[q] = pickup[q]
              /\ pickup'[p].status = dreq[s].status
              /\ pickup'[p].claim = dreq[s].claim
              /\ pickup'[p].listing = dreq[s].listing
              /\ pickup' \in [Pickups -> PickupRow]
  BY CreateWriteEffect
<1>3. UNCHANGED <<req, listing, stock, lock, claim, day, ratingCount>> /\ End(s)
  BY DEF CreateWrite
<1>4. TypeInv'
  BY <1>2, <1>3, Tables, DriverWriteTypeInv
<1>5. DriverTypeOK'
  BY <1>3, EndDriverTypeOK
<1>6. PickupLinks'
  <2> SUFFICES ASSUME NEW q \in Pickups, pickup'[q].status # "NONE"
               PROVE  /\ pickup'[q].claim \in Claims
                      /\ claim'[pickup'[q].claim].status # "NONE"
                      /\ pickup'[q].listing \in Listings
    BY DEF PickupLinks
  <2>1. CASE q = p
    BY <1>1, <1>2, <1>3, <2>1 DEF CreateReq
  <2>2. CASE q # p
    BY <1>2, <1>3, <2>2 DEF DriverInv, PickupLinks
  <2> QED
    BY <2>1, <2>2
<1>7. DriverLinks'
  <2>1. \A t \in Requests :
            dreq'[t].op \in {"create", "set", "complete", "heal"} => dreq'[t] = dreq[t]
    BY <1>3, EndedRequests
  <2>2. \A q \in Pickups : pickup[q].status # "NONE" => pickup'[q].status # "NONE"
    BY <1>2
  <2> QED
    BY <1>3, <2>1, <2>2, DriverRequestRows DEF DriverLinks
<1> QED
  BY <1>4, <1>5, <1>6, <1>7 DEF DriverInv

(* What an update of a pickup's status leaves as it was. *)
LEMMA SetWriteEffect ==
    ASSUME DriverInv, NEW s \in Requests, SetWrite(s)
    PROVE  /\ dreq[s].pickup \in Pickups
           /\ pickup[dreq[s].pickup].status # "NONE"
           /\ dreq[s].status \in DriverPickupStatus
           /\ pickup' \in [Pickups -> PickupRow]
           /\ \A q \in Pickups : q # dreq[s].pickup => pickup'[q] = pickup[q]
           /\ pickup'[dreq[s].pickup].status = dreq[s].status
           /\ \A q \in Pickups :
                 pickup'[q].claim = pickup[q].claim /\ pickup'[q].listing = pickup[q].listing
<1> DEFINE p == dreq[s].pickup
<1>1. dreq[s] \in SetReq
  BY Tables, DriverRequestShape DEF SetWrite
<1>2. p \in Pickups /\ pickup[p].status # "NONE" /\ dreq[s].status \in DriverPickupStatus
  BY <1>1, DriverRequestRows DEF SetReq, SetWrite
<1>3. pickup[p] \in PickupRow
  BY <1>2, Tables
<1>4. [pickup[p] EXCEPT !.status = dreq[s].status] \in PickupRow
  BY <1>2, <1>3 DEF PickupRow
<1>5. pickup' = [pickup EXCEPT ![p] = [pickup[p] EXCEPT !.status = dreq[s].status]]
  BY DEF SetWrite
<1>6. pickup' \in [Pickups -> PickupRow]
  BY <1>4, <1>5, Tables
<1>7. \A q \in Pickups : q # p => pickup'[q] = pickup[q]
  BY <1>5, Tables
<1>8. /\ pickup'[p].status = dreq[s].status
      /\ pickup'[p].claim = pickup[p].claim
      /\ pickup'[p].listing = pickup[p].listing
  BY <1>2, <1>3, <1>5, Tables DEF PickupRow
<1> QED
  BY <1>2, <1>6, <1>7, <1>8

LEMMA SetWriteInv ==
    ASSUME DriverInv, UNCHANGED req, NEW s \in Requests, SetWrite(s)
    PROVE  DriverInv'
<1>1. UNCHANGED <<req, listing, stock, lock, claim, day, ratingCount>> /\ End(s)
  BY DEF SetWrite
<1>2. TypeInv'
  BY <1>1, Tables, SetWriteEffect, DriverWriteTypeInv
<1>3. \A q \in Pickups : pickup'[q].status = "NONE" <=> pickup[q].status = "NONE"
  BY SetWriteEffect DEF DriverPickupStatus
<1>4. PickupLinks' /\ DriverLinks'
  BY <1>1, <1>3, SetWriteEffect, EndedRequests, LinksStay, SMTT(60)
<1> QED
  BY <1>1, <1>2, <1>4, EndDriverTypeOK DEF DriverInv

(* What the transaction of completePickup writes. *)
LEMMA CompleteWriteEffect ==
    ASSUME DriverInv, NEW s \in Requests, CompleteWrite(s)
    PROVE  LET p == dreq[s].pickup
               c == pickup[p].claim
           IN  /\ p \in Pickups
               /\ pickup[p].status # "NONE"
               /\ c \in Claims
               /\ claim[c].status # "NONE"
               /\ pickup' \in [Pickups -> PickupRow]
               /\ \A q \in Pickups : q # p => pickup'[q] = pickup[q]
               /\ pickup'[p].status = "COLLECTED"
               /\ \A q \in Pickups :
                     /\ pickup'[q].claim = pickup[q].claim
                     /\ pickup'[q].listing = pickup[q].listing
               /\ claim' \in [Claims -> ClaimRow]
               /\ \A d \in Claims : d # c => claim'[d] = claim[d]
               /\ \A d \in Claims : claim'[d].listing = claim[d].listing
               /\ IF SettlesClaim(dreq[s].claimStatus)
                  THEN claim'[c].status = "COLLECTED"
                  ELSE claim' = claim
               /\ ratingCount' \in [Orgs -> Int]
               /\ day' \in [Days -> DayRow]
<1> DEFINE p == dreq[s].pickup
           c == pickup[p].claim
<1>1. dreq[s] \in CompleteReq
  BY Tables, DriverRequestShape, ZenonT(60) DEF CompleteWrite
<1>2. p \in Pickups /\ pickup[p].status # "NONE"
  BY DriverRequestRows DEF CompleteWrite
<1>3. c \in Claims /\ claim[c].status # "NONE"
  BY <1>2, PickupRows DEF ClaimStatus
<1>4. pickup[p] \in PickupRow /\ claim[c] \in ClaimRow
  BY <1>2, <1>3, Tables, SMTT(60)
<1>5. pickup' = [pickup EXCEPT ![p] = [pickup[p] EXCEPT !.status = "COLLECTED", !.done = TRUE]]
  BY DEF CompleteWrite
<1>6. [pickup[p] EXCEPT !.status = "COLLECTED", !.done = TRUE] \in PickupRow
  BY <1>4 DEF PickupRow, DriverPickupStatus
<1>7. /\ pickup' \in [Pickups -> PickupRow]
      /\ \A q \in Pickups : q # p => pickup'[q] = pickup[q]
  BY <1>5, <1>6, Tables
<1>8. /\ pickup'[p].status = "COLLECTED"
      /\ pickup'[p].claim = pickup[p].claim
      /\ pickup'[p].listing = pickup[p].listing
  BY <1>2, <1>4, <1>5, Tables DEF PickupRow
<1>9. /\ claim' \in [Claims -> ClaimRow]
      /\ \A d \in Claims : d # c => claim'[d] = claim[d]
      /\ claim'[c].listing = claim[c].listing
      /\ IF SettlesClaim(dreq[s].claimStatus)
         THEN claim'[c].status = "COLLECTED"
         ELSE claim' = claim
  <2> DEFINE row == [claim[c] EXCEPT !.status = "COLLECTED", !.rated = @ \/ dreq[s].rate]
  <2>1. CASE SettlesClaim(dreq[s].claimStatus)
    <3>1. claim' = [claim EXCEPT ![c] = row]
      BY <2>1 DEF CompleteWrite
    <3>2. row \in ClaimRow /\ row.status = "COLLECTED" /\ row.listing = claim[c].listing
      BY <1>4 DEF ClaimRow, ClaimStatus
    <3>3. claim' \in [Claims -> ClaimRow] /\ claim'[c] = row
            /\ \A d \in Claims : d # c => claim'[d] = claim[d]
      BY <1>3, <3>1, <3>2, Tables
    <3> QED
      BY <2>1, <3>2, <3>3, SMTT(60)
  <2>2. CASE ~SettlesClaim(dreq[s].claimStatus)
    <3>1. claim' = claim
      BY <2>2 DEF CompleteWrite
    <3> QED
      BY <2>2, <3>1, Tables, SMTT(60)
  <2> QED
    BY <2>1, <2>2, SMTT(60)
<1>10. ratingCount' \in [Orgs -> Int]
  <2> DEFINE o == listing[claim[c].listing].org
  <2>1. ratingCount' \in {ratingCount, [ratingCount EXCEPT ![o] = @ + 1]}
    BY DEF CompleteWrite
  <2> HIDE DEF o
  <2>2. [ratingCount EXCEPT ![o] = @ + 1] \in [Orgs -> Int]
    BY RatingCountType DEF DriverInv
  <2> QED
    BY <2>1, <2>2, Tables, SMTT(60)
<1>11. day' \in [Days -> DayRow]
  <2> DEFINE settled == CollectDay(pickup[p].listing, dreq[s].listingStatus)
  <2>1. day' \in {day, settled}
    BY DEF CompleteWrite
  <2>2. settled \in [Days -> DayRow]
    BY CollectDayType, Tables
  <2> QED
    BY <2>1, <2>2, Tables, SMTT(60)
<1>12. \A q \in Pickups :
          pickup'[q].claim = pickup[q].claim /\ pickup'[q].listing = pickup[q].listing
  BY <1>7, <1>8
<1>13. \A d \in Claims : claim'[d].listing = claim[d].listing
  BY <1>9
<1> QED
  BY <1>2, <1>3, <1>7, <1>8, <1>9, <1>10, <1>11, <1>12, <1>13, SMTT(60)

LEMMA CompleteWriteInv ==
    ASSUME DriverInv, UNCHANGED req, NEW s \in Requests, CompleteWrite(s)
    PROVE  DriverInv'
<1>1. UNCHANGED <<req, listing, stock, lock>> /\ End(s)
  BY DEF CompleteWrite
<1>2. \A d \in Claims :
        /\ claim'[d].status = "NONE" <=> claim[d].status = "NONE"
        /\ claim'[d].listing = claim[d].listing
  BY CompleteWriteEffect
<1>3. TypeInv'
  BY <1>1, <1>2, CompleteWriteEffect, DriverWriteTypeInv
<1>4. \A q \in Pickups :
        /\ pickup'[q].status = "NONE" <=> pickup[q].status = "NONE"
        /\ pickup'[q].claim = pickup[q].claim
        /\ pickup'[q].listing = pickup[q].listing
  BY CompleteWriteEffect
<1>5. PickupLinks' /\ DriverLinks'
  BY <1>1, <1>2, <1>4, EndedRequests, LinksStay
<1> QED
  BY <1>1, <1>3, <1>5, EndDriverTypeOK, SMTT(60) DEF DriverInv

(* What the first statement of a repair writes. *)
LEMMA HealClaimEffect ==
    ASSUME DriverInv, NEW s \in Requests, HealClaim(s)
    PROVE  /\ dreq[s].claim \in Claims
           /\ claim[dreq[s].claim].status # "NONE"
           /\ claim' \in [Claims -> ClaimRow]
           /\ \A d \in Claims : d # dreq[s].claim => claim'[d] = claim[d]
           /\ claim'[dreq[s].claim].status = "COLLECTED"
           /\ \A d \in Claims : claim'[d].listing = claim[d].listing
<1> DEFINE c == dreq[s].claim
           row == [claim[c] EXCEPT !.status = "COLLECTED"]
<1>1. c \in Claims /\ claim[c].status # "NONE"
  BY DriverRequestRows DEF HealClaim
<1>2. claim[c] \in ClaimRow
  BY <1>1, Tables
<1>3. row \in ClaimRow /\ row.status = "COLLECTED" /\ row.listing = claim[c].listing
  BY <1>2 DEF ClaimRow, ClaimStatus
<1>4. claim' = [claim EXCEPT ![c] = row]
  BY DEF HealClaim
<1> HIDE DEF row
<1>5. /\ claim' \in [Claims -> ClaimRow]
      /\ claim'[c] = row
      /\ \A d \in Claims : d # c => claim'[d] = claim[d]
  BY <1>1, <1>3, <1>4, Tables
<1> QED
  BY <1>1, <1>3, <1>5

LEMMA HealClaimInv ==
    ASSUME DriverInv, UNCHANGED req, NEW s \in Requests, HealClaim(s)
    PROVE  DriverInv'
<1>1. UNCHANGED <<req, listing, stock, pickup, day, ratingCount, lock>>
  BY DEF HealClaim
<1>2. dreq' = [dreq EXCEPT ![s] = [dreq[s] EXCEPT !.op = "healDay"]]
  BY DEF HealClaim
<1>3. dreq[s] \in HealReq
  BY Tables, DriverRequestShape DEF HealClaim
<1>4. [dreq[s] EXCEPT !.op = "healDay"] \in HealReq
        /\ [dreq[s] EXCEPT !.op = "healDay"].op = "healDay"
  BY <1>3 DEF HealReq
<1>5. DriverTypeOK'
  BY <1>2, <1>4, Tables DEF DriverTypeOK, DriverRequest
<1>6. \A t \in Requests :
        dreq'[t].op \in {"create", "set", "complete", "heal"} => dreq'[t] = dreq[t]
  BY <1>2, <1>4, Tables
<1>7. TypeInv'
  BY <1>1, Tables, HealClaimEffect, DriverWriteTypeInv
<1>8. PickupLinks' /\ DriverLinks'
  BY <1>1, <1>6, HealClaimEffect, LinksStay
<1> QED
  BY <1>5, <1>7, <1>8 DEF DriverInv

(* The end of a request that touches no claim and no pickup. *)
LEMMA EndInv ==
    ASSUME DriverInv, UNCHANGED req, NEW s \in Requests, HealDay(s) \/ DriverCrash(s)
    PROVE  DriverInv'
<1>1. UNCHANGED <<req, listing, stock, pickup, claim, ratingCount, lock>> /\ End(s)
  BY DEF HealDay, DriverCrash, storeVars
<1>2. day' \in [Days -> DayRow]
  <2>1. CASE HealDay(s)
    BY <2>1, CollectDayType, Tables DEF HealDay
  <2>2. CASE DriverCrash(s)
    BY <2>2, Tables DEF DriverCrash, storeVars
  <2> QED
    BY <2>1, <2>2
<1>3. TypeInv'
  BY <1>1, <1>2, Tables, DriverWriteTypeInv
<1>4. PickupLinks' /\ DriverLinks'
  BY <1>1, EndedRequests, LinksStay
<1> QED
  BY <1>1, <1>3, <1>4, EndDriverTypeOK DEF DriverInv

LEMMA CreateReadInv ==
    ASSUME DriverInv, UNCHANGED req, NEW s \in Requests, NEW d \in Drivers, NEW c \in Claims,
           \/ \E l \in Listings : AcceptRead(s, d, c, l)
           \/ \E o \in Orgs : AssignRead(s, o, d, c)
    PROVE  DriverInv'
<1>1. claim[c].status # "NONE"
  BY DEF AcceptRead, AssignRead
<1>2. claim[c].listing \in Listings
  BY <1>1 DEF DriverInv, TypeInv, ClaimLinks
<1>3. PICK l \in Listings, status \in {"ACCEPTED", "ASSIGNED"} :
        Begin(s, [op |-> "create", claim |-> c, listing |-> l, driver |-> d,
                  status |-> status])
  BY <1>2 DEF AcceptRead, AssignRead
<1>4. [op |-> "create", claim |-> c, listing |-> l, driver |-> d, status |-> status]
        \in DriverRequest
  BY DEF CreateReq, DriverRequest
<1> QED
  BY <1>1, <1>3, <1>4, BeginDriverInv

LEMMA SetReadInv ==
    ASSUME DriverInv, UNCHANGED req, NEW s \in Requests, NEW p \in Pickups,
           \/ \E accept \in BOOLEAN : RespondRead(s, p, accept)
           \/ \E status \in DriverPickupStatus : TripRead(s, p, status)
    PROVE  DriverInv'
<1>1. pickup[p].status # "NONE"
  BY DEF RespondRead, TripRead
<1>2. PICK status \in DriverPickupStatus :
        Begin(s, [op |-> "set", pickup |-> p, status |-> status])
  BY DEF RespondRead, TripRead, DriverPickupStatus
<1>3. [op |-> "set", pickup |-> p, status |-> status] \in DriverRequest
  BY DEF SetReq, DriverRequest
<1> QED
  BY <1>1, <1>2, <1>3, BeginDriverInv

LEMMA CompleteReadInv ==
    ASSUME DriverInv, UNCHANGED req, NEW s \in Requests, NEW p \in Pickups, NEW rate \in BOOLEAN,
           CompleteRead(s, p, rate)
    PROVE  DriverInv'
<1> DEFINE c == pickup[p].claim
           r == [op |-> "complete", pickup |-> p, claimStatus |-> claim[c].status,
                 listingStatus |-> listing[claim[c].listing].status, rate |-> rate]
<1>1. pickup[p].status # "NONE"
  BY DEF CompleteRead
<1>2. r \in DriverRequest
  BY <1>1, PickupRows DEF CompleteReq, DriverRequest
<1>3. Begin(s, r)
  BY DEF CompleteRead
<1> QED
  BY <1>1, <1>2, <1>3, BeginDriverInv

LEMMA HealReadInv ==
    ASSUME DriverInv, UNCHANGED req, NEW s \in Requests,
           \/ \E p \in Pickups : CompleteAgain(s, p)
           \/ \E c \in Claims : MyClaimsRead(s, c) \/ OrgListingsRead(s, c)
    PROVE  DriverInv'
<1>1. PICK c \in Claims, l \in Listings : OpenClaim(c) /\ Begin(s, HealRequest(c, l))
  <2>1. ASSUME NEW p \in Pickups, CompleteAgain(s, p)
        PROVE  \E c \in Claims, l \in Listings : OpenClaim(c) /\ Begin(s, HealRequest(c, l))
    BY <2>1, PickupRows DEF CompleteAgain
  <2>2. ASSUME NEW c \in Claims, MyClaimsRead(s, c) \/ OrgListingsRead(s, c)
        PROVE  OpenClaim(c) /\ Begin(s, HealRequest(c, claim[c].listing))
                 /\ claim[c].listing \in Listings
    BY <2>2 DEF MyClaimsRead, OrgListingsRead, OpenClaim, DriverInv, TypeInv, ClaimLinks
  <2> QED
    BY <2>1, <2>2
<1>2. claim[c].status # "NONE"
  BY <1>1 DEF OpenClaim
<1>3. listing[claim[c].listing].status \in ListingStatus
  BY <1>2, Tables DEF DriverInv, TypeInv, ClaimLinks, ListingRow
<1>4. HealRequest(c, l) \in DriverRequest /\ HealRequest(c, l).op = "heal"
        /\ HealRequest(c, l).claim = c
  BY <1>3 DEF HealRequest, HealReq, DriverRequest
<1> QED
  BY <1>1, <1>2, <1>4, BeginDriverInv

(* The kinds of steps a driver's handler takes. *)
LEMMA DriverSteps ==
    ASSUME DriverNext
    PROVE  \E s \in Requests :
              \/ \E d \in Drivers, c \in Claims :
                    \/ \E l \in Listings : AcceptRead(s, d, c, l)
                    \/ \E o \in Orgs : AssignRead(s, o, d, c)
              \/ \E p \in Pickups :
                    \/ \E accept \in BOOLEAN : RespondRead(s, p, accept)
                    \/ \E status \in DriverPickupStatus : TripRead(s, p, status)
              \/ \E p \in Pickups, rate \in BOOLEAN : CompleteRead(s, p, rate)
              \/ \/ \E p \in Pickups : CompleteAgain(s, p)
                 \/ \E c \in Claims : MyClaimsRead(s, c) \/ OrgListingsRead(s, c)
              \/ CreateWrite(s)
              \/ SetWrite(s)
              \/ CompleteWrite(s)
              \/ HealClaim(s)
              \/ HealDay(s) \/ DriverCrash(s)
BY Zenon DEF DriverNext, DriverFinish

LEMMA DriverStepInv == ASSUME DriverInv, DriverNext, UNCHANGED req PROVE DriverInv'
BY DriverSteps, CreateReadInv, SetReadInv, CompleteReadInv, HealReadInv, CreateWriteInv,
   SetWriteInv, CompleteWriteInv, HealClaimInv, EndInv

-----------------------------------------------------------------------------
(* Steps of the claims' handlers *)

(* They write no pickup, *)
LEMMA ClaimsKeepPickups == ASSUME ClaimsNext PROVE UNCHANGED pickup
<1>1. ASSUME NEW s, NEW o, NEW l, NEW u, NEW c, NEW qty, NEW type, NEW rate,
             \/ CreateListing(o, l, type, qty) \/ DeadlinePasses(l)
             \/ ClaimRead(s, u, l, qty)
             \/ CancelListingRead(s, o, l) \/ ConfirmRead(s, o, c) \/ CancelClaim(s, o, c)
             \/ RateRead(s, o, c) \/ CollectRead(s, o, c, rate) \/ FeedbackRead(s, o, c, rate)
             \/ ExpireRead(s, l)
             \/ Terminate(s) \/ Crash(s)
      PROVE  UNCHANGED pickup
  BY <1>1 DEF CreateListing, DeadlinePasses, ClaimRead, CancelListingRead, ConfirmRead,
     CancelClaim, CancelLocked, RateRead, CollectRead, FeedbackRead, ExpireRead, Terminate,
     ClaimWrite, ConfirmWrite, CollectWrite, RateWrite, FeedbackWrite, CancelListingWrite,
     ExpireWrite, Crash, storeVars
<1> QED
  BY <1>1, SMTT(60) DEF ClaimsNext, ClaimFull, ClaimPartial

(* and remove no claim. *)
LEMMA ClaimsStay ==
    ASSUME TypeInv, ClaimsNext
    PROVE  \A c \in Claims : claim[c].status # "NONE" => claim'[c].status # "NONE"
<1>1. CASE SameClaims
  BY <1>1 DEF SameClaims
<1>2. ASSUME NEW s \in Slots, ClaimWrite(s)
      PROVE  \A c \in Claims : claim[c].status # "NONE" => claim'[c].status # "NONE"
  BY <1>2, ClaimWriteEffect
<1> QED
  BY <1>1, <1>2, ClaimsAddedByClaimWrite

LEMMA ClaimsStepInv == ASSUME DriverInv, ClaimsNext, UNCHANGED dreq PROVE DriverInv'
<1>1. TypeInv'
  BY TypeInvNext DEF DriverInv
<1>2. PickupLinks' /\ DriverLinks'
  BY ClaimsKeepPickups, ClaimsStay, LinksStay DEF DriverInv
<1> QED
  BY <1>1, <1>2 DEF DriverInv, DriverTypeOK

LEMMA DriverInvInit == Init => DriverInv
<1> SUFFICES ASSUME Init PROVE DriverInv
  OBVIOUS
<1>1. TypeInv
  BY TypeInvInit DEF Init
<1>2. DriverTypeOK /\ DriverLinks
  BY DEF Init, DriverInit, DriverTypeOK, DriverRequest, DriverLinks, NoDriverReq
<1>3. PickupLinks
  BY DEF Init, ClaimsInit, StoreInit, TablesInit, NoPickup, PickupLinks
<1> QED
  BY <1>1, <1>2, <1>3 DEF DriverInv

LEMMA UnchangedDriverInv == ASSUME DriverInv, UNCHANGED vars PROVE DriverInv'
BY UnchangedTypeInv DEF vars, claimsVars, storeVars, DriverInv, DriverTypeOK, PickupLinks,
   DriverLinks

LEMMA DriverInvNext == DriverInv /\ [Next]_vars => DriverInv'
BY UnchangedDriverInv, ClaimsStepInv, DriverStepInv DEF Next

LEMMA CollectionsDriverInv == Spec => []DriverInv
BY DriverInvInit, DriverInvNext, PTL DEF Spec

(***************************************************************************)
(* Every table keeps its type under the handlers of claims.service,        *)
(* food.listing.service and driver.location.service together, and every    *)
(* handler in progress still names rows that exist.                        *)
(***************************************************************************)
THEOREM CollectionsTypeCorrect == Spec => []TypeOK
<1>1. DriverInv => TypeOK
  BY DEF DriverInv, TypeInv, TypeOK
<1> QED
  BY <1>1, CollectionsDriverInv, PTL

-----------------------------------------------------------------------------
(* Consent *)

\* The driver has answered: the pickup never waits for an answer again.
Answered(p) == pickup[p].status \notin {"NONE", "ASSIGNED"}

(***************************************************************************)
(* What a handler is about to write is an answer, or was decided on after  *)
(* the answer, and nothing has undone the answer since.                    *)
(***************************************************************************)
ConsentInv ==
    \A s \in Requests :
        /\ dreq[s].op = "complete" => Answered(dreq[s].pickup)
        /\ dreq[s].op = "set" =>
              /\ dreq[s].status # "ASSIGNED"
              /\ dreq[s].status \in {"ACCEPTED", "CANCELLED"} \/ Answered(dreq[s].pickup)

(* No step takes an answer back. *)
LEMMA AnswersStay ==
    ASSUME DriverInv, ConsentInv, DriverNext
    PROVE  \A p \in Pickups : Answered(p) => Answered(p)'
<1>1. CASE UNCHANGED pickup
  BY <1>1 DEF Answered
<1>2. ASSUME NEW s \in Requests, CreateWrite(s)
      PROVE  \A p \in Pickups : Answered(p) => Answered(p)'
  BY <1>2, CreateWriteEffect DEF Answered
<1>3. ASSUME NEW s \in Requests, SetWrite(s)
      PROVE  \A p \in Pickups : Answered(p) => Answered(p)'
  <2>1. dreq[s].op = "set" /\ dreq[s].status # "ASSIGNED"
    BY <1>3 DEF SetWrite, ConsentInv
  <2>2. dreq[s].status # "NONE"
    BY <1>3, SetWriteEffect DEF DriverPickupStatus
  <2> QED
    BY <1>3, <2>1, <2>2, SetWriteEffect DEF Answered
<1>4. ASSUME NEW s \in Requests, CompleteWrite(s)
      PROVE  \A p \in Pickups : Answered(p) => Answered(p)'
  BY <1>4, CompleteWriteEffect DEF Answered
<1>5. ASSUME NEW s, NEW d, NEW c, NEW l, NEW o, NEW p, NEW accept, NEW status, NEW rate,
             \/ AcceptRead(s, d, c, l) \/ AssignRead(s, o, d, c) \/ RespondRead(s, p, accept)
             \/ TripRead(s, p, status) \/ CompleteRead(s, p, rate) \/ CompleteAgain(s, p)
             \/ MyClaimsRead(s, c) \/ OrgListingsRead(s, c)
             \/ HealClaim(s) \/ HealDay(s) \/ DriverCrash(s)
      PROVE  UNCHANGED pickup
  BY <1>5 DEF AcceptRead, AssignRead, RespondRead, TripRead, CompleteRead, CompleteAgain,
     MyClaimsRead, OrgListingsRead, HealClaim, HealDay, DriverCrash, Begin, storeVars
<1> QED
  BY <1>1, <1>2, <1>3, <1>4, <1>5, DriverSteps

(* A request that registers has seen the answer, or is the answer. *)
LEMMA RequestsConsent ==
    ASSUME DriverInv, DriverNext, NEW t \in Requests, dreq'[t] # dreq[t]
    PROVE  /\ dreq'[t].op = "complete" => Answered(dreq'[t].pickup)
           /\ dreq'[t].op = "set" =>
                 /\ dreq'[t].status # "ASSIGNED"
                 /\ dreq'[t].status \in {"ACCEPTED", "CANCELLED"} \/ Answered(dreq'[t].pickup)
<1> DEFINE Good(r) ==
              /\ r.op = "complete" => Answered(r.pickup)
              /\ r.op = "set" => /\ r.status # "ASSIGNED"
                                 /\ r.status \in {"ACCEPTED", "CANCELLED"} \/ Answered(r.pickup)
<1> SUFFICES Good(dreq'[t])
  OBVIOUS
<1>a. dreq \in [Requests -> DriverRequest]
  BY Tables
<1>1. ASSUME NEW s \in Requests, NEW r, Begin(s, r), Good(r) PROVE Good(dreq'[t])
  <2>1. s = t /\ dreq'[t] = r
    BY <1>1, <1>a DEF Begin
  <2> QED
    BY <1>1, <2>1
<1>2. ASSUME NEW s \in Requests, End(s) PROVE Good(dreq'[t])
  BY <1>2, <1>a DEF End, NoDriverReq
<1>3. ASSUME NEW s \in Requests, NEW d, NEW c, NEW l, NEW o,
             \/ AcceptRead(s, d, c, l) \/ AssignRead(s, o, d, c)
      PROVE  Good(dreq'[t])
  <2>1. PICK k, status : Begin(s, [op |-> "create", claim |-> c, listing |-> k,
                                   driver |-> d, status |-> status])
    BY <1>3 DEF AcceptRead, AssignRead
  <2> QED
    BY <1>1, <2>1
<1>4. ASSUME NEW s \in Requests, NEW p \in Pickups, NEW accept \in BOOLEAN,
             RespondRead(s, p, accept)
      PROVE  Good(dreq'[t])
  <2>1. PICK status \in {"ACCEPTED", "CANCELLED"} :
          Begin(s, [op |-> "set", pickup |-> p, status |-> status])
    BY <1>4 DEF RespondRead
  <2> QED
    BY <1>1, <2>1
<1>5. ASSUME NEW s \in Requests, NEW p \in Pickups, NEW status, TripRead(s, p, status)
      PROVE  Good(dreq'[t])
  <2>1. /\ Begin(s, [op |-> "set", pickup |-> p, status |-> status])
        /\ status # "ASSIGNED"
        /\ Answered(p)
    BY <1>5 DEF TripRead, Answered
  <2> QED
    BY <1>1, <2>1
<1>6. ASSUME NEW s \in Requests, NEW p \in Pickups, NEW rate, CompleteRead(s, p, rate)
      PROVE  Good(dreq'[t])
  <2>1. Answered(p)
    BY <1>6 DEF CompleteRead, Answered
  <2>2. PICK claimStatus, listingStatus :
          Begin(s, [op |-> "complete", pickup |-> p, claimStatus |-> claimStatus,
                    listingStatus |-> listingStatus, rate |-> rate])
    BY <1>6 DEF CompleteRead
  <2> QED
    BY <1>1, <2>1, <2>2
<1>7. ASSUME NEW s \in Requests, NEW p, NEW c,
             CompleteAgain(s, p) \/ MyClaimsRead(s, c) \/ OrgListingsRead(s, c)
      PROVE  Good(dreq'[t])
  <2>1. PICK d, l : Begin(s, HealRequest(d, l))
    BY <1>7 DEF CompleteAgain, MyClaimsRead, OrgListingsRead
  <2>2. Good(HealRequest(d, l))
    BY DEF HealRequest
  <2> QED
    BY <1>1, <2>1, <2>2
<1>8. ASSUME NEW s \in Requests, HealClaim(s) PROVE Good(dreq'[t])
  <2>1. dreq[s] \in HealReq /\ dreq' = [dreq EXCEPT ![s] = [dreq[s] EXCEPT !.op = "healDay"]]
    BY <1>8, Tables, DriverRequestShape DEF HealClaim
  <2>2. s = t /\ dreq'[t].op = "healDay"
    BY <1>a, <2>1, SMTT(60) DEF HealReq
  <2> QED
    BY <2>2
<1>9. ASSUME NEW s \in Requests,
             CreateWrite(s) \/ SetWrite(s) \/ CompleteWrite(s) \/ HealDay(s) \/ DriverCrash(s)
      PROVE  Good(dreq'[t])
  BY <1>2, <1>9 DEF CreateWrite, SetWrite, CompleteWrite, HealDay, DriverCrash
<1> HIDE DEF Good
<1> QED
  BY <1>3, <1>4, <1>5, <1>6, <1>7, <1>8, <1>9, DriverSteps

LEMMA ConsentInvNext == DriverInv /\ ConsentInv /\ [Next]_vars => ConsentInv'
<1> SUFFICES ASSUME DriverInv, ConsentInv, [Next]_vars PROVE ConsentInv'
  OBVIOUS
<1>1. CASE UNCHANGED <<dreq, pickup>>
  BY <1>1 DEF ConsentInv, Answered
<1>2. CASE DriverNext
  <2> SUFFICES ASSUME NEW t \in Requests
               PROVE  /\ dreq'[t].op = "complete" => Answered(dreq[t].pickup)'
                      /\ dreq'[t].op = "set" =>
                            /\ dreq'[t].status # "ASSIGNED"
                            /\ \/ dreq'[t].status \in {"ACCEPTED", "CANCELLED"}
                               \/ Answered(dreq[t].pickup)'
    BY DEF ConsentInv
  <2>1. /\ dreq'[t].op = "complete" => Answered(dreq'[t].pickup)
        /\ dreq'[t].op = "set" =>
              /\ dreq'[t].status # "ASSIGNED"
              /\ dreq'[t].status \in {"ACCEPTED", "CANCELLED"} \/ Answered(dreq'[t].pickup)
    BY <1>2, RequestsConsent DEF ConsentInv
  <2>2. dreq'[t].op \in {"set", "complete"} => dreq'[t].pickup \in Pickups
    <3>1. DriverInv'
      BY DriverInvNext
    <3>2. dreq'[t] \in DriverRequest
      BY <3>1 DEF DriverInv, DriverTypeOK
    <3> QED
      BY <3>2, DriverRequestShape DEF SetReq, CompleteReq
  <2>3. \A p \in Pickups : Answered(p) => Answered(p)'
    BY <1>2, AnswersStay
  <2> QED
    BY <2>1, <2>2, <2>3 DEF Answered
<1> QED
  BY <1>1, <1>2, ClaimsKeepPickups DEF Next, vars, storeVars

(***************************************************************************)
(* updatePickupStatus and completePickup never skip the driver's answer:   *)
(* a pickup leaves ASSIGNED only for ACCEPTED or CANCELLED, however many   *)
(* handlers of however many requests overtake one another.                 *)
(***************************************************************************)
THEOREM AssignmentIsAnswered == Spec => AssignmentNeedsConsent
<1> DEFINE Step == \A p \in Pickups :
                      pickup[p].status = "ASSIGNED"
                        => pickup'[p].status \in {"ASSIGNED", "ACCEPTED", "CANCELLED"}
<1>1. Init => ConsentInv
  BY DEF Init, DriverInit, NoDriverReq, ConsentInv
<1>2. DriverInv /\ ConsentInv /\ [Next]_vars => [Step]_vars
  <2> SUFFICES ASSUME DriverInv, ConsentInv, [Next]_vars PROVE Step
    OBVIOUS
  <2>1. CASE UNCHANGED pickup
    BY <2>1
  <2>2. ASSUME NEW s \in Requests, CreateWrite(s) PROVE Step
    BY <2>2, CreateWriteEffect
  <2>3. ASSUME NEW s \in Requests, SetWrite(s) PROVE Step
    <3>1. dreq[s].status \in {"ACCEPTED", "CANCELLED"} \/ Answered(dreq[s].pickup)
      BY <2>3 DEF SetWrite, ConsentInv
    <3> QED
      BY <2>3, <3>1, SetWriteEffect DEF Answered
  <2>4. ASSUME NEW s \in Requests, CompleteWrite(s) PROVE Step
    <3>1. Answered(dreq[s].pickup)
      BY <2>4 DEF CompleteWrite, ConsentInv
    <3> QED
      BY <2>4, <3>1, CompleteWriteEffect, SMTT(60) DEF Answered
  <2>5. ASSUME NEW s \in Requests, HealClaim(s) \/ HealDay(s) \/ DriverCrash(s) PROVE Step
    BY <2>1, <2>5 DEF HealClaim, HealDay, DriverCrash, storeVars
  <2>6. ASSUME NEW s \in Requests, NEW r, Begin(s, r) PROVE Step
    BY <2>1, <2>6 DEF Begin, storeVars
  <2>7. CASE DriverNext
    BY <2>2, <2>3, <2>4, <2>5, <2>6, <2>7, DriverSteps
       DEF AcceptRead, AssignRead, RespondRead, TripRead, CompleteRead, CompleteAgain,
           MyClaimsRead, OrgListingsRead
  <2> QED
    BY <2>1, <2>7, ClaimsKeepPickups DEF Next, vars, storeVars
<1> QED
  BY <1>1, <1>2, CollectionsDriverInv, ConsentInvNext, PTL DEF Spec, AssignmentNeedsConsent

-----------------------------------------------------------------------------
(* Handlers that overlap, but are not overtaken *)

\* What confirmClaim has read is still true,
Confirms(s) == req[s].op = "confirm" => claim[req[s].claim].status = "PENDING"

ConfirmHolds == \A s \in Slots : Confirms(s)

\* and so is what a driver's request has; there is never anything to repair.
Held(r) ==
    /\ r.op \notin {"heal", "healDay"}
    /\ r.op = "create" => ~HasCurrentPickup(r.claim)
    /\ r.op = "set" => /\ pickup[r.pickup].status \in CurrentStatuses
                       /\ r.status # "COLLECTED"
    /\ r.op = "complete" => /\ pickup[r.pickup].status = "ARRIVED"
                            /\ r.claimStatus = claim[pickup[r.pickup].claim].status

Holds(s) == Held(dreq[s])

DriversHold == \A s \in Requests : Holds(s)

(***************************************************************************)
(* Nobody overtakes: a step leaves true what every other handler, of the   *)
(* claims or of the drivers, has checked and not written yet.  Any number  *)
(* of them may be in progress.  The code does not promise it: section 6 of *)
(* the README has the two drivers, the late confirmation and the           *)
(* cancellation during a completion.                                       *)
(***************************************************************************)
NotOvertaken ==
    /\ \A s \in Slots : req'[s] = req[s] /\ Confirms(s) => Confirms(s)'
    /\ \A s \in Requests : dreq'[s] = dreq[s] /\ Holds(s) => Holds(s)'

TurnInv == OneDriverPerClaim /\ CompletionSettlesClaim /\ ConfirmHolds /\ DriversHold

(* The steps that change the status of a claim. *)
LEMMA ClaimMoves ==
    ASSUME TypeInv, ClaimsNext, claim' # claim
    PROVE  \A c \in Claims :
               \/ claim'[c].status = claim[c].status
               \/ claim[c].status = "NONE"
               \/ \E s \in Slots : req[s].op = "confirm" /\ req[s].claim = c
               \/ /\ claim[c].status \in {"PENDING", "CONFIRMED"}
                  /\ claim'[c].status \in {"COLLECTED", "CANCELLED"}
<1> DEFINE Moves ==
             \A c \in Claims :
                 \/ claim'[c].status = claim[c].status
                 \/ claim[c].status = "NONE"
                 \/ \E s \in Slots : req[s].op = "confirm" /\ req[s].claim = c
                 \/ /\ claim[c].status \in {"PENDING", "CONFIRMED"}
                    /\ claim'[c].status \in {"COLLECTED", "CANCELLED"}
<1>a. claim \in [Claims -> ClaimRow]
  BY DEF TypeInv, ClaimsTypeOK, StoreTypeOK
<1>1. ASSUME NEW s \in Slots, ClaimWrite(s) PROVE Moves
  BY <1>1, ClaimWriteEffect
<1>2. ASSUME NEW s \in Slots, ConfirmWrite(s) PROVE Moves
  BY <1>2, <1>a DEF ConfirmWrite
<1>3. ASSUME NEW s \in Slots, CollectWrite(s) PROVE Moves
  <2> DEFINE c == req[s].claim
             row == [claim[c] EXCEPT !.status = "COLLECTED", !.rated = @ \/ req[s].rate]
  <2>1. claim[c].status \in {"PENDING", "CONFIRMED"} /\ claim' = [claim EXCEPT ![c] = row]
    BY <1>3 DEF CollectWrite
  <2>2. req[s] \in CollectReq
    BY <1>3, RequestShape DEF CollectWrite, TypeInv, ClaimsTypeOK
  <2>3. c \in Claims
    BY <2>2 DEF CollectReq
  <2>4. row.status = "COLLECTED"
    BY <1>a, <2>3 DEF ClaimRow
  <2> HIDE DEF row
  <2>5. claim'[c].status = "COLLECTED" /\ \A d \in Claims : d # c => claim'[d] = claim[d]
    BY <1>a, <2>1, <2>3, <2>4
  <2> QED
    BY <2>1, <2>5, SMTT(60)
<1>4. ASSUME NEW s \in Slots, RateWrite(s) \/ FeedbackWrite(s) PROVE Moves
  <2>1. \/ claim' = [claim EXCEPT ![req[s].claim].rated = TRUE]
        \/ claim' = [claim EXCEPT ![req[s].claim].feedback = TRUE]
    BY <1>4 DEF RateWrite, FeedbackWrite
  <2> QED
    BY <1>a, <2>1, SMTT(60) DEF ClaimRow
<1>5. ASSUME NEW s, NEW o, NEW c \in Claims, CancelClaim(s, o, c)
      PROVE  Moves
  <2>1. /\ claim[c].status \in {"PENDING", "CONFIRMED"}
        /\ claim' = [claim EXCEPT ![c].status = "CANCELLED"]
    BY <1>5 DEF CancelClaim, CancelLocked, Cancellable, storeVars
  <2>2. claim'[c].status = "CANCELLED" /\ \A d \in Claims : d # c => claim'[d] = claim[d]
    BY <1>a, <2>1 DEF ClaimRow
  <2> QED
    BY <2>1, <2>2
<1>6. ASSUME NEW s, NEW o, NEW l, NEW u, NEW c, NEW qty, NEW type, NEW rate,
             \/ CreateListing(o, l, type, qty) \/ DeadlinePasses(l)
             \/ ClaimRead(s, u, l, qty)
             \/ CancelListingRead(s, o, l) \/ ConfirmRead(s, o, c)
             \/ RateRead(s, o, c) \/ CollectRead(s, o, c, rate) \/ FeedbackRead(s, o, c, rate)
             \/ ExpireRead(s, l) \/ CancelListingWrite(s) \/ ExpireWrite(s) \/ Crash(s)
      PROVE  UNCHANGED claim
  BY <1>6 DEF CreateListing, DeadlinePasses, ClaimRead, CancelListingRead, ConfirmRead,
     RateRead, CollectRead, FeedbackRead, ExpireRead, CancelListingWrite, ExpireWrite, Crash,
     storeVars
<1> HIDE DEF Moves
<1>7. Moves
  BY <1>1, <1>2, <1>3, <1>4, <1>5, <1>6 DEF ClaimsNext, ClaimFull, ClaimPartial, Terminate
<1> QED
  BY <1>7 DEF Moves

(* A new confirmation has just seen its claim pending. *)
LEMMA ConfirmsBegin ==
    ASSUME TypeInv, ClaimsNext, NEW t \in Slots, req'[t].op = "confirm", req'[t] # req[t]
    PROVE  claim[req'[t].claim].status = "PENDING" /\ UNCHANGED claim
<1>a. req \in [Slots -> Request]
  BY DEF TypeInv, ClaimsTypeOK
<1>1. ASSUME NEW s, NEW o, NEW l, NEW u, NEW c, NEW qty, NEW type, NEW rate,
             \/ CreateListing(o, l, type, qty) \/ DeadlinePasses(l) \/ CancelClaim(s, o, c)
             \/ ClaimRead(s, u, l, qty) \/ CancelListingRead(s, o, l)
             \/ RateRead(s, o, c) \/ CollectRead(s, o, c, rate) \/ FeedbackRead(s, o, c, rate)
             \/ ExpireRead(s, l)
      PROVE  FALSE
  BY <1>1, <1>a DEF CreateListing, DeadlinePasses, CancelClaim, ClaimRead, CancelListingRead,
     RateRead, CollectRead, FeedbackRead, ExpireRead, Start
<1>2. ASSUME NEW s, Terminate(s) \/ Crash(s) PROVE FALSE
  <2>1. Done(s)
    BY <1>2 DEF Terminate, ClaimWrite, ConfirmWrite, CollectWrite, RateWrite,
       FeedbackWrite, CancelListingWrite, ExpireWrite, Crash
  <2> QED
    BY <1>a, <2>1, SMTT(60) DEF Done, Idle
<1>3. ASSUME NEW s, NEW o, NEW c, ConfirmRead(s, o, c)
      PROVE  claim[req'[t].claim].status = "PENDING" /\ UNCHANGED claim
  BY <1>3, <1>a DEF ConfirmRead, Start, storeVars
<1> QED
  BY <1>1, <1>2, <1>3 DEF ClaimsNext, ClaimFull, ClaimPartial

LEMMA ClaimsInTurn ==
    ASSUME DriverInv, TurnInv, ClaimsNext, UNCHANGED dreq, NotOvertaken
    PROVE  TurnInv'
<1>a. TypeInv /\ UNCHANGED pickup
  BY ClaimsKeepPickups DEF DriverInv
<1>1. OneDriverPerClaim'
  BY <1>a DEF TurnInv, OneDriverPerClaim
<1>2. CompletionSettlesClaim'
  <2> SUFFICES ASSUME NEW c \in Claims, NEW p \in Pickups, OpenClaim(c)',
                      pickup[p].claim = c, pickup[p].status = "COLLECTED"
               PROVE  FALSE
    BY <1>a DEF CompletionSettlesClaim, DeliveredUnsettled
  <2>1. ~OpenClaim(c)
    BY DEF TurnInv, CompletionSettlesClaim, DeliveredUnsettled
  <2>2. claim[c].status # "NONE"
    BY DEF DriverInv, PickupLinks
  <2>3. \A s \in Slots : ~(req[s].op = "confirm" /\ req[s].claim = c)
    BY <2>1 DEF TurnInv, ConfirmHolds, Confirms, OpenClaim
  <2> QED
    BY <1>a, <2>1, <2>2, <2>3, ClaimMoves DEF OpenClaim
<1>3. ConfirmHolds'
  <2> SUFFICES ASSUME NEW t \in Slots PROVE Confirms(t)'
    BY DEF ConfirmHolds
  <2>1. CASE req'[t] # req[t]
    BY <1>a, <2>1, ConfirmsBegin DEF Confirms
  <2>2. CASE req'[t] = req[t]
    BY <2>2 DEF TurnInv, ConfirmHolds, NotOvertaken
  <2> QED
    BY <2>1, <2>2
<1>4. DriversHold'
  BY DEF TurnInv, DriversHold, NotOvertaken
<1> QED
  BY <1>1, <1>2, <1>3, <1>4 DEF TurnInv

(* A driver's request that the step begins has just seen what it relies on. *)
LEMMA RequestsHold ==
    ASSUME DriverInv, TurnInv, DriverNext, NEW t \in Requests,
           dreq'[t] # NoDriverReq, dreq'[t] # dreq[t]
    PROVE  Held(dreq'[t]) /\ UNCHANGED storeVars
<1>a. dreq \in [Requests -> DriverRequest]
  BY Tables
<1>1. ASSUME NEW s \in Requests, NEW r, Begin(s, r), Held(r)
      PROVE  Held(dreq'[t]) /\ UNCHANGED storeVars
  <2>1. dreq'[s] = r /\ UNCHANGED storeVars /\ dreq[s] = NoDriverReq
    BY <1>1, <1>a DEF Begin
  <2>2. CASE s = t
    BY <1>1, <2>1, <2>2
  <2>3. CASE s # t
    BY <1>1, <1>a, <2>3 DEF Begin
  <2> QED
    BY <2>2, <2>3
<1>2. ASSUME NEW s \in Requests, NEW d, NEW c \in Claims, NEW l, NEW o,
             \/ AcceptRead(s, d, c, l) \/ AssignRead(s, o, d, c)
      PROVE  Held(dreq'[t]) /\ UNCHANGED storeVars
  <2>1. ~HasCurrentPickup(c)
    BY <1>2 DEF AcceptRead, AssignRead
  <2>2. PICK k, status : Begin(s, [op |-> "create", claim |-> c, listing |-> k,
                                   driver |-> d, status |-> status])
    BY <1>2 DEF AcceptRead, AssignRead
  <2>3. Held([op |-> "create", claim |-> c, listing |-> k, driver |-> d, status |-> status])
    BY <2>1 DEF Held
  <2> QED
    BY <1>1, <2>2, <2>3
<1>3. ASSUME NEW s \in Requests, NEW p \in Pickups, NEW accept \in BOOLEAN, NEW x,
             RespondRead(s, p, accept) \/ TripRead(s, p, x)
      PROVE  Held(dreq'[t]) /\ UNCHANGED storeVars
  <2>1. pickup[p].status \in CurrentStatuses
    BY <1>3 DEF RespondRead, TripRead, CurrentStatuses
  <2>2. PICK status :
          /\ status # "COLLECTED"
          /\ Begin(s, [op |-> "set", pickup |-> p, status |-> status])
    BY <1>3 DEF RespondRead, TripRead
  <2>3. Held([op |-> "set", pickup |-> p, status |-> status])
    BY <2>1, <2>2 DEF Held
  <2> QED
    BY <1>1, <2>2, <2>3
<1>4. ASSUME NEW s \in Requests, NEW p \in Pickups, NEW rate, CompleteRead(s, p, rate)
      PROVE  Held(dreq'[t]) /\ UNCHANGED storeVars
  <2>1. pickup[p].status = "ARRIVED"
    BY <1>4 DEF CompleteRead
  <2>2. PICK listingStatus :
          Begin(s, [op |-> "complete", pickup |-> p,
                    claimStatus |-> claim[pickup[p].claim].status,
                    listingStatus |-> listingStatus, rate |-> rate])
    BY <1>4 DEF CompleteRead
  <2>3. Held([op |-> "complete", pickup |-> p,
              claimStatus |-> claim[pickup[p].claim].status,
              listingStatus |-> listingStatus, rate |-> rate])
    BY <2>1 DEF Held
  <2> QED
    BY <1>1, <2>2, <2>3
<1>5. ASSUME NEW s \in Requests, NEW p \in Pickups, CompleteAgain(s, p)
      PROVE  FALSE
  <2>1. pickup[p].claim \in Claims
    BY <1>5, PickupRows DEF CompleteAgain
  <2> QED
    BY <1>5, <2>1 DEF CompleteAgain, TurnInv, CompletionSettlesClaim, DeliveredUnsettled
<1>6. ASSUME NEW s \in Requests, NEW c \in Claims, MyClaimsRead(s, c) \/ OrgListingsRead(s, c)
      PROVE  FALSE
  BY <1>6 DEF MyClaimsRead, OrgListingsRead, MyClaimsSees, OrgListingsSees, TurnInv,
     CompletionSettlesClaim, DeliveredUnsettled
<1>7. ASSUME NEW s \in Requests, HealClaim(s) \/ HealDay(s)
      PROVE  FALSE
  BY <1>7 DEF HealClaim, HealDay, TurnInv, DriversHold, Holds, Held
<1>8. ASSUME NEW s \in Requests, End(s)
      PROVE  FALSE
  <2>1. CASE s = t
    BY <1>8, <1>a, <2>1 DEF End
  <2>2. CASE s # t
    BY <1>8, <1>a, <2>2, SMTT(60) DEF End
  <2> QED
    BY <2>1, <2>2
<1>9. ASSUME NEW s \in Requests,
             CreateWrite(s) \/ SetWrite(s) \/ CompleteWrite(s) \/ DriverCrash(s)
      PROVE  FALSE
  BY <1>8, <1>9 DEF CreateWrite, SetWrite, CompleteWrite, DriverCrash
<1> QED
  BY <1>2, <1>3, <1>4, <1>5, <1>6, <1>7, <1>9, DriverSteps

LEMMA DriversInTurn ==
    ASSUME DriverInv, DriverInv', TurnInv, DriverNext, UNCHANGED req, NotOvertaken
    PROVE  TurnInv'
<1>1. ConfirmHolds'
  BY DEF TurnInv, ConfirmHolds, NotOvertaken
<1>2. DriversHold'
  <2> SUFFICES ASSUME NEW t \in Requests PROVE Holds(t)'
    BY DEF DriversHold
  <2>1. CASE dreq'[t] = NoDriverReq
    BY <2>1 DEF Holds, Held, NoDriverReq
  <2>2. CASE dreq'[t] = dreq[t]
    BY <2>2 DEF TurnInv, DriversHold, NotOvertaken
  <2>3. CASE dreq'[t] # NoDriverReq /\ dreq'[t] # dreq[t]
    BY <2>3, RequestsHold DEF Holds, Held, HasCurrentPickup, storeVars
  <2> QED
    BY <2>1, <2>2, <2>3
<1>3. ASSUME NEW s \in Requests, CreateWrite(s)
      PROVE  OneDriverPerClaim' /\ CompletionSettlesClaim'
  <2>1. dreq[s] \in CreateReq /\ ~HasCurrentPickup(dreq[s].claim)
    BY <1>3, Tables, DriverRequestShape DEF CreateWrite, TurnInv, DriversHold, Holds, Held
  <2>2. PICK p \in Pickups :
              /\ pickup[p].status = "NONE"
              /\ \A q \in Pickups : q # p => pickup'[q] = pickup[q]
              /\ pickup'[p].status = dreq[s].status
              /\ pickup'[p].claim = dreq[s].claim
    BY <1>3, CreateWriteEffect
  <2>3. pickup'[p].status \in {"ACCEPTED", "ASSIGNED"}
    BY <2>1, <2>2 DEF CreateReq
  <2>4. \A q \in Pickups :
            q # p /\ pickup'[q].status \in CurrentStatuses => pickup'[q].claim # pickup'[p].claim
    BY <2>1, <2>2 DEF HasCurrentPickup
  <2>5. OneDriverPerClaim'
    BY <2>2, <2>4 DEF TurnInv, OneDriverPerClaim
  <2>6. CompletionSettlesClaim'
    BY <1>3, <2>2, <2>3
       DEF CreateWrite, TurnInv, CompletionSettlesClaim, DeliveredUnsettled, OpenClaim
  <2> QED
    BY <2>5, <2>6
<1>4. ASSUME NEW s \in Requests, SetWrite(s)
      PROVE  OneDriverPerClaim' /\ CompletionSettlesClaim'
  <2> DEFINE p == dreq[s].pickup
  <2>1. pickup[p].status \in CurrentStatuses /\ dreq[s].status # "COLLECTED"
    BY <1>4 DEF SetWrite, TurnInv, DriversHold, Holds, Held
  <2>2. \A q \in Pickups :
          /\ pickup'[q].claim = pickup[q].claim
          /\ pickup'[q].status \in CurrentStatuses => pickup[q].status \in CurrentStatuses
          /\ pickup'[q].status = "COLLECTED" => pickup[q].status = "COLLECTED"
    BY <1>4, <2>1, SetWriteEffect
  <2>3. OneDriverPerClaim'
    BY <2>2 DEF TurnInv, OneDriverPerClaim
  <2>4. CompletionSettlesClaim'
    BY <1>4, <2>2, SMTT(60) DEF SetWrite, TurnInv, CompletionSettlesClaim, DeliveredUnsettled, OpenClaim
  <2> QED
    BY <2>3, <2>4
<1>5. ASSUME NEW s \in Requests, CompleteWrite(s)
      PROVE  OneDriverPerClaim' /\ CompletionSettlesClaim'
  <2> DEFINE p == dreq[s].pickup
             c == pickup[p].claim
  <2>1. dreq[s].claimStatus = claim[c].status
    BY <1>5 DEF CompleteWrite, TurnInv, DriversHold, Holds, Held
  <2>2. \A q \in Pickups :
          /\ pickup'[q].claim = pickup[q].claim
          /\ pickup'[q].status \in CurrentStatuses => pickup[q].status \in CurrentStatuses
          /\ pickup'[q].status = "COLLECTED" => pickup[q].status = "COLLECTED" \/ q = p
    BY <1>5, CompleteWriteEffect DEF CurrentStatuses
  <2>3. \A d \in Claims : claim'[d].status \in {"PENDING", "CONFIRMED"}
          => d # c /\ claim[d].status \in {"PENDING", "CONFIRMED"}
    BY <1>5, <2>1, CompleteWriteEffect DEF SettlesClaim
  <2>4. OneDriverPerClaim'
    BY <2>2 DEF TurnInv, OneDriverPerClaim
  <2>5. CompletionSettlesClaim'
    BY <2>2, <2>3 DEF TurnInv, CompletionSettlesClaim, DeliveredUnsettled, OpenClaim
  <2> QED
    BY <2>4, <2>5
<1>6. ASSUME UNCHANGED storeVars
      PROVE  OneDriverPerClaim' /\ CompletionSettlesClaim'
  BY <1>6 DEF storeVars, TurnInv, OneDriverPerClaim, CompletionSettlesClaim,
     DeliveredUnsettled, OpenClaim
<1>7. ASSUME NEW s \in Requests, HealClaim(s) \/ HealDay(s)
      PROVE  FALSE
  BY <1>7 DEF HealClaim, HealDay, TurnInv, DriversHold, Holds, Held
<1>8. ASSUME NEW s, NEW d, NEW c, NEW l, NEW o, NEW p, NEW accept, NEW status, NEW rate,
             \/ AcceptRead(s, d, c, l) \/ AssignRead(s, o, d, c) \/ RespondRead(s, p, accept)
             \/ TripRead(s, p, status) \/ CompleteRead(s, p, rate) \/ CompleteAgain(s, p)
             \/ MyClaimsRead(s, c) \/ OrgListingsRead(s, c) \/ DriverCrash(s)
      PROVE  UNCHANGED storeVars
  BY <1>8 DEF AcceptRead, AssignRead, RespondRead, TripRead, CompleteRead, CompleteAgain,
     MyClaimsRead, OrgListingsRead, DriverCrash, Begin
<1>9. OneDriverPerClaim' /\ CompletionSettlesClaim'
  BY <1>3, <1>4, <1>5, <1>6, <1>7, <1>8, DriverSteps
<1> QED
  BY <1>1, <1>2, <1>9 DEF TurnInv

LEMMA TurnInvHolds == Spec /\ [][NotOvertaken]_vars => []TurnInv
<1>1. Init => TurnInv
  BY DEF Init, ClaimsInit, StoreInit, TablesInit, DriverInit, NoPickup, NoClaim, Idle,
     NoDriverReq, TurnInv, OneDriverPerClaim, CompletionSettlesClaim, DeliveredUnsettled,
     OpenClaim, ConfirmHolds, Confirms, DriversHold, Holds, Held, CurrentStatuses
<1>2. DriverInv /\ DriverInv' /\ TurnInv /\ [Next]_vars /\ [NotOvertaken]_vars => TurnInv'
  <2>1. UNCHANGED vars /\ TurnInv => TurnInv'
    BY DEF vars, storeVars, TurnInv, OneDriverPerClaim, CompletionSettlesClaim,
       DeliveredUnsettled, OpenClaim, ConfirmHolds, Confirms, DriversHold, Holds, Held,
       HasCurrentPickup
  <2> QED
    BY <2>1, ClaimsInTurn, DriversInTurn DEF Next
<1> QED
  BY <1>1, <1>2, CollectionsDriverInv, PTL DEF Spec

(***************************************************************************)
(* Unless a handler is overtaken, a claim has one driver at a time: an     *)
(* answer, a trip status, a completion, a crash and a repair leave room    *)
(* for no second, in any order and any number of them at once.             *)
(***************************************************************************)
THEOREM OneDriverUnlessOvertaken == Spec /\ [][NotOvertaken]_vars => []OneDriverPerClaim
<1>1. TurnInv => OneDriverPerClaim
  BY DEF TurnInv
<1> QED
  BY <1>1, TurnInvHolds, PTL

(***************************************************************************)
(* Unless a handler is overtaken, completePickup settles the claim in the  *)
(* same transaction, and there is never anything for the repairs to do.    *)
(***************************************************************************)
THEOREM CompletionSettlesUnlessOvertaken ==
    Spec /\ [][NotOvertaken]_vars => []CompletionSettlesClaim
<1>1. TurnInv => CompletionSettlesClaim
  BY DEF TurnInv
<1> QED
  BY <1>1, TurnInvHolds, PTL

(***************************************************************************)
(* Unless a handler is overtaken, a collection is final: confirmClaim, a   *)
(* repair or a late cancellation does not take a claim out of COLLECTED.   *)
(***************************************************************************)
THEOREM CollectedIsFinalUnlessOvertaken == Spec /\ [][NotOvertaken]_vars => CollectedIsFinal
<1> DEFINE Step == \A c \in Claims :
                      claim[c].status = "COLLECTED" => claim'[c].status = "COLLECTED"
<1>1. DriverInv /\ TurnInv /\ [Next]_vars => [Step]_claimsVars
  <2> SUFFICES ASSUME DriverInv, TurnInv, Next, claim' # claim, NEW c \in Claims,
                      claim[c].status = "COLLECTED"
               PROVE  claim'[c].status = "COLLECTED"
    BY DEF vars, storeVars
  <2>1. CASE ClaimsNext
    <3>1. \A s \in Slots : ~(req[s].op = "confirm" /\ req[s].claim = c)
      BY DEF TurnInv, ConfirmHolds, Confirms
    <3> QED
      BY <2>1, <3>1, ClaimMoves DEF DriverInv
  <2>2. ASSUME NEW s \in Requests, CompleteWrite(s) PROVE claim'[c].status = "COLLECTED"
    BY <2>2, CompleteWriteEffect
  <2>3. ASSUME NEW s \in Requests, HealClaim(s) PROVE claim'[c].status = "COLLECTED"
    BY <2>3, HealClaimEffect
  <2>4. ASSUME NEW s, NEW d, NEW k, NEW l, NEW o, NEW p, NEW accept, NEW status, NEW rate,
               \/ AcceptRead(s, d, k, l) \/ AssignRead(s, o, d, k) \/ RespondRead(s, p, accept)
               \/ TripRead(s, p, status) \/ CompleteRead(s, p, rate) \/ CompleteAgain(s, p)
               \/ MyClaimsRead(s, k) \/ OrgListingsRead(s, k)
               \/ CreateWrite(s) \/ SetWrite(s) \/ HealDay(s) \/ DriverCrash(s)
        PROVE  UNCHANGED claim
    BY <2>4 DEF AcceptRead, AssignRead, RespondRead, TripRead, CompleteRead, CompleteAgain,
       MyClaimsRead, OrgListingsRead, CreateWrite, SetWrite, HealDay, DriverCrash, Begin,
       storeVars
  <2>5. CASE DriverNext
    BY <2>2, <2>3, <2>4, <2>5, DriverSteps
  <2> QED
    BY <2>1, <2>5 DEF Next
<1> QED
  BY <1>1, CollectionsDriverInv, TurnInvHolds, PTL DEF Spec, CollectedIsFinal

-----------------------------------------------------------------------------
(* What the drivers leave to the handlers of the claims *)

(***************************************************************************)
(* A driver's handler moves no food: it writes no listing, no weight and   *)
(* no row lock, and the only change it makes to a claim's status is to     *)
(* collect it.                                                             *)
(***************************************************************************)
LEMMA DriversMoveNoFood ==
    ASSUME DriverInv, DriverNext
    PROVE  /\ UNCHANGED <<listing, stock, lock>>
           /\ SameClaims
           /\ \A c \in Claims : claim'[c].status \in {claim[c].status, "COLLECTED"}
<1> DEFINE Goal == /\ UNCHANGED <<listing, stock, lock>>
                   /\ SameClaims
                   /\ \A c \in Claims : claim'[c].status \in {claim[c].status, "COLLECTED"}
<1>a. claim \in [Claims -> ClaimRow]
  BY Tables
<1>1. ASSUME UNCHANGED <<listing, stock, lock, claim>> PROVE Goal
  BY <1>1 DEF SameClaims
<1>2. ASSUME NEW c \in Claims, NEW row, claim[c].status # "NONE",
             claim' = [claim EXCEPT ![c] = row],
             row.status = "COLLECTED", row.listing = claim[c].listing,
             row.org = claim[c].org, row.site = claim[c].site, row.qty = claim[c].qty
      PROVE  SameClaims /\ \A d \in Claims : claim'[d].status \in {claim[d].status, "COLLECTED"}
  <2>1. claim'[c] = row /\ \A d \in Claims : d # c => claim'[d] = claim[d]
    BY <1>2, <1>a
  <2> QED
    BY <1>2, <2>1 DEF SameClaims
<1>3. ASSUME NEW s \in Requests, CompleteWrite(s) PROVE Goal
  <2>1. UNCHANGED <<listing, stock, lock>>
    BY <1>3 DEF CompleteWrite
  <2>2. CASE ~SettlesClaim(dreq[s].claimStatus)
    BY <1>1, <1>3, <2>1, <2>2, SMTT(60) DEF CompleteWrite
  <2>3. CASE SettlesClaim(dreq[s].claimStatus)
    <3> DEFINE c == pickup[dreq[s].pickup].claim
               row == [claim[c] EXCEPT !.status = "COLLECTED", !.rated = @ \/ dreq[s].rate]
    <3>1. c \in Claims /\ claim[c].status # "NONE"
      BY <1>3, CompleteWriteEffect
    <3>2. claim' = [claim EXCEPT ![c] = row]
      BY <1>3, <2>3 DEF CompleteWrite
    <3>3. /\ row.status = "COLLECTED" /\ row.listing = claim[c].listing
          /\ row.org = claim[c].org /\ row.site = claim[c].site /\ row.qty = claim[c].qty
      BY <1>a, <3>1 DEF ClaimRow
    <3> HIDE DEF row
    <3> QED
      BY <1>2, <2>1, <3>1, <3>2, <3>3
  <2> QED
    BY <2>2, <2>3, SMTT(60)
<1>4. ASSUME NEW s \in Requests, HealClaim(s) PROVE Goal
  <2> DEFINE c == dreq[s].claim
             row == [claim[c] EXCEPT !.status = "COLLECTED"]
  <2>1. UNCHANGED <<listing, stock, lock>>
    BY <1>4 DEF HealClaim
  <2>2. c \in Claims /\ claim[c].status # "NONE"
    BY <1>4, HealClaimEffect
  <2>3. claim' = [claim EXCEPT ![c] = row]
    BY <1>4 DEF HealClaim
  <2>4. /\ row.status = "COLLECTED" /\ row.listing = claim[c].listing
        /\ row.org = claim[c].org /\ row.site = claim[c].site /\ row.qty = claim[c].qty
    BY <1>a, <2>2 DEF ClaimRow
  <2> HIDE DEF row
  <2> QED
    BY <1>2, <2>1, <2>2, <2>3, <2>4
<1>5. ASSUME NEW s, NEW d, NEW c, NEW l, NEW o, NEW p, NEW accept, NEW status, NEW rate,
             \/ AcceptRead(s, d, c, l) \/ AssignRead(s, o, d, c) \/ RespondRead(s, p, accept)
             \/ TripRead(s, p, status) \/ CompleteRead(s, p, rate) \/ CompleteAgain(s, p)
             \/ MyClaimsRead(s, c) \/ OrgListingsRead(s, c)
             \/ CreateWrite(s) \/ SetWrite(s) \/ HealDay(s) \/ DriverCrash(s)
      PROVE  UNCHANGED <<listing, stock, lock, claim>>
  BY <1>5 DEF AcceptRead, AssignRead, RespondRead, TripRead, CompleteRead, CompleteAgain,
     MyClaimsRead, OrgListingsRead, CreateWrite, SetWrite, HealDay, DriverCrash, Begin,
     storeVars
<1> HIDE DEF Goal
<1>6. Goal
  BY <1>1, <1>3, <1>4, <1>5, DriverSteps
<1> QED
  BY <1>6 DEF Goal

LEMMA UnchangedClaims ==
    ASSUME UNCHANGED vars
    PROVE  UNCHANGED claimsVars /\ NoRevival
BY DEF vars, claimsVars, storeVars, NoRevival

(***************************************************************************)
(* No driver's handler changes the weights of a listing, so they add up    *)
(* for any handlers in progress, in either schema.                         *)
(***************************************************************************)
THEOREM CollectionsTotalsAgree == Spec => []ListingTotalsAgree
<1> DEFINE Inv == DriverInv /\ LockInv /\ LeftInv /\ ListingTotalsAgree
<1>1. Init => Inv
  BY DriverInvInit, LockInvInit, LeftInvInit, ListingTotalsAgreeInit DEF Init
<1>2. Inv /\ [Next]_vars => Inv'
  <2> SUFFICES ASSUME Inv, [Next]_vars PROVE LockInv' /\ LeftInv' /\ ListingTotalsAgree'
    BY DriverInvNext
  <2>1. CASE [ClaimsNext]_claimsVars
    BY <2>1, LockInvNext, LeftInvNext, ListingTotalsAgreeNext DEF DriverInv
  <2>2. CASE DriverNext /\ UNCHANGED req
    <3>1. UNCHANGED <<listing, stock, lock, req>>
      BY <2>2, DriversMoveNoFood
    <3> QED
      BY <3>1 DEF LockInv, OpenListing, LeftInv, ListingTotalsAgree
  <2> QED
    BY <2>1, <2>2, UnchangedClaims DEF Next
<1>3. Inv => ListingTotalsAgree
  OBVIOUS
<1> QED
  BY <1>1, <1>2, <1>3, PTL DEF Spec

\* What the handlers of the claims rely on, next to the drivers.
FoodInv == LockInv /\ SiteInv /\ StockConserved

(* Food and claims add up as long as no step brings a cancelled claim back. *)
LEMMA FoodInvUnlessRevived == Spec /\ [][NoRevival]_vars => []FoodInv
<1>1. Init => FoodInv
  BY LockInvInit, SiteInvInit, StockConservedInit DEF Init, FoodInv
<1>2. DriverInv /\ DriverInv' /\ FoodInv /\ [Next]_vars /\ [NoRevival]_vars => FoodInv'
  <2> SUFFICES ASSUME DriverInv, DriverInv', FoodInv, [Next]_vars, NoRevival
               PROVE  FoodInv'
    BY UnchangedClaims
  <2>a. TypeInv /\ TypeInv'
    BY DEF DriverInv
  <2>1. CASE [ClaimsNext]_claimsVars
    BY <2>a, <2>1, LockInvNext, SiteInvNext, StockConservedNext DEF FoodInv
  <2>2. CASE DriverNext /\ UNCHANGED req
    <3>1. /\ UNCHANGED <<listing, stock, lock, req>>
          /\ SameClaims
          /\ \A c \in Claims : claim'[c].status \in {claim[c].status, "COLLECTED"}
      BY <2>2, DriversMoveNoFood
    <3>2. LockInv'
      BY <3>1 DEF FoodInv, LockInv, OpenListing
    <3>3. SiteInv'
      BY <2>a, <3>1, SiteInvKept DEF FoodInv
    <3>4. StockConserved'
      BY <2>a, <3>1, StockConservedKept DEF FoodInv, NoRevival
    <3> QED
      BY <3>2, <3>3, <3>4 DEF FoodInv
  <2> QED
    BY <2>1, <2>2, UnchangedClaims DEF Next
<1> QED
  BY <1>1, <1>2, CollectionsDriverInv, PTL DEF Spec

(* In the schema of the repository there is no cancelled claim to bring back, *)
LEMMA NoneRevivedByDrivers ==
    ASSUME "listing_id" \notin ClaimColumns
    PROVE  Spec => [][NoRevival]_vars
<1>1. ~LockQueryResolves
  BY DEF LockQueryResolves
<1>2. Init => NoneCancelled
  BY NoneCancelledInit DEF Init
<1>3. DriverInv /\ NoneCancelled /\ [Next]_vars => NoneCancelled'
  <2> SUFFICES ASSUME DriverInv, NoneCancelled, [Next]_vars PROVE NoneCancelled'
    OBVIOUS
  <2>1. CASE [ClaimsNext]_claimsVars
    BY <1>1, <2>1, NoneCancelledNext DEF DriverInv
  <2>2. CASE DriverNext
    BY <2>2, DriversMoveNoFood DEF NoneCancelled
  <2> QED
    BY <2>1, <2>2, UnchangedClaims DEF Next
<1>4. NoneCancelled => [NoRevival]_vars
  BY DEF NoneCancelled, NoRevival
<1> QED
  BY <1>2, <1>3, <1>4, CollectionsDriverInv, PTL DEF Spec

(* and handlers that are not overtaken bring none back in the other. *)
LEMMA NoneRevivedInTurn == Spec /\ [][NotOvertaken]_vars => [][NoRevival]_vars
<1>1. DriverInv /\ TurnInv /\ [Next]_vars => [NoRevival]_vars
  <2> SUFFICES ASSUME DriverInv, TurnInv, Next, claim' # claim, NEW c \in Claims,
                      claim[c].status = "CANCELLED"
               PROVE  claim'[c].status = "CANCELLED"
    BY DEF vars, storeVars, NoRevival
  <2>1. CASE ClaimsNext
    <3>1. \A s \in Slots : ~(req[s].op = "confirm" /\ req[s].claim = c)
      BY SMTT(60) DEF TurnInv, ConfirmHolds, Confirms
    <3> QED
      BY <2>1, <3>1, ClaimMoves DEF DriverInv
  <2>2. ASSUME NEW s \in Requests, CompleteWrite(s) PROVE claim'[c].status = "CANCELLED"
    <3>1. dreq[s].claimStatus = claim[pickup[dreq[s].pickup].claim].status
      BY <2>2 DEF CompleteWrite, TurnInv, DriversHold, Holds, Held
    <3> QED
      BY <2>2, <3>1, CompleteWriteEffect, SMTT(60) DEF SettlesClaim
  <2>3. ASSUME NEW s \in Requests, HealClaim(s) PROVE FALSE
    BY <2>3 DEF HealClaim, TurnInv, DriversHold, Holds, Held
  <2>4. ASSUME NEW s, NEW d, NEW k, NEW l, NEW o, NEW p, NEW accept, NEW status, NEW rate,
               \/ AcceptRead(s, d, k, l) \/ AssignRead(s, o, d, k) \/ RespondRead(s, p, accept)
               \/ TripRead(s, p, status) \/ CompleteRead(s, p, rate) \/ CompleteAgain(s, p)
               \/ MyClaimsRead(s, k) \/ OrgListingsRead(s, k)
               \/ CreateWrite(s) \/ SetWrite(s) \/ HealDay(s) \/ DriverCrash(s)
        PROVE  UNCHANGED claim
    BY <2>4 DEF AcceptRead, AssignRead, RespondRead, TripRead, CompleteRead, CompleteAgain,
       MyClaimsRead, OrgListingsRead, CreateWrite, SetWrite, HealDay, DriverCrash, Begin,
       storeVars
  <2>5. CASE DriverNext
    BY <2>2, <2>3, <2>4, <2>5, DriverSteps
  <2> QED
    BY <2>1, <2>5 DEF Next
<1> QED
  BY <1>1, CollectionsDriverInv, TurnInvHolds, PTL DEF Spec

\* In the schema of the repository cancelClaim fails, and any handlers may
\* overtake each other; with a column listing_id none may.
CancelsUndisturbed == "listing_id" \in ClaimColumns => NotOvertaken

LEMMA NoneRevivedWithDrivers == Spec /\ [][CancelsUndisturbed]_vars => [][NoRevival]_vars
<1>1. CASE "listing_id" \in ClaimColumns
  <2>1. [CancelsUndisturbed]_vars => [NotOvertaken]_vars
    BY <1>1 DEF CancelsUndisturbed
  <2> QED
    BY <2>1, NoneRevivedInTurn, PTL
<1>2. CASE "listing_id" \notin ClaimColumns
  <2>1. Spec => [][NoRevival]_vars
    BY <1>2, NoneRevivedByDrivers
  <2> QED
    BY <2>1, PTL
<1> QED
  BY <1>1, <1>2

(***************************************************************************)
(* With drivers next to the claims, every kilogram is on offer or in       *)
(* exactly one claim: in the schema of the repository whatever handlers    *)
(* overlap, and with a column listing_id unless one is overtaken.          *)
(***************************************************************************)
THEOREM CollectionsStockConserved == Spec /\ [][CancelsUndisturbed]_vars => []StockConserved
<1>1. FoodInv => StockConserved
  BY DEF FoodInv
<1>2. Spec /\ [][CancelsUndisturbed]_vars => [][NoRevival]_vars
  BY NoneRevivedWithDrivers
<1> QED
  BY <1>1, <1>2, FoodInvUnlessRevived, PTL

(***************************************************************************)
(* Under the same conditions a site has one live claim on a listing:       *)
(* collecting a claim, repairing one or sending a driver makes no room for *)
(* a second.                                                               *)
(***************************************************************************)
THEOREM CollectionsOneClaimPerSite == Spec /\ [][CancelsUndisturbed]_vars => []OneClaimPerSite
<1>1. FoodInv => OneClaimPerSite
  BY DEF FoodInv, SiteInv
<1>2. Spec /\ [][CancelsUndisturbed]_vars => [][NoRevival]_vars
  BY NoneRevivedWithDrivers
<1> QED
  BY <1>1, <1>2, FoodInvUnlessRevived, PTL

\* Claims of one line take no more than there is, and the listing says what is left.
OneLineFood ==
    LockInv /\ NoOverdraw /\ TakesInv /\ ListingTotalsAgree /\ TotalsInv

LEMMA OneLineFoodHolds ==
    ASSUME MaxLines <= 1
    PROVE  Spec => []OneLineFood
<1> DEFINE Rest == LockInv /\ NoOverdraw /\ TakesInv /\ TotalsInv
<1>1. Init => Rest
  BY LockInvInit, NoOverdrawInit, TotalsInvInit DEF Init
<1>2. DriverInv /\ Rest /\ [Next]_vars => Rest'
  <2> SUFFICES ASSUME DriverInv, Rest, [Next]_vars PROVE Rest'
    OBVIOUS
  <2>1. CASE [ClaimsNext]_claimsVars
    BY <2>1, LockInvNext, NoOverdrawNext, TakesInvNext, TotalsInvNext DEF DriverInv
  <2>2. CASE DriverNext /\ UNCHANGED req
    <3>1. UNCHANGED <<listing, stock, lock, req>> /\ SameClaims
      BY <2>2, DriversMoveNoFood
    <3>2. LockInv'
      BY <3>1 DEF LockInv, OpenListing
    <3>3. TakesInv'
      BY <3>1 DEF TakesInv, Takes, SameClaims
    <3> QED
      BY <3>1, <3>2, <3>3 DEF NoOverdraw, TotalsInv
  <2> QED
    BY <2>1, <2>2, UnchangedClaims DEF Next
<1>3. Rest /\ ListingTotalsAgree => OneLineFood
  BY DEF OneLineFood
<1> QED
  BY <1>1, <1>2, <1>3, CollectionsDriverInv, CollectionsTotalsAgree, PTL DEF Spec

(***************************************************************************)
(* Under the same conditions, and while a partial claim has one line, the  *)
(* status of a listing says what remains of it: no driver's handler takes  *)
(* or gives back anything.                                                 *)
(***************************************************************************)
THEOREM CollectionsStatusMatchesStock ==
    ASSUME MaxLines <= 1
    PROVE  Spec /\ [][CancelsUndisturbed]_vars => []StatusMatchesStock
<1>1. Init => StatusMatchesStock
  BY StatusMatchesStockInit DEF Init
<1>2. /\ DriverInv /\ DriverInv' /\ OneLineFood /\ OneLineFood' /\ StockConserved'
      /\ StatusMatchesStock /\ [Next]_vars
      => StatusMatchesStock'
  <2> SUFFICES ASSUME DriverInv, DriverInv', OneLineFood, OneLineFood', StockConserved',
                      StatusMatchesStock, [Next]_vars
               PROVE  StatusMatchesStock'
    OBVIOUS
  <2>a. TypeInv /\ TypeInv'
    BY DEF DriverInv
  <2>1. CASE [ClaimsNext]_claimsVars
    BY <2>a, <2>1, StatusMatchesStockNext, CancelKeepsStatus DEF OneLineFood
  <2>2. CASE DriverNext /\ UNCHANGED req
    <3>1. UNCHANGED listing
      BY <2>2, DriversMoveNoFood
    <3> QED
      BY <3>1 DEF StatusMatchesStock
  <2> QED
    BY <2>1, <2>2, UnchangedClaims DEF Next
<1> QED
  BY <1>1, <1>2, CollectionsDriverInv, OneLineFoodHolds, CollectionsStockConserved, PTL
     DEF Spec
=============================================================================
