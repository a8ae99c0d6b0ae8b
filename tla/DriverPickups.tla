--------------------------- MODULE DriverPickups ---------------------------
(***************************************************************************)
(* Drivers and the pickups they make for a claim: DriverLocationService,   *)
(* and the reads of ClaimsService.getMyClaims and                          *)
(* FoodListingService.getOrgListings that repair a claim whose pickup is   *)
(* done.  Like the claim handlers, every handler here reads and checks     *)
(* first and writes later without looking again; dreq[s] is what it holds  *)
(* in between.  X_Y is the mutant Y of definition X, as in ListingClaims.  *)
(*                                                                         *)
(* That acceptPickup wants a live driver is not a guard here: a driver can *)
(* go live at any moment (module DriverPresence).                          *)
(***************************************************************************)
EXTENDS MarketStore

VARIABLE dreq  \* driver handlers in progress

NoDriverReq == [op |-> "idle"]

CreateReq ==
    [op: {"create"}, claim: Claims, listing: Listings, driver: Drivers,
     status: {"ACCEPTED", "ASSIGNED"}]
SetReq == [op: {"set"}, pickup: Pickups, status: DriverPickupStatus]
CompleteReq ==
    [op: {"complete"}, pickup: Pickups, claimStatus: ClaimStatus,
     listingStatus: ListingStatus, rate: BOOLEAN]
HealReq ==
    [op: {"heal", "healDay"}, claim: Claims, listing: Listings,
     listingStatus: ListingStatus]

DriverRequest ==
    {NoDriverReq} \cup CreateReq \cup SetReq \cup CompleteReq \cup HealReq

DriverTypeOK == dreq \in [Requests -> DriverRequest]

DriverInit == dreq = [s \in Requests |-> NoDriverReq]

Begin(s, r) ==
    /\ dreq[s] = NoDriverReq
    /\ dreq' = [dreq EXCEPT ![s] = r]
    /\ UNCHANGED storeVars

End(s) == dreq' = [dreq EXCEPT ![s] = NoDriverReq]

-----------------------------------------------------------------------------
(* Pickups *)

\* The bound MaxPickups, with a row set aside for every insert in progress.
PickupRoom ==
    Cardinality({p \in Pickups : pickup[p].status = "NONE"})
      > Cardinality({s \in Requests : dreq[s].op = "create"})

\* acceptPickup: nobody handles the claim.  The listing is the caller's word;
\* it is not compared with the claim's.
AcceptRead(s, d, c, l) ==
    /\ PickupRoom
    /\ claim[c].status # "NONE"
    /\ listing[l].status # "NONE"
    /\ ~HasCurrentPickup(c)
    /\ Begin(s, [op |-> "create", claim |-> c, listing |-> l, driver |-> d,
                 status |-> "ACCEPTED"])

\* assignDriverToPickup, by the claimant's organisation.
AssignRead(s, o, d, c) ==
    /\ PickupRoom
    /\ claim[c].status \in {"PENDING", "CONFIRMED"}
    /\ claim[c].org = o
    /\ ~HasCurrentPickup(c)
    /\ Begin(s, [op |-> "create", claim |-> c, listing |-> claim[c].listing,
                 driver |-> d, status |-> "ASSIGNED"])

\* No constraint of driver_pickups forbids a second row for the claim.
CreateWrite(s) ==
    /\ dreq[s].op = "create"
    /\ \E p \in Pickups :
        /\ NextPickup(p)
        /\ pickup' = [pickup EXCEPT ![p] =
                [NoPickup EXCEPT !.status = dreq[s].status,
                                 !.claim = dreq[s].claim,
                                 !.listing = dreq[s].listing,
                                 !.driver = dreq[s].driver]]
    /\ End(s)
    /\ UNCHANGED <<listing, stock, claim, day, ratingCount, lock>>

\* respondToPickupAssignment (also reached from declineAvailablePickup).
RespondRead_WrongEnum(s, p, accept) ==
    /\ pickup[p].status = "ASSIGNED"
    /\ Begin(s, [op |-> "set", pickup |-> p,
                 status |-> IF accept THEN "ACCEPTED" ELSE "DECLINED"])

RespondRead(s, p, accept) ==
    /\ pickup[p].status = "ASSIGNED"
    /\ Begin(s, [op |-> "set", pickup |-> p,
                 status |-> IF accept THEN "ACCEPTED" ELSE "CANCELLED"])

\* updatePickupStatus: any trip status but ASSIGNED and COLLECTED.
TripRead_Unanswered(s, p, status) ==
    /\ pickup[p].status \in CurrentStatuses
    /\ status \in {"ACCEPTED", "EN_ROUTE", "ARRIVED", "CANCELLED"}
    /\ Begin(s, [op |-> "set", pickup |-> p, status |-> status])

TripRead(s, p, status) ==
    /\ pickup[p].status \in {"ACCEPTED", "EN_ROUTE", "ARRIVED"}
    /\ status \in {"ACCEPTED", "EN_ROUTE", "ARRIVED", "CANCELLED"}
    /\ Begin(s, [op |-> "set", pickup |-> p, status |-> status])

SetWrite(s) ==
    /\ dreq[s].op = "set"
    /\ pickup' = [pickup EXCEPT ![dreq[s].pickup].status = dreq[s].status]
    /\ End(s)
    /\ UNCHANGED <<listing, stock, claim, day, ratingCount, lock>>

\* completePickup of a driver who has arrived: pickup, claim and listing are
\* read together, then a photo may be uploaded ...
CompleteRead(s, p, rate) ==
    /\ pickup[p].status = "ARRIVED"
    /\ LET c == pickup[p].claim
       IN  Begin(s, [op |-> "complete", pickup |-> p,
                     claimStatus |-> claim[c].status,
                     listingStatus |-> listing[claim[c].listing].status,
                     rate |-> rate])

\* A claim is settled if it was neither collected nor cancelled when read.
SettlesClaim_ConfirmedOnly(claimStatus) == claimStatus = "CONFIRMED"

SettlesClaim(claimStatus) == claimStatus \notin {"COLLECTED", "CANCELLED"}

\* ... and one transaction completes the pickup and, if the claim was open when
\* it was read, forces the claim to COLLECTED.
CompleteWrite(s) ==
    LET p == dreq[s].pickup
        c == pickup[p].claim
        o == listing[claim[c].listing].org
    IN  /\ dreq[s].op = "complete"
        /\ pickup' = [pickup EXCEPT ![p].status = "COLLECTED", ![p].done = TRUE]
        /\ IF SettlesClaim(dreq[s].claimStatus)
           THEN /\ claim' = [claim EXCEPT ![c].status = "COLLECTED",
                                          ![c].rated = @ \/ dreq[s].rate]
                /\ ratingCount' = IF dreq[s].rate
                                  THEN [ratingCount EXCEPT ![o] = @ + 1]
                                  ELSE ratingCount
                /\ day' = CollectDay(pickup[p].listing, dreq[s].listingStatus)
           ELSE UNCHANGED <<claim, ratingCount, day>>
        /\ End(s)
        /\ UNCHANGED <<listing, stock, lock>>

-----------------------------------------------------------------------------
(* Repairs *)

OpenClaim(c) == claim[c].status \in {"PENDING", "CONFIRMED"}

\* l: the listing whose connection day is settled with the claim.
HealRequest(c, l) ==
    [op |-> "heal", claim |-> c, listing |-> l,
     listingStatus |-> listing[claim[c].listing].status]

\* completePickup of a pickup that is COLLECTED already.
CompleteAgain(s, p) ==
    /\ pickup[p].status = "COLLECTED"
    /\ OpenClaim(pickup[p].claim)
    /\ Begin(s, HealRequest(pickup[p].claim, pickup[p].listing))

(***************************************************************************)
(* getMyClaims loads three pickups of a claim, ordered by collectedAt      *)
(* descending.  PostgreSQL puts the rows without a collectedAt first, so a *)
(* finished pickup is only seen when fewer than three of the claim's       *)
(* pickups are unfinished.  (The order of several finished pickups of one  *)
(* claim is not kept: it only matters to a claim with four pickups or more,*)
(* a finished one of which lost its status to a late update.)              *)
(***************************************************************************)
HealTake == 3

MyClaimsSees(c) ==
    /\ \E p \in Pickups : pickup[p].claim = c /\ pickup[p].status = "COLLECTED"
    /\ Cardinality({p \in Pickups : pickup[p].claim = c /\ ~pickup[p].done}) < HealTake

\* getOrgListings loads the newest pickup of a claim that is not cancelled.
OrgListingsSees(c) ==
    \E p \in Pickups :
        /\ pickup[p].claim = c
        /\ pickup[p].status = "COLLECTED"
        /\ \A q \in Pickups :
            q > p /\ pickup[q].claim = c => pickup[q].status = "CANCELLED"

\* An uncached page of the claimant's claims is being loaded,
MyClaimsRead(s, c) ==
    /\ OpenClaim(c)
    /\ MyClaimsSees(c)
    /\ Begin(s, HealRequest(c, claim[c].listing))

\* or one of the provider's listings.
OrgListingsRead(s, c) ==
    /\ OpenClaim(c)
    /\ OrgListingsSees(c)
    /\ Begin(s, HealRequest(c, claim[c].listing))

\* The repair is two statements and no transaction: the claim first,
HealClaim_NotWritten(s) ==
    /\ dreq[s].op = "heal"
    /\ dreq' = [dreq EXCEPT ![s].op = "healDay"]
    /\ UNCHANGED storeVars

HealClaim(s) ==
    /\ dreq[s].op = "heal"
    /\ claim' = [claim EXCEPT ![dreq[s].claim].status = "COLLECTED"]
    /\ dreq' = [dreq EXCEPT ![s].op = "healDay"]
    /\ UNCHANGED <<listing, stock, pickup, day, ratingCount, lock>>

\* then the connection day.
HealDay(s) ==
    /\ dreq[s].op = "healDay"
    /\ day' = CollectDay(dreq[s].listing, dreq[s].listingStatus)
    /\ End(s)
    /\ UNCHANGED <<listing, stock, claim, pickup, ratingCount, lock>>

DriverCrash(s) ==
    /\ dreq[s] # NoDriverReq
    /\ End(s)
    /\ UNCHANGED storeVars

-----------------------------------------------------------------------------
DriverFinish(s) ==
    \/ CreateWrite(s)
    \/ SetWrite(s)
    \/ CompleteWrite(s)
    \/ HealClaim(s)
    \/ HealDay(s)

DriverNext ==
    \E s \in Requests :
        \/ \E d \in Drivers, c \in Claims :
            \/ \E l \in Listings : AcceptRead(s, d, c, l)
            \/ \E o \in Orgs : AssignRead(s, o, d, c)
        \/ \E p \in Pickups :
            \/ \E accept \in BOOLEAN : RespondRead(s, p, accept)
            \/ \E status \in DriverPickupStatus : TripRead(s, p, status)
            \/ \E rate \in BOOLEAN : CompleteRead(s, p, rate)
            \/ CompleteAgain(s, p)
        \/ \E c \in Claims : MyClaimsRead(s, c) \/ OrgListingsRead(s, c)
        \/ DriverFinish(s)
        \/ DriverCrash(s)
=============================================================================
