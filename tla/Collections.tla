---------------------------- MODULE Collections ----------------------------
(***************************************************************************)
(* Claims and driver pickups together: the handlers of ListingClaims and   *)
(* of DriverPickups run against the same tables, at most MaxInFlight at    *)
(* the same time.                                                          *)
(***************************************************************************)
EXTENDS ListingClaims, DriverPickups

CONSTANT MaxInFlight

ASSUME CollectionsAssumption ==
    /\ MaxInFlight \in Nat
    /\ IsFiniteSet(Slots)

vars == <<storeVars, req, dreq>>

TypeOK == ClaimsTypeOK /\ DriverTypeOK

Init == ClaimsInit /\ DriverInit

InFlight ==
    Cardinality({s \in Slots : req[s] # Idle})
      + Cardinality({s \in Requests : dreq[s] # NoDriverReq})

\* cancelClaim is one step here, and counts as a handler all the same.
CancelsInTurn ==
    claim' # claim /\ UNCHANGED <<req, dreq>> => InFlight < MaxInFlight

Next ==
    /\ \/ ClaimsNext /\ UNCHANGED dreq
       \/ DriverNext /\ UNCHANGED req
    /\ CancelsInTurn
    /\ InFlight' <= MaxInFlight

Spec == Init /\ [][Next]_vars

(***************************************************************************)
(* Requests that were accepted are answered, the expiry sweep keeps        *)
(* running, and the claimant or the provider keeps opening a list of       *)
(* claims (they are cached for minutes).                                   *)
(***************************************************************************)
Fairness ==
    /\ \A s \in Requests :
        /\ SF_vars(DriverFinish(s) /\ UNCHANGED req)
        /\ SF_vars(Terminate(s) /\ UNCHANGED dreq)
    /\ \A s \in Workers, l \in Listings :
        SF_vars(ExpireRead(s, l) /\ UNCHANGED dreq /\ InFlight' <= MaxInFlight)
    /\ \A c \in Claims :
        SF_vars(/\ \E s \in Requests : MyClaimsRead(s, c) \/ OrgListingsRead(s, c)
                /\ UNCHANGED req
                /\ InFlight' <= MaxInFlight)

FairSpec == Spec /\ Fairness

-----------------------------------------------------------------------------
(* Properties *)

DeliveredUnsettled(c) ==
    /\ OpenClaim(c)
    /\ \E p \in Pickups : pickup[p].claim = c /\ pickup[p].status = "COLLECTED"

(***************************************************************************)
(* A claim whose driver has delivered does not stay open: whatever order   *)
(* completePickup, confirmClaim and markCollected write in, and wherever   *)
(* they crash, the repairs in getMyClaims and getOrgListings settle it.    *)
(***************************************************************************)
DeliveriesSettle ==
    \A c \in Claims : DeliveredUnsettled(c) ~> ~DeliveredUnsettled(c)

(***************************************************************************)
(* The repairs see every claim they are meant for ("Heal: driver already   *)
(* COLLECTED but claim row never flipped"): the pickups that getMyClaims   *)
(* and getOrgListings load include the finished one.                       *)
(***************************************************************************)
RepairsSeeDelivery ==
    \A c \in Claims : DeliveredUnsettled(c) => MyClaimsSees(c) \/ OrgListingsSees(c)

(***************************************************************************)
(* acceptPickup and assignDriverToPickup: a claim has one driver at a time *)
(* ("This claim is already being handled by another driver").              *)
(***************************************************************************)
OneDriverPerClaim ==
    \A p, q \in Pickups :
        /\ p # q
        /\ pickup[p].status \in CurrentStatuses
        /\ pickup[q].status \in CurrentStatuses
        => pickup[p].claim # pickup[q].claim

(***************************************************************************)
(* A driver is only sent for food that is still to be collected ("Cannot   *)
(* assign a driver to a collected claim").                                 *)
(***************************************************************************)
NoDriverForClosedClaim ==
    [][\A p \in Pickups :
          pickup[p].status = "NONE" /\ pickup'[p].status # "NONE"
            => claim[pickup'[p].claim].status \in {"PENDING", "CONFIRMED"}]_vars

\* The moves of a pickup: updatePickupStatus may go back and forth between the
\* trip statuses, an assignment is answered first, the end states are final.
PickupMoves ==
    [NONE |-> {"ASSIGNED", "ACCEPTED"},
     ASSIGNED |-> {"ACCEPTED", "CANCELLED"},
     ACCEPTED |-> {"EN_ROUTE", "ARRIVED", "CANCELLED"},
     EN_ROUTE |-> {"ACCEPTED", "ARRIVED", "CANCELLED"},
     ARRIVED |-> {"ACCEPTED", "EN_ROUTE", "COLLECTED", "CANCELLED"},
     COLLECTED |-> {},
     CANCELLED |-> {}]

(***************************************************************************)
(* A pickup follows its life cycle: the driver answers an assignment       *)
(* before the trip starts, completes it only on arrival, and a completed   *)
(* or cancelled pickup is never touched again.                             *)
(***************************************************************************)
PickupLifeCycle ==
    [][\A p \in Pickups :
          pickup'[p].status # pickup[p].status
            => pickup'[p].status \in PickupMoves[pickup[p].status]]_vars

(***************************************************************************)
(* Completing a pickup settles its claim in the same transaction: there is *)
(* no moment at which the driver is done and the claim is open.            *)
(***************************************************************************)
CompletionSettlesClaim ==
    \A c \in Claims : ~DeliveredUnsettled(c)

(***************************************************************************)
(* An assignment is answered before anything else happens to it: no trip   *)
(* status and no completion ever skips the driver's consent, even when     *)
(* answers, status updates and completions overtake each other.            *)
(***************************************************************************)
AssignmentNeedsConsent ==
    [][\A p \in Pickups :
          pickup[p].status = "ASSIGNED"
            => pickup'[p].status \in {"ASSIGNED", "ACCEPTED", "CANCELLED"}]_vars
=============================================================================
