---------------------------- MODULE Marketplace ----------------------------
(***************************************************************************)
(* Reserved food on the market: the handlers of ListingClaims (claims,     *)
(* confirmations, collections, cancellations and expiry) and those of      *)
(* ConnectionDays (surplus, release, reassignment and the sweeps) run      *)
(* against the same listings, at most MaxInFlight at the same time.        *)
(***************************************************************************)
EXTENDS ListingClaims, ConnectionDays

CONSTANT MaxInFlight

ASSUME MarketplaceAssumption == MaxInFlight \in Nat

vars == <<storeVars, req, daysVars>>

TypeOK == ClaimsTypeOK /\ DaysTypeOK

Init == ClaimsInit /\ DaysInit

InFlight ==
    Cardinality({s \in Slots : req[s] # Idle})
      + Cardinality({s \in Slots : creq[s] # DayIdle})

\* A listing whose window is that of a day becomes due with the clock.
DeadlinesFollowClock ==
    \A l \in Listings : listing'[l].due # listing[l].due => window[l] = Null

\* Left out here: ratings, on which no day depends.
InScope ==
    /\ UNCHANGED ratingCount
    /\ \A s \in Slots : req'[s].op \notin {"rate", "feedback"}

Next ==
    /\ \/ ClaimsNext /\ DeadlinesFollowClock /\ UNCHANGED daysVars
       \/ DaysNext /\ UNCHANGED req
    /\ InScope
    /\ InFlight' <= MaxInFlight

Spec == Init /\ [][Next]_vars

(***************************************************************************)
(* The same from the moment at which today's rows are open and the         *)
(* business has been prompted: prompts touch nothing that a claim reads.   *)
(***************************************************************************)
PromptedInit ==
    /\ TablesInit
    /\ day = [d \in Days |-> [NoDay EXCEPT !.outcome = "PROMPTED"]]
    /\ req = [s \in Slots |-> Idle]
    /\ now = 0
    /\ collecting = [d \in Days |-> TRUE]
    /\ info = [d \in Days |-> [NoInfo EXCEPT !.prompted = TRUE, !.pushed = 1]]
    /\ window = [l \in Listings |-> Null]
    /\ creq = [s \in Slots |-> DayIdle]

PromptedNext == Next /\ \A s \in Slots : creq'[s].op # "open"

PromptedSpec == PromptedInit /\ [][PromptedNext]_vars

-----------------------------------------------------------------------------
(* Properties *)

(***************************************************************************)
(* While a listing is reserved nobody else takes it, and a charity that    *)
(* declined it does not get it back: at the moment a claim is committed    *)
(* the row grants it to the claimant, although claimListing looked at the  *)
(* reservation earlier and releases and reassignments run meanwhile        *)
(* (assertCanClaim, under the row lock).                                   *)
(***************************************************************************)
ReservationRespected ==
    [][\A c \in Claims :
          claim[c].status = "NONE" /\ claim'[c].status # "NONE"
            => assertCanClaim(listing[claim'[c].listing], claim'[c].org)]_vars

(***************************************************************************)
(* A claimed listing is reserved for the charity: it is not released, and  *)
(* its day not counted as declined (connection.rules listingCanBeReleased).*)
(***************************************************************************)
ClaimedNotReleased ==
    [][\A l \in Listings :
          listing[l].status = "CLAIMED" => listing'[l].released = listing[l].released]_vars

(***************************************************************************)
(* The reliability ledger: a day that was collected or missed is closed.   *)
(***************************************************************************)
LedgerFinal ==
    [][\A d \in Days :
          day[d].outcome \in {"COLLECTED", "MISSED"}
            => day'[d].outcome = day[d].outcome]_vars

(***************************************************************************)
(* A day is counted as collected only when the whole of its listing is     *)
(* claimed: a partial collection leaves the day open, so that what is left *)
(* can still be released (canMarkConnectionDayCollected).                  *)
(***************************************************************************)
CollectedMeansClaimed ==
    [][\A d \in Days :
          day[d].outcome = "PUBLISHED" /\ day'[d].outcome = "COLLECTED"
            => listing[day[d].listing].remaining <= 0]_vars
=============================================================================
