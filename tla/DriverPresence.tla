-------------------------- MODULE DriverPresence --------------------------
(***************************************************************************)
(* Which drivers are live: the presence half of DriverLocationService.     *)
(* Being live is a Redis key per driver with a time to live (live) and a   *)
(* set of user ids per site (siteSet); the drivers here belong to one      *)
(* site.  A call is a sequence of Redis commands, and commands of other    *)
(* calls run between them; call[s] is what the call in slot s has yet to   *)
(* do.  X_Y is the mutant Y of definition X, as in ListingClaims.          *)
(***************************************************************************)
EXTENDS Integers

CONSTANTS
    Drivers,  \* users with the DRIVER role on the site
    Calls     \* slots for the calls in progress at the same time

VARIABLES
    live,     \* drivers whose driver:live:<id> key exists
    siteSet,  \* members of drivers:live:site:<id>
    call,     \* calls in progress
    off       \* history: drivers whose last answer was "You are now offline"

presenceVars == <<live, siteSet, call, off>>

NoCall == [op |-> "idle"]

PresenceCall ==
    {NoCall}
      \cup [op: {"goLive", "goOffline", "locate"}, driver: Drivers]
      \cup [op: {"mget", "srem"}, ids: SUBSET Drivers]

PresenceTypeOK ==
    /\ live \in SUBSET Drivers
    /\ siteSet \in SUBSET Drivers
    /\ call \in [Calls -> PresenceCall]
    /\ off \in SUBSET Drivers

PresenceInit ==
    /\ live = {}
    /\ siteSet = {}
    /\ call = [s \in Calls |-> NoCall]
    /\ off = {}

Begin(s, c) == call[s] = NoCall /\ call' = [call EXCEPT ![s] = c]
End(s) == call' = [call EXCEPT ![s] = NoCall]

\* goLive: SETEX of the key, then SADD to the site's set.
GoLiveKey(s, d) ==
    /\ Begin(s, [op |-> "goLive", driver |-> d])
    /\ live' = live \cup {d}
    /\ off' = off \ {d}
    /\ UNCHANGED siteSet

GoLiveSet_WrongMember(s) ==
    /\ call[s].op = "goLive"
    /\ siteSet' = siteSet \cup {{call[s].driver}}
    /\ End(s)
    /\ UNCHANGED <<live, off>>

GoLiveSet(s) ==
    /\ call[s].op = "goLive"
    /\ siteSet' = siteSet \cup {call[s].driver}
    /\ End(s)
    /\ UNCHANGED <<live, off>>

\* goOffline: DEL of the key, then SREM; the driver is told when both are done,
\* which counts as the last word unless a goLive is already on its way.
GoOfflineKey(s, d) ==
    /\ Begin(s, [op |-> "goOffline", driver |-> d])
    /\ live' = live \ {d}
    /\ UNCHANGED <<siteSet, off>>

GoOfflineSet(s) ==
    LET d == call[s].driver
    IN  /\ call[s].op = "goOffline"
        /\ siteSet' = siteSet \ {d}
        /\ off' = IF \E t \in Calls : call[t] = [op |-> "goLive", driver |-> d]
                  THEN off ELSE off \cup {d}
        /\ End(s)
        /\ UNCHANGED live

\* The key's eight hours are over; the set is not told.
LiveKeyExpires(d) ==
    /\ d \in live
    /\ live' = live \ {d}
    /\ UNCHANGED <<siteSet, call, off>>

\* updateLocation: GET of the key, and later SETEX of the same key.
LocateRead(s, d) ==
    /\ d \in live
    /\ Begin(s, [op |-> "locate", driver |-> d])
    /\ UNCHANGED <<live, siteSet, off>>

LocateWrite_Relists(s) ==
    /\ call[s].op = "locate"
    /\ live' = live \cup {call[s].driver}
    /\ siteSet' = siteSet \cup {call[s].driver}
    /\ End(s)
    /\ UNCHANGED off

LocateWrite(s) ==
    /\ call[s].op = "locate"
    /\ live' = live \cup {call[s].driver}
    /\ End(s)
    /\ UNCHANGED <<siteSet, off>>

\* getLiveDriversForSite: SMEMBERS ...
ListMembers(s) ==
    /\ siteSet # {}
    /\ Begin(s, [op |-> "mget", ids |-> siteSet])
    /\ UNCHANGED <<live, siteSet, off>>

\* ... MGET of the members' keys ...
ListKeys_NoPrune(s) == call[s].op = "mget" /\ End(s) /\ UNCHANGED <<live, siteSet, off>>

ListKeys(s) ==
    /\ call[s].op = "mget"
    /\ IF call[s].ids \subseteq live
       THEN End(s)
       ELSE call' = [call EXCEPT ![s] = [op |-> "srem", ids |-> call[s].ids \ live]]
    /\ UNCHANGED <<live, siteSet, off>>

\* ... and SREM of the members that had none.
ListPrune(s) ==
    /\ call[s].op = "srem"
    /\ siteSet' = siteSet \ call[s].ids
    /\ End(s)
    /\ UNCHANGED <<live, off>>

Continue(s) ==
    \/ GoLiveSet(s)
    \/ GoOfflineSet(s)
    \/ LocateWrite(s)
    \/ ListKeys(s)
    \/ ListPrune(s)

PresenceNext ==
    \/ \E d \in Drivers : LiveKeyExpires(d)
    \/ \E s \in Calls :
        \/ \E d \in Drivers : GoLiveKey(s, d) \/ GoOfflineKey(s, d) \/ LocateRead(s, d)
        \/ ListMembers(s)
        \/ Continue(s)

PresenceSpec == PresenceInit /\ [][PresenceNext]_presenceVars

(***************************************************************************)
(* Commands that were sent are executed, and the charity keeps opening its *)
(* list of drivers.                                                        *)
(***************************************************************************)
PresenceFairSpec ==
    /\ PresenceSpec
    /\ \A s \in Calls : WF_presenceVars(Continue(s)) /\ SF_presenceVars(ListMembers(s))

-----------------------------------------------------------------------------
(* Properties *)

(***************************************************************************)
(* A driver who was told "You are now offline" is in no site's set, so     *)
(* neither a location update that was on its way nor a list being loaded   *)
(* puts the driver back among those offered work.                          *)
(***************************************************************************)
OfflineNotListed == off \cap siteSet = {}

(***************************************************************************)
(* A driver who was told "You are now offline" has no live key, which is   *)
(* what acceptPickup tests.                                                *)
(***************************************************************************)
OfflineNotLive == off \cap live = {}

(***************************************************************************)
(* When no call is in progress every driver who is live is in the site's   *)
(* set, and so is shown as online to the charity (getDriversForSite).      *)
(***************************************************************************)
LiveDriversListed ==
    (\A s \in Calls : call[s] = NoCall) => live \subseteq siteSet

(***************************************************************************)
(* A member of the site's set whose key has expired does not stay there:   *)
(* loading the list removes it, unless the driver is live again.           *)
(***************************************************************************)
StaleMembersPruned ==
    \A d \in Drivers : d \in siteSet \ live ~> d \notin siteSet \ live
=============================================================================
