------------------------ MODULE DriverPresence_proofs ------------------------
(***************************************************************************)
(* Proofs about DriverPresence, for any number of drivers and of calls     *)
(* whose Redis commands interleave.                                        *)
(***************************************************************************)
EXTENDS DriverPresence, TLAPS

(***************************************************************************)
(* A driver who was told to be offline has no goLive on its way: the only  *)
(* command that adds a member to the site's set comes from such a call.    *)
(***************************************************************************)
NotOnTheWay ==
    \A s \in Calls : call[s].op = "goLive" => call[s].driver \notin off

OfflineInv == OfflineNotListed /\ NotOnTheWay

-----------------------------------------------------------------------------
LEMMA PresenceTypeNext == PresenceTypeOK /\ [PresenceNext]_presenceVars => PresenceTypeOK'
<1> SUFFICES ASSUME PresenceTypeOK, [PresenceNext]_presenceVars PROVE PresenceTypeOK'
  OBVIOUS
<1> USE DEF PresenceTypeOK, PresenceCall
<1>1. ASSUME NEW d \in Drivers, LiveKeyExpires(d)
      PROVE  PresenceTypeOK'
  BY <1>1 DEF LiveKeyExpires
<1>2. ASSUME NEW s \in Calls, NEW d \in Drivers,
             GoLiveKey(s, d) \/ GoOfflineKey(s, d) \/ LocateRead(s, d)
      PROVE  PresenceTypeOK'
  BY <1>2 DEF GoLiveKey, GoOfflineKey, LocateRead, Begin
<1>3. ASSUME NEW s \in Calls, ListMembers(s)
      PROVE  PresenceTypeOK'
  BY <1>3 DEF ListMembers, Begin
<1>4. ASSUME NEW s \in Calls, Continue(s)
      PROVE  PresenceTypeOK'
  <2>1. CASE GoLiveSet(s)
    BY <2>1 DEF GoLiveSet, End, NoCall
  <2>2. CASE GoOfflineSet(s)
    BY <2>2 DEF GoOfflineSet, End, NoCall
  <2>3. CASE LocateWrite(s)
    BY <2>3 DEF LocateWrite, End, NoCall
  <2>4. CASE ListKeys(s)
    <3>1. call[s].ids \subseteq Drivers
      BY <2>4 DEF ListKeys, NoCall
    <3> QED
      BY <2>4, <3>1 DEF ListKeys, End
  <2>5. CASE ListPrune(s)
    BY <2>5 DEF ListPrune, End, NoCall
  <2> QED
    BY <1>4, <2>1, <2>2, <2>3, <2>4, <2>5 DEF Continue
<1>5. CASE UNCHANGED presenceVars
  BY <1>5 DEF presenceVars
<1> QED
  BY <1>1, <1>2, <1>3, <1>4, <1>5 DEF PresenceNext

(***************************************************************************)
(* Type correctness: keys, members and calls are of drivers of the site.   *)
(***************************************************************************)
THEOREM PresenceTypeCorrect == PresenceSpec => []PresenceTypeOK
<1>1. PresenceInit => PresenceTypeOK
  BY DEF PresenceInit, PresenceTypeOK, PresenceCall
<1> QED
  BY <1>1, PresenceTypeNext, PTL DEF PresenceSpec

-----------------------------------------------------------------------------
(* goOffline counts as the last word only if no goLive is on its way. *)
LEMMA LastWord ==
    ASSUME PresenceTypeOK, OfflineInv, NEW s \in Calls, GoOfflineSet(s)
    PROVE  OfflineInv'
<1> DEFINE d == call[s].driver
<1>1. call' = [call EXCEPT ![s] = NoCall]
  BY DEF GoOfflineSet, End
<1>2. OfflineNotListed'
  BY DEF GoOfflineSet, OfflineInv, OfflineNotListed
<1>3. ASSUME NEW t \in Calls, call'[t].op = "goLive"
      PROVE  call'[t].driver \notin off'
  <2>1. call'[t] = call[t]
    BY <1>1, <1>3 DEF PresenceTypeOK, NoCall
  <2>2. call[t] = [op |-> "goLive", driver |-> call[t].driver]
    BY <1>3, <2>1 DEF PresenceTypeOK, PresenceCall, NoCall
  <2>3. call[t].driver \notin off
    BY <1>3, <2>1 DEF OfflineInv, NotOnTheWay
  <2>4. call[t].driver = d => off' = off
    BY <2>2 DEF GoOfflineSet
  <2>5. off' \subseteq off \cup {d}
    BY DEF GoOfflineSet
  <2> QED
    BY <2>1, <2>3, <2>4, <2>5
<1> QED
  BY <1>2, <1>3 DEF OfflineInv, NotOnTheWay

LEMMA OfflineNext ==
    PresenceTypeOK /\ OfflineInv /\ [PresenceNext]_presenceVars => OfflineInv'
<1> SUFFICES ASSUME PresenceTypeOK, OfflineInv, [PresenceNext]_presenceVars
             PROVE  OfflineInv'
  OBVIOUS
<1> USE DEF OfflineInv, OfflineNotListed, NotOnTheWay
<1>1. ASSUME NEW d \in Drivers, LiveKeyExpires(d)
      PROVE  OfflineInv'
  BY <1>1 DEF LiveKeyExpires
<1>2. ASSUME NEW s \in Calls, NEW d \in Drivers, GoLiveKey(s, d)
      PROVE  OfflineInv'
  BY <1>2 DEF GoLiveKey, Begin, PresenceTypeOK
<1>3. ASSUME NEW s \in Calls, NEW d \in Drivers, GoOfflineKey(s, d) \/ LocateRead(s, d)
      PROVE  OfflineInv'
  BY <1>3 DEF GoOfflineKey, LocateRead, Begin, PresenceTypeOK
<1>4. ASSUME NEW s \in Calls, ListMembers(s)
      PROVE  OfflineInv'
  BY <1>4 DEF ListMembers, Begin, PresenceTypeOK
<1>5. ASSUME NEW s \in Calls, GoLiveSet(s)
      PROVE  OfflineInv'
  BY <1>5 DEF GoLiveSet, End, PresenceTypeOK, NoCall
<1>6. ASSUME NEW s \in Calls, GoOfflineSet(s)
      PROVE  OfflineInv'
  BY <1>6, LastWord
<1>7. ASSUME NEW s \in Calls, LocateWrite(s) \/ ListKeys(s) \/ ListPrune(s)
      PROVE  OfflineInv'
  BY <1>7 DEF LocateWrite, ListKeys, ListPrune, End, PresenceTypeOK, NoCall
<1>8. CASE UNCHANGED presenceVars
  BY <1>8 DEF presenceVars
<1> QED
  BY <1>1, <1>2, <1>3, <1>4, <1>5, <1>6, <1>7, <1>8 DEF PresenceNext, Continue

(***************************************************************************)
(* A driver who was told "You are now offline" is in no site's set, for    *)
(* any number of calls in progress and however their commands interleave   *)
(* with the keys that expire.                                              *)
(***************************************************************************)
THEOREM OfflineNeverListed == PresenceSpec => []OfflineNotListed
<1>1. PresenceInit => OfflineInv
  BY DEF PresenceInit, OfflineInv, OfflineNotListed, NotOnTheWay, NoCall
<1>2. PresenceInit => PresenceTypeOK
  BY DEF PresenceInit, PresenceTypeOK, PresenceCall
<1> QED
  BY <1>1, <1>2, PresenceTypeNext, OfflineNext, PTL DEF PresenceSpec, OfflineInv
=============================================================================
