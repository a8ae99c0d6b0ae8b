------------------------ MODULE Subscriptions_proofs ------------------------
(***************************************************************************)
(* Proofs about Subscriptions, for any number of plans, sessions, steps    *)
(* and handlers at a time, whatever is lost and in whatever order Stripe   *)
(* delivers.                                                               *)
(***************************************************************************)
EXTENDS Subscriptions, FiniteSetTheorems, TLAPS

EventTypes == {"checkout", "changed", "deleted", "paid", "failed", "released"}

(***************************************************************************)
(* What Stripe's objects satisfy beyond their types: a session has an      *)
(* offer, a schedule belongs to a subscription, and an event of a change   *)
(* tells of a subscription that has not ended.                             *)
(***************************************************************************)
GoodSub ==
    {x \in StripeSub :
        /\ x.status # "none" => x.plan \in Plans
        /\ x.sched # "none" => x.status # "none"
        /\ x.sched = "waiting" => x.target \in Plans}

GoodEvent ==
    {e \in Event : e.plan \in Plans /\ (e.type = "changed" => e.status \in LiveAtStripe)}

\* The row names an offer.
GoodRow ==
    {r \in Row :
        /\ r.status # "NONE" => r.plan \in Plans
        /\ r.sub # Null => r.status # "NONE"}

\* A schedule that is made is one of the subscription it is made for.
GoodCall ==
    {c \in Call :
        /\ c.op \in {"event", "stamp"} => c.event \in GoodEvent
        /\ c.op \in {"phases", "storeDowngrade"} => c.sched[1] = c.sub}

(***************************************************************************)
(* Handlers that found a row, and will set its status.  Rows are never     *)
(* deleted, so no other handler can prove them wrong.                      *)
(***************************************************************************)
FoundRow(c) ==
    \/ c.op \in {"cancel", "cancelStripe", "sweep"}
    \/ c.op = "clear" /\ c.next.op \in {"cancel", "cancelStripe"}
    \/ c.op = "event" /\ c.event.type = "changed" /\ c.match

SubsInv ==
    /\ row \in GoodRow
    /\ trialUsed \in BOOLEAN
    /\ sites \in Nat
    /\ stripe \in [Subs -> GoodSub]
    /\ events \in Seq(GoodEvent)
    /\ call \in [Slots -> GoodCall]
    /\ taken \in 0 .. MaxSteps
    /\ missed \subseteq Subs
    /\ \A s \in Slots : FoundRow(call[s]) => row.status # "NONE"

LEMMA Bounds == MaxSteps \in Nat
BY SubscriptionsAssumption

LEMMA TakenStays ==
    ASSUME SubsInv, Step \/ Error \/ UNCHANGED taken
    PROVE  taken' \in 0 .. MaxSteps
BY Bounds DEF SubsInv, Step, Error

-----------------------------------------------------------------------------
(* Kinds of handlers *)

CheckoutCall == [op: {"checkout"}, plan: Plans, trial: BOOLEAN]
DowngradeCall == [op: {"phases", "storeDowngrade"}, sub: Subs, plan: Plans, sched: Schedules]
ResumeCall == [op: {"resume", "storeResume"}, sub: Subs]
DropCall == [op: {"drop"}, sched: Schedules \cup {Null}]
ClearCall == [op: {"clear"}, next: {Idle} \cup ChangeCall \cup CancelCall]
EventCall == [op: {"event"}, event: Event, match: BOOLEAN, promote: Plans \cup {Null}]
StampCall == [op: {"stamp"}, event: Event]

(* What a handler in progress holds, by its kind. *)
LEMMA CallShape ==
    ASSUME NEW c \in Call
    PROVE  /\ c.op = "checkout" => c \in CheckoutCall
           /\ c.op \in {"change", "upgrade", "downgrade", "storeUpgrade"} => c \in ChangeCall
           /\ c.op \in {"phases", "storeDowngrade"} => c \in DowngradeCall
           /\ c.op \in {"cancel", "cancelStripe", "storeCancel"} => c \in CancelCall
           /\ c.op \in {"resume", "storeResume"} => c \in ResumeCall
           /\ c.op = "drop" => c \in DropCall
           /\ c.op = "clear" => c \in ClearCall
           /\ c.op = "event" => c \in EventCall
           /\ c.op = "stamp" => c \in StampCall
BY DEF Call, Idle, CheckoutCall, ChangeCall, DowngradeCall, CancelCall, ResumeCall,
       DropCall, ClearCall, EventCall, StampCall

(* ... and the other way round. *)
LEMMA CallKinds ==
    CheckoutCall \cup ChangeCall \cup DowngradeCall \cup CancelCall \cup ResumeCall
      \cup DropCall \cup ClearCall \cup EventCall \cup StampCall \cup {Idle} \subseteq Call
BY DEF Call, CheckoutCall, ChangeCall, DowngradeCall, CancelCall, ResumeCall,
       DropCall, ClearCall, EventCall, StampCall

LEMMA GoodKinds ==
    CheckoutCall \cup ChangeCall \cup CancelCall \cup ResumeCall \cup DropCall \cup ClearCall
      \cup {Idle} \subseteq GoodCall
<1>1. ASSUME NEW c \in CheckoutCall \cup ChangeCall \cup CancelCall \cup ResumeCall \cup DropCall
                        \cup ClearCall \cup {Idle}
      PROVE  c.op \notin {"event", "stamp", "phases", "storeDowngrade"}
  BY DEF CheckoutCall, ChangeCall, CancelCall, ResumeCall, DropCall, ClearCall, Idle
<1> QED
  BY <1>1, CallKinds DEF GoodCall

-----------------------------------------------------------------------------
(* What every step has to show *)

(* A step of the handler in slot s, which goes on as c. *)
LEMMA Moves ==
    ASSUME SubsInv, NEW s \in Slots, NEW c \in GoodCall, call' = [call EXCEPT ![s] = c],
           row' \in GoodRow, row.status # "NONE" => row'.status # "NONE",
           FoundRow(c) => row'.status # "NONE",
           stripe' \in [Subs -> GoodSub], events' \in Seq(GoodEvent), trialUsed' \in BOOLEAN,
           sites' \in Nat, taken' \in 0 .. MaxSteps, missed' \subseteq Subs
    PROVE  SubsInv'
<1>1. call' \in [Slots -> GoodCall] /\ \A t \in Slots : call'[t] = IF t = s THEN c ELSE call[t]
  BY DEF SubsInv
<1>2. ASSUME NEW t \in Slots, FoundRow(call[t])' PROVE row'.status # "NONE"
  <2>1. CASE t = s
    BY <1>1, <1>2, <2>1 DEF FoundRow
  <2>2. CASE t # s
    BY <1>1, <1>2, <2>2 DEF FoundRow, SubsInv
  <2> QED
    BY <2>1, <2>2
<1> QED
  BY <1>1, <1>2 DEF SubsInv

(* Stripe, time and repetitions. *)
LEMMA NobodyMoves ==
    ASSUME SubsInv, UNCHANGED <<call, sites, trialUsed, missed>>, taken' \in 0 .. MaxSteps,
           row' \in GoodRow, row.status # "NONE" => row'.status # "NONE",
           stripe' \in [Subs -> GoodSub], events' \in Seq(GoodEvent)
    PROVE  SubsInv'
BY DEF SubsInv, FoundRow

(* A handler that ends, having written what keeps the row. *)
LEMMA Ends ==
    ASSUME SubsInv, NEW s \in Slots, Finish(s),
           row' \in GoodRow, row.status # "NONE" => row'.status # "NONE",
           stripe' \in [Subs -> GoodSub], events' \in Seq(GoodEvent), trialUsed' \in BOOLEAN,
           sites' \in Nat, taken' \in 0 .. MaxSteps, missed' \subseteq Subs
    PROVE  SubsInv'
<1>1. Idle \in GoodCall /\ ~FoundRow(Idle)
  BY GoodKinds DEF FoundRow, Idle
<1>2. call' = [call EXCEPT ![s] = Idle]
  BY DEF Finish, Continue
<1> QED
  BY <1>1, <1>2, Moves

-----------------------------------------------------------------------------
(* Events *)

LEMMA EmitGood ==
    ASSUME NEW es \in Seq(GoodEvent), events = es, NEW x \in Subs, NEW was \in GoodSub,
           was.status # "none", NEW types \in Seq(EventTypes), Emit(x, was, types),
           \A n \in DOMAIN types : types[n] = "changed" => was.status \in LiveAtStripe
    PROVE  events' \in Seq(GoodEvent)
<1> DEFINE e(n) == [type |-> types[n], sub |-> x, status |-> was.status, plan |-> was.plan,
                    trial |-> was.status = "trialing", cancelling |-> was.cancelling,
                    scheds |-> was.scheds, marked |-> FALSE]
           new == [n \in DOMAIN types |-> e(n)]
<1>1. DOMAIN types = 1 .. Len(types) /\ Len(types) \in Nat /\ \A n \in DOMAIN types : types[n] \in EventTypes
  OBVIOUS
<1>2. ASSUME NEW n \in DOMAIN types PROVE e(n) \in GoodEvent
  <2>1. e(n) \in Event
    BY <1>1 DEF Event, EventTypes, GoodSub, StripeSub
  <2> QED
    BY <2>1 DEF GoodEvent, GoodSub
<1> HIDE DEF e
<1>3. new \in Seq(GoodEvent)
  BY <1>1, <1>2
<1>4. events' = es \o new
  BY DEF Emit, e
<1> QED
  BY <1>3, <1>4

(* What Stripe does to a subscription, and tells of it. *)
LEMMA SetsGood ==
    ASSUME SubsInv, NEW x \in Subs, NEW now \in GoodSub, now.status # "none",
           NEW types \in Seq(EventTypes), StripeSets(x, now, types),
           \A n \in DOMAIN types : types[n] = "changed" => now.status \in LiveAtStripe
    PROVE  stripe' \in [Subs -> GoodSub] /\ events' \in Seq(GoodEvent)
BY EmitGood DEF StripeSets, SubsInv

LEMMA RemoveAtGood ==
    ASSUME NEW es \in Seq(GoodEvent), NEW n \in DOMAIN es
    PROVE  RemoveAt(es, n) \in Seq(GoodEvent)
<1>1. SubSeq(es, 1, n - 1) \in Seq(GoodEvent) /\ SubSeq(es, n + 1, Len(es)) \in Seq(GoodEvent)
  OBVIOUS
<1> QED
  BY <1>1 DEF RemoveAt

-----------------------------------------------------------------------------
(* The invariant holds initially, and every action keeps it *)

LEMMA SubsInit == Init => SubsInv
<1> SUFFICES ASSUME Init PROVE SubsInv
  OBVIOUS
<1>1. row \in GoodRow
  <2>1. NoRow \in GoodRow
    BY DEF GoodRow, Row, NoRow
  <2>2. ASSUME NEW p \in LegacyPlans PROVE LocalTrial(p) \in GoodRow
    <3>1. p \in Plans
      BY SubscriptionsAssumption
    <3> QED
      BY <3>1 DEF GoodRow, Row, NoRow, LocalTrial, SubscriptionStatus
  <2> QED
    BY <2>1, <2>2 DEF Init
<1>2. stripe \in [Subs -> GoodSub]
  BY DEF Init, GoodSub, StripeSub, NoSub, StripeStatus
<1>3. events \in Seq(GoodEvent)
  BY DEF Init
<1>4. call \in [Slots -> GoodCall] /\ \A s \in Slots : ~FoundRow(call[s])
  BY GoodKinds DEF Init, FoundRow, Idle
<1>5. trialUsed \in BOOLEAN
  BY Zenon DEF Init
<1>6. sites \in Nat /\ taken \in 0 .. MaxSteps /\ missed \subseteq Subs
  BY Bounds DEF Init
<1> QED
  BY <1>1, <1>2, <1>3, <1>4, <1>5, <1>6 DEF SubsInv

LEMMA StripeTypes ==
    /\ NoSub \in GoodSub
    /\ \A x \in Subs : stripe[x] \in GoodSub /\ stripe[x].status # "none" => Canceled(x) \in GoodSub
<1>1. NoSub \in StripeSub
  BY DEF StripeSub, NoSub, StripeStatus
<1>2. NoSub \in GoodSub
  BY <1>1 DEF GoodSub, NoSub
<1>3. ASSUME NEW x \in Subs, stripe[x] \in GoodSub, stripe[x].status # "none"
      PROVE  Canceled(x) \in GoodSub
  <2>1. stripe[x].plan \in Plans
    BY <1>3 DEF GoodSub
  <2> QED
    BY <1>1, <2>1 DEF GoodSub, StripeSub, StripeStatus, NoSub, Canceled
<1> QED
  BY <1>2, <1>3

(* The steps of Stripe. *)
LEMMA StripeKeeps ==
    ASSUME SubsInv, StripeStep
    PROVE  SubsInv'
<1>1. taken' \in 0 .. MaxSteps
  <2>1. Step
    BY DEF StripeStep, CheckoutCompletes, CheckoutExpires, PortalCancels, PeriodEnds,
           PaymentRecovers, StripeGivesUp
  <2> QED
    BY <2>1, TakenStays
<1>2. PICK x \in Subs :
        \/ CheckoutCompletes(x) \/ CheckoutExpires(x) \/ PortalCancels(x)
        \/ \E paid \in BOOLEAN : PeriodEnds(x, paid)
        \/ PaymentRecovers(x) \/ StripeGivesUp(x)
  BY DEF StripeStep
<1> DEFINE Tells(now, types) ==
      /\ now \in GoodSub /\ now.status # "none"
      /\ types \in Seq(EventTypes)
      /\ \A n \in DOMAIN types : types[n] = "changed" => now.status \in LiveAtStripe
      /\ StripeSets(x, now, types)
<1>3. stripe[x] \in GoodSub /\ stripe[x].scheds \in Nat /\ stripe \in [Subs -> GoodSub]
  BY DEF SubsInv, GoodSub, StripeSub
<1>4. row \in GoodRow /\ events \in Seq(GoodEvent) /\ sites \in Nat /\ trialUsed \in BOOLEAN
  BY DEF SubsInv
<1>6. ASSUME NEW now, NEW types, Tells(now, types),
             row' \in GoodRow, row'.status = row.status,
             UNCHANGED <<trialUsed, sites, call, missed>>
      PROVE  SubsInv'
  <2>1. stripe' \in [Subs -> GoodSub] /\ events' \in Seq(GoodEvent)
    BY <1>6, SetsGood
  <2> QED
    BY <1>1, <1>6, <2>1, NobodyMoves
<1>7. CASE CheckoutCompletes(x)
  <2> DEFINE now == [stripe[x] EXCEPT !.status = IF @ = "openTrial" THEN "trialing" ELSE "active"]
  <2>1. now \in GoodSub /\ now.status \in LiveAtStripe
    BY <1>3, <1>7 DEF CheckoutCompletes, GoodSub, StripeSub, StripeStatus, LiveAtStripe
  <2>2. <<"changed", "paid", "checkout">> \in Seq(EventTypes)
    BY DEF EventTypes
  <2>3. StripeSets(x, now, <<"changed", "paid", "checkout">>)
    BY <1>7 DEF CheckoutCompletes
  <2>4. Tells(now, <<"changed", "paid", "checkout">>)
    BY <1>3, <2>1, <2>2, <2>3 DEF LiveAtStripe
  <2> HIDE DEF now, Tells
  <2> QED
    BY <1>4, <1>6, <1>7, <2>4 DEF CheckoutCompletes
<1>8. CASE CheckoutExpires(x)
  <2>1. stripe' \in [Subs -> GoodSub]
    BY <1>3, <1>8, StripeTypes DEF CheckoutExpires
  <2> QED
    BY <1>1, <1>4, <1>8, <2>1, NobodyMoves DEF CheckoutExpires
<1>9. CASE PortalCancels(x)
  <2> DEFINE now == [stripe[x] EXCEPT !.cancelling = TRUE]
  <2>1. now \in GoodSub /\ now.status \in LiveAtStripe
    BY <1>3, <1>9 DEF PortalCancels, GoodSub, StripeSub
  <2>2. StripeSets(x, now, <<"changed">>) /\ <<"changed">> \in Seq(EventTypes)
    BY <1>9 DEF PortalCancels, EventTypes
  <2>3. Tells(now, <<"changed">>)
    BY <1>3, <2>1, <2>2 DEF LiveAtStripe
  <2> HIDE DEF now, Tells
  <2> QED
    BY <1>4, <1>6, <1>9, <2>3 DEF PortalCancels
<1>10. ASSUME NEW paid \in BOOLEAN, PeriodEnds(x, paid) PROVE SubsInv'
  <2>1. row' \in GoodRow /\ row'.status = row.status
    BY <1>4, <1>10 DEF PeriodEnds, GoodRow, Row
  <2>2. stripe[x].status \in {"trialing", "active"} /\ UNCHANGED <<trialUsed, sites, call, missed>>
    BY <1>10 DEF PeriodEnds
  <2>3. CASE stripe[x].cancelling
    <3>1. Canceled(x) \in GoodSub /\ Canceled(x).status = "canceled"
      BY <1>3, <2>2, StripeTypes DEF Canceled, NoSub
    <3>2. StripeSets(x, Canceled(x), <<"deleted">>) /\ <<"deleted">> \in Seq(EventTypes)
      BY <1>10, <2>3 DEF PeriodEnds, EventTypes
    <3>3. Tells(Canceled(x), <<"deleted">>)
      BY <1>3, <3>1, <3>2
    <3> HIDE DEF Tells
    <3> QED
      BY <1>6, <2>1, <2>2, <3>3
  <2>4. CASE ~stripe[x].cancelling
    <3> DEFINE next == CASE stripe[x].sched = "waiting" -> "ending" [] OTHER -> "none"
               now == [stripe[x] EXCEPT
                          !.status = IF paid THEN "active" ELSE "past_due",
                          !.plan = IF stripe[x].sched = "waiting" THEN stripe[x].target ELSE @,
                          !.target = Null,
                          !.sched = next]
               types == <<"changed", IF paid THEN "paid" ELSE "failed">>
                           \o (IF stripe[x].sched = "ending" THEN <<"released">> ELSE <<>>)
    <3>1. now \in GoodSub /\ now.status \in LiveAtStripe
      BY <1>3, <2>2 DEF GoodSub, StripeSub, StripeStatus, LiveAtStripe
    <3>2. types \in Seq(EventTypes)
      <4>1. <<"changed", IF paid THEN "paid" ELSE "failed">> \in Seq(EventTypes)
        BY DEF EventTypes
      <4>2. <<"released">> \in Seq(EventTypes) /\ <<>> \in Seq(EventTypes)
        BY DEF EventTypes
      <4>3. (IF stripe[x].sched = "ending" THEN <<"released">> ELSE <<>>) \in Seq(EventTypes)
        BY <4>2
      <4> QED
        BY <4>1, <4>3
    <3>3. StripeSets(x, now, types)
      BY <1>10, <2>4 DEF PeriodEnds
    <3> HIDE DEF now, types
    <3>4. Tells(now, types)
      BY <1>3, <3>1, <3>2, <3>3 DEF LiveAtStripe
    <3> HIDE DEF Tells
    <3> QED
      BY <1>6, <2>1, <2>2, <3>4
  <2> QED
    BY <2>3, <2>4
<1>11. CASE PaymentRecovers(x)
  <2> DEFINE now == [stripe[x] EXCEPT !.status = "active"]
  <2>1. now \in GoodSub /\ now.status \in LiveAtStripe
    BY <1>3, <1>11 DEF PaymentRecovers, GoodSub, StripeSub, StripeStatus, LiveAtStripe
  <2>2. StripeSets(x, now, <<"paid", "changed">>) /\ <<"paid", "changed">> \in Seq(EventTypes)
    BY <1>11 DEF PaymentRecovers, EventTypes
  <2>3. Tells(now, <<"paid", "changed">>)
    BY <1>3, <2>1, <2>2 DEF LiveAtStripe
  <2> HIDE DEF now, Tells
  <2> QED
    BY <1>4, <1>6, <1>11, <2>3 DEF PaymentRecovers
<1>12. CASE StripeGivesUp(x)
  <2>1. Canceled(x) \in GoodSub /\ Canceled(x).status = "canceled"
    BY <1>3, <1>12, StripeTypes DEF StripeGivesUp, Canceled, NoSub
  <2>2. StripeSets(x, Canceled(x), <<"deleted">>) /\ <<"deleted">> \in Seq(EventTypes)
    BY <1>12 DEF StripeGivesUp, EventTypes
  <2>3. Tells(Canceled(x), <<"deleted">>)
    BY <1>3, <2>1, <2>2
  <2> HIDE DEF Tells
  <2> QED
    BY <1>4, <1>6, <1>12, <2>3 DEF StripeGivesUp
<1> QED
  BY <1>2, <1>7, <1>8, <1>9, <1>10, <1>11, <1>12

LEMMA TrialLapsesKeeps ==
    ASSUME SubsInv, TrialLapses
    PROVE  SubsInv'
<1>1. row' \in GoodRow /\ row'.status = row.status
  BY DEF SubsInv, TrialLapses, GoodRow, Row
<1> QED
  BY <1>1, NobodyMoves DEF SubsInv, TrialLapses

LEMMA DuplicateKeeps ==
    ASSUME SubsInv, NEW n \in DOMAIN events, Duplicate(n)
    PROVE  SubsInv'
<1>1. events' \in Seq(GoodEvent)
  BY RemoveAtGood DEF SubsInv, Duplicate
<1> QED
  BY <1>1, NobodyMoves DEF SubsInv, Duplicate

LEMMA LostKeeps ==
    ASSUME SubsInv, NEW s \in Slots, NEW n \in DOMAIN events, Lost(s, n)
    PROVE  SubsInv'
<1>1. events' \in Seq(GoodEvent)
  BY RemoveAtGood DEF SubsInv, Lost
<1>2. missed' \subseteq Subs
  <2>1. events[n] \in GoodEvent
    BY DEF SubsInv
  <2> QED
    BY <2>1 DEF SubsInv, Lost, GoodEvent, Event
<1>3. taken' \in 0 .. MaxSteps
  BY TakenStays DEF Lost
<1> QED
  BY <1>1, <1>2, <1>3 DEF SubsInv, Lost, FoundRow

-----------------------------------------------------------------------------
(* Requests that begin. *)
LEMMA RequestKeeps ==
    ASSUME SubsInv, NEW s \in Slots, Request(s) \/ SweepStart(s)
    PROVE  SubsInv'
<1>1. taken' \in 0 .. MaxSteps
  BY TakenStays DEF Request, CheckoutStart, ChangeStart, CancelStart, DropStart, ResumeStart,
                    AddSiteStart, SweepStart
<1>2. row \in GoodRow /\ sites \in Nat /\ trialUsed \in BOOLEAN /\ stripe \in [Subs -> GoodSub]
      /\ events \in Seq(GoodEvent) /\ missed \subseteq Subs
  BY DEF SubsInv
<1>3. UNCHANGED <<row, trialUsed, sites, stripe, events, missed>>
  BY DEF Request, CheckoutStart, ChangeStart, CancelStart, DropStart, ResumeStart,
         AddSiteStart, SweepStart
<1>4. ASSUME NEW c \in GoodCall, Start(s, c), FoundRow(c) => row.status # "NONE" PROVE SubsInv'
  BY <1>1, <1>2, <1>3, <1>4, Moves DEF Start
<1>5. ASSUME NEW p \in Plans, NEW trial \in BOOLEAN, CheckoutStart(s, p, trial) PROVE SubsInv'
  <2> DEFINE c == [op |-> "checkout", plan |-> p, trial |-> trial]
  <2>1. c \in GoodCall
    BY GoodKinds DEF CheckoutCall
  <2>2. ~FoundRow(c)
    BY DEF FoundRow
  <2> QED
    BY <1>4, <1>5, <2>1, <2>2 DEF CheckoutStart
<1>6. ASSUME NEW p \in Plans, ChangeStart(s, p) PROVE SubsInv'
  <2> DEFINE c == [op |-> "change", sub |-> row.sub, plan |-> p, up |-> p > row.plan,
                   sched |-> row.sched]
  <2>1. row.sub \in Subs /\ row.sched \in Schedules \cup {Null} /\ (p > row.plan) \in BOOLEAN
    BY <1>2, <1>6 DEF ChangeStart, LiveRow, GoodRow, Row
  <2>2. c \in GoodCall
    BY <2>1, GoodKinds DEF ChangeCall
  <2>3. ~FoundRow(c)
    BY DEF FoundRow
  <2> QED
    BY <1>4, <1>6, <2>2, <2>3 DEF ChangeStart
<1>7. CASE CancelStart(s)
  <2> DEFINE c == [op |-> "cancel", sub |-> row.sub, sched |-> row.sched]
  <2>1. c \in GoodCall
    BY <1>2, GoodKinds DEF CancelCall, GoodRow, Row
  <2> QED
    BY <1>4, <1>7, <2>1 DEF CancelStart
<1>8. CASE DropStart(s)
  <2> DEFINE c == [op |-> "drop", sched |-> row.sched]
  <2>1. c \in GoodCall
    BY <1>2, GoodKinds DEF DropCall, GoodRow, Row
  <2>2. ~FoundRow(c)
    BY DEF FoundRow
  <2> QED
    BY <1>4, <1>8, <2>1, <2>2 DEF DropStart
<1>9. CASE ResumeStart(s)
  <2> DEFINE c == [op |-> "resume", sub |-> row.sub]
  <2>1. c \in GoodCall
    BY <1>2, <1>9, GoodKinds DEF ResumeCall, ResumeStart, GoodRow, Row
  <2>2. ~FoundRow(c)
    BY DEF FoundRow
  <2> QED
    BY <1>4, <1>9, <2>1, <2>2 DEF ResumeStart
<1>10. CASE AddSiteStart(s)
  <2>1. [op |-> "addSite"] \in GoodCall /\ ~FoundRow([op |-> "addSite"])
    BY DEF GoodCall, Call, FoundRow
  <2> QED
    BY <1>4, <1>10, <2>1 DEF AddSiteStart
<1>11. CASE SweepStart(s)
  <2>1. [op |-> "sweep"] \in GoodCall
    BY DEF GoodCall, Call
  <2>2. row.status # "NONE"
    BY <1>11 DEF SweepStart, LapsedTrial
  <2> QED
    BY <1>4, <1>11, <2>1, <2>2 DEF SweepStart
<1> QED
  BY <1>5, <1>6, <1>7, <1>8, <1>9, <1>10, <1>11 DEF Request

(* An event that is delivered: resolveSubscriptionRow sees the row. *)
LEMMA DeliverKeeps ==
    ASSUME SubsInv, NEW s \in Slots, NEW n \in DOMAIN events, Deliver(s, n)
    PROVE  SubsInv'
<1> DEFINE e == events[n]
           c == [op |-> "event", event |-> e,
                 match |-> IF e.type = "changed" THEN Resolves(e.sub) ELSE row.sub = e.sub,
                 promote |-> PlanLanded]
<1>1. e \in GoodEvent /\ row \in GoodRow
  BY DEF SubsInv
<1>2. c \in GoodCall
  <2>1. c \in Call
    BY <1>1, CallKinds DEF EventCall, GoodEvent, PlanLanded, GoodRow, Row, Resolves
  <2> QED
    BY <1>1, <2>1 DEF GoodCall
<1>3. FoundRow(c) => row.status # "NONE"
  BY DEF FoundRow, Resolves
<1>4. call' = [call EXCEPT ![s] = c] /\ UNCHANGED <<row, trialUsed, sites, stripe, taken, missed>>
      /\ events' = RemoveAt(events, n)
  BY DEF Deliver, Start
<1> HIDE DEF c
<1>5. events' \in Seq(GoodEvent)
  BY <1>4, RemoveAtGood DEF SubsInv
<1> QED
  BY <1>1, <1>2, <1>3, <1>4, <1>5, Moves DEF SubsInv

-----------------------------------------------------------------------------
(* Requests that go on.  Each of the lemmas is about a slot whose request   *)
(* is at that step.                                                         *)

LEMMA CallIs ==
    ASSUME SubsInv, NEW s \in Slots
    PROVE  call[s] \in Call /\ call[s] \in GoodCall /\ (FoundRow(call[s]) => row.status # "NONE")
BY DEF SubsInv, GoodCall

LEMMA CheckoutOpensKeeps ==
    ASSUME SubsInv, NEW s \in Slots, CheckoutOpens(s)
    PROVE  SubsInv'
<1>1. call[s] \in CheckoutCall
  BY CallIs, CallShape DEF CheckoutOpens
<1>2. PICK x \in Subs :
        stripe' = [stripe EXCEPT ![x] =
                [NoSub EXCEPT !.status = IF call[s].trial THEN "openTrial" ELSE "openPaid",
                              !.plan = call[s].plan]]
  BY DEF CheckoutOpens
<1>3. [NoSub EXCEPT !.status = IF call[s].trial THEN "openTrial" ELSE "openPaid",
                    !.plan = call[s].plan] \in GoodSub
  <2>1. NoSub \in StripeSub
    BY StripeTypes DEF GoodSub
  <2> QED
    BY <1>1, <2>1 DEF CheckoutCall, GoodSub, StripeSub, StripeStatus, NoSub
<1>4. stripe' \in [Subs -> GoodSub]
  BY <1>2, <1>3 DEF SubsInv
<1> QED
  BY <1>4, Ends DEF SubsInv, CheckoutOpens

(* A row without a pending change, and what is kept of the rest. *)
LEMMA NoPendingGood ==
    ASSUME NEW r \in GoodRow
    PROVE  /\ NoPending(r) \in GoodRow
           /\ NoPending(r).sub = r.sub /\ NoPending(r).status = r.status
           /\ NoPending(r).sched = Null
BY DEF GoodRow, Row, NoPending

LEMMA ReleaseKeeps ==
    ASSUME SubsInv, NEW s \in Slots, ReleaseAtStripe(s)
    PROVE  SubsInv'
<1> DEFINE c == call[s]
           sc == c.sched
           next == [op |-> "clear", next |-> AfterRelease(c)]
<1>1. /\ c.op \in {"change", "cancel", "drop"}
      /\ c.op = "change" => c \in ChangeCall
      /\ c.op = "cancel" => c \in CancelCall
      /\ c.op = "drop" => c \in DropCall
      /\ c.op = "cancel" => row.status # "NONE"
  BY CallIs, CallShape DEF ReleaseAtStripe, FoundRow
<1>2. sc \in Schedules \cup {Null}
  BY <1>1 DEF ChangeCall, CancelCall, DropCall
<1>3. stripe' \in [Subs -> GoodSub] /\ events' \in Seq(GoodEvent)
  <2>1. CASE /\ StillAttached(sc)
             /\ StripeSets(sc[1], [stripe[sc[1]] EXCEPT !.sched = "none", !.target = Null],
                           <<"released">>)
    <3> DEFINE now == [stripe[sc[1]] EXCEPT !.sched = "none", !.target = Null]
    <3>1. sc[1] \in Subs /\ stripe[sc[1]] \in GoodSub /\ stripe[sc[1]].sched # "none"
      BY <1>2, <2>1 DEF StillAttached, Schedules, SubsInv
    <3>2. now \in GoodSub /\ now.status # "none"
      BY <3>1 DEF GoodSub, StripeSub
    <3>3. StripeSets(sc[1], now, <<"released">>) /\ <<"released">> \in Seq(EventTypes)
      BY <2>1 DEF EventTypes
    <3> HIDE DEF now
    <3>4. \A n \in DOMAIN <<"released">> : <<"released">>[n] # "changed"
      OBVIOUS
    <3> HIDE DEF sc
    <3> QED
      BY <3>1, <3>2, <3>3, <3>4, SetsGood
  <2>2. CASE UNCHANGED <<stripe, events>>
    BY <2>2 DEF SubsInv
  <2> QED
    BY <2>1, <2>2 DEF ReleaseAtStripe
<1>4. call' = [call EXCEPT ![s] = next] /\ UNCHANGED <<row, trialUsed, sites, missed>>
  BY DEF ReleaseAtStripe, Continue
<1>5. AfterRelease(c) \in {Idle} \cup ChangeCall \cup CancelCall
      /\ (AfterRelease(c).op \in {"cancel", "cancelStripe"} => row.status # "NONE")
  <2>1. CASE c.op = "change"
    BY <1>1, <2>1 DEF AfterRelease, ChangeCall
  <2>2. CASE c.op = "cancel"
    BY <1>1, <2>2 DEF AfterRelease, CancelCall
  <2>3. CASE c.op = "drop"
    BY <2>3 DEF AfterRelease, Idle
  <2> QED
    BY <1>1, <2>1, <2>2, <2>3
<1> HIDE DEF c
<1>6. next \in GoodCall
  BY <1>5, GoodKinds DEF ClearCall
<1>7. FoundRow(next) => row.status # "NONE"
  BY <1>5 DEF FoundRow
<1>8. taken' \in 0 .. MaxSteps
  BY TakenStays DEF ReleaseAtStripe
<1> HIDE DEF next
<1> QED
  BY <1>3, <1>4, <1>6, <1>7, <1>8, Moves DEF SubsInv

LEMMA ClearKeeps ==
    ASSUME SubsInv, NEW s \in Slots, ClearPending(s)
    PROVE  SubsInv'
<1>1. call[s] \in ClearCall /\ (call[s].next.op \in {"cancel", "cancelStripe"} => row.status # "NONE")
  BY CallIs, CallShape DEF ClearPending, FoundRow
<1>2. call[s].next \in {Idle} \cup ChangeCall \cup CancelCall
  BY <1>1 DEF ClearCall
<1>3. row' \in GoodRow /\ row'.status = row.status
  BY NoPendingGood DEF SubsInv, ClearPending
<1>4. call' = [call EXCEPT ![s] = call[s].next]
      /\ UNCHANGED <<trialUsed, sites, stripe, events, taken, missed>>
  BY DEF ClearPending, Continue
<1>5. call[s].next \in GoodCall
  BY <1>2, GoodKinds
<1>6. FoundRow(call[s].next) => row.status # "NONE"
  <2>1. call[s].next.op \notin {"sweep", "clear", "event"}
    BY <1>2 DEF ChangeCall, CancelCall, Idle
  <2> QED
    BY <1>1, <2>1 DEF FoundRow
<1> QED
  BY <1>3, <1>4, <1>5, <1>6, Moves DEF SubsInv

LEMMA UpgradeKeeps ==
    ASSUME SubsInv, NEW s \in Slots, UpgradeAtStripe(s)
    PROVE  SubsInv'
<1> DEFINE x == call[s].sub
<1>1. call[s] \in ChangeCall /\ x \in Subs /\ stripe[x] \in GoodSub
  <2>1. call[s] \in ChangeCall
    BY CallIs, CallShape DEF UpgradeAtStripe
  <2> QED
    BY <2>1 DEF SubsInv, ChangeCall
<1>2. CASE Finish(s) /\ UNCHANGED <<stripe, events, row, trialUsed, sites, taken, missed>>
  BY <1>2, Ends DEF SubsInv
<1>3. ASSUME NEW paid \in BOOLEAN,
             stripe[x].status \in LiveAtStripe,
             StripeSets(x, [stripe[x] EXCEPT !.status = IF paid THEN "active" ELSE "past_due",
                                             !.plan = call[s].plan],
                        <<"changed", IF paid THEN "paid" ELSE "failed">>),
             Continue(s, [call[s] EXCEPT !.op = "storeUpgrade"]),
             UNCHANGED <<row, trialUsed, sites, taken, missed>>
      PROVE  SubsInv'
  <2> DEFINE now == [stripe[x] EXCEPT !.status = IF paid THEN "active" ELSE "past_due",
                                      !.plan = call[s].plan]
             types == <<"changed", IF paid THEN "paid" ELSE "failed">>
             c == [call[s] EXCEPT !.op = "storeUpgrade"]
  <2>1. now \in GoodSub /\ now.status \in LiveAtStripe
    BY <1>1, <1>3 DEF GoodSub, StripeSub, StripeStatus, LiveAtStripe, ChangeCall
  <2>2. types \in Seq(EventTypes)
    BY DEF EventTypes
  <2>3. StripeSets(x, now, types)
    BY <1>3
  <2>4. c \in GoodCall /\ c.op = "storeUpgrade"
    BY <1>1, GoodKinds DEF ChangeCall
  <2>5. call' = [call EXCEPT ![s] = c]
    BY <1>3 DEF Continue
  <2> HIDE DEF now, types, c, x
  <2>6. stripe' \in [Subs -> GoodSub] /\ events' \in Seq(GoodEvent)
    BY <1>1, <2>1, <2>2, <2>3, SetsGood DEF LiveAtStripe
  <2>7. ~FoundRow(c)
    BY <2>4 DEF FoundRow
  <2> QED
    BY <1>3, <2>4, <2>5, <2>6, <2>7, Moves DEF SubsInv
<1> QED
  BY <1>2, <1>3 DEF UpgradeAtStripe

LEMMA StoreUpgradeKeeps ==
    ASSUME SubsInv, NEW s \in Slots, StoreUpgrade(s)
    PROVE  SubsInv'
<1>1. call[s] \in ChangeCall
  BY CallIs, CallShape DEF StoreUpgrade
<1>2. row' \in GoodRow /\ row'.status = row.status
  BY <1>1 DEF SubsInv, StoreUpgrade, GoodRow, Row, ChangeCall
<1> QED
  BY <1>2, Ends DEF SubsInv, StoreUpgrade

LEMMA CreateKeeps ==
    ASSUME SubsInv, NEW s \in Slots, CreateSchedule(s)
    PROVE  SubsInv'
<1> DEFINE x == call[s].sub
           n == stripe[x].scheds + 1
           c == [op |-> "phases", sub |-> x, plan |-> call[s].plan, sched |-> <<x, n>>]
<1>1. call[s] \in ChangeCall /\ x \in Subs /\ call[s].plan \in Plans /\ stripe[x] \in GoodSub
  <2>1. call[s] \in ChangeCall
    BY CallIs, CallShape DEF CreateSchedule
  <2> QED
    BY <2>1 DEF SubsInv, ChangeCall
<1>2. n \in Nat
  BY <1>1 DEF GoodSub, StripeSub
<1>3. CASE stripe[x].sched = "none" /\ stripe[x].status \in LiveAtStripe
  <2>1. [stripe[x] EXCEPT !.sched = "ending", !.scheds = n] \in GoodSub
    <3>1. stripe[x].status # "none"
      BY <1>3 DEF LiveAtStripe
    <3> HIDE DEF n, x
    <3> QED
      BY <1>1, <1>2, <3>1 DEF GoodSub, StripeSub
  <2>2. stripe' \in [Subs -> GoodSub]
    <3>1. stripe' = [stripe EXCEPT ![x].sched = "ending", ![x].scheds = n]
      BY <1>3 DEF CreateSchedule
    <3>2. stripe' = [stripe EXCEPT ![x] = [stripe[x] EXCEPT !.sched = "ending", !.scheds = n]]
      BY <1>1, <3>1 DEF SubsInv
    <3> HIDE DEF n, x
    <3> QED
      BY <2>1, <3>2 DEF SubsInv
  <2>3. c \in Call /\ c.op = "phases" /\ c.sched[1] = c.sub
    BY <1>1, <1>2, CallKinds DEF DowngradeCall, Schedules
  <2>4. call' = [call EXCEPT ![s] = c] /\ UNCHANGED <<row, trialUsed, sites, events, taken, missed>>
    BY <1>3 DEF CreateSchedule, Continue
  <2> HIDE DEF c
  <2>5. c \in GoodCall /\ ~FoundRow(c)
    BY <2>3 DEF GoodCall, FoundRow
  <2> QED
    BY <2>2, <2>4, <2>5, Moves DEF SubsInv
<1>4. CASE ~(stripe[x].sched = "none" /\ stripe[x].status \in LiveAtStripe)
  BY <1>4, Ends DEF SubsInv, CreateSchedule
<1> QED
  BY <1>3, <1>4

LEMMA PhasesKeeps ==
    ASSUME SubsInv, NEW s \in Slots, SetPhases(s)
    PROVE  SubsInv'
<1> DEFINE c == call[s]
           next == [c EXCEPT !.op = "storeDowngrade"]
<1>1. c \in DowngradeCall /\ c.sub \in Subs /\ c.plan \in Plans /\ stripe[c.sub] \in GoodSub
      /\ c.sched[1] = c.sub
  <2>1. c \in DowngradeCall /\ c.op = "phases"
    BY CallIs, CallShape DEF SetPhases
  <2>2. c.sched[1] = c.sub
    BY <2>1, CallIs DEF GoodCall
  <2> QED
    BY <2>1, <2>2 DEF SubsInv, DowngradeCall
<1>2. taken' \in 0 .. MaxSteps
  BY TakenStays DEF SetPhases
<1>3. UNCHANGED <<row, trialUsed, sites, events, missed>>
  BY DEF SetPhases
<1>4. CASE /\ StillAttached(c.sched)
           /\ stripe' = [stripe EXCEPT ![c.sub].sched = "waiting", ![c.sub].target = c.plan]
           /\ Continue(s, next)
  <2>1. stripe[c.sub].sched # "none"
    BY <1>1, <1>4 DEF StillAttached
  <2>2. [stripe[c.sub] EXCEPT !.sched = "waiting", !.target = c.plan] \in GoodSub
    BY <1>1, <2>1 DEF GoodSub, StripeSub
  <2>3. stripe' = [stripe EXCEPT ![c.sub] = [stripe[c.sub] EXCEPT !.sched = "waiting", !.target = c.plan]]
    BY <1>1, <1>4 DEF SubsInv
  <2>4. stripe' \in [Subs -> GoodSub]
    BY <2>2, <2>3 DEF SubsInv
  <2>5. next \in Call /\ next.op = "storeDowngrade" /\ next.sched[1] = next.sub
    BY <1>1, CallKinds DEF DowngradeCall
  <2>6. call' = [call EXCEPT ![s] = next]
    BY <1>4 DEF Continue
  <2> HIDE DEF next, c
  <2>7. next \in GoodCall /\ ~FoundRow(next)
    BY <2>5 DEF GoodCall, FoundRow
  <2> QED
    BY <1>2, <1>3, <2>4, <2>6, <2>7, Moves DEF SubsInv
<1>5. CASE Finish(s) /\ UNCHANGED stripe
  BY <1>2, <1>3, <1>5, Ends DEF SubsInv
<1> QED
  BY <1>4, <1>5 DEF SetPhases

LEMMA StoreDowngradeKeeps ==
    ASSUME SubsInv, NEW s \in Slots, StoreDowngrade(s)
    PROVE  SubsInv'
<1>1. call[s] \in DowngradeCall
  BY CallIs, CallShape DEF StoreDowngrade
<1>2. row' \in GoodRow /\ row'.status = row.status
  BY <1>1 DEF SubsInv, StoreDowngrade, GoodRow, Row, DowngradeCall
<1> QED
  BY <1>2, Ends DEF SubsInv, StoreDowngrade

LEMMA StoresKeep ==
    ASSUME SubsInv, NEW s \in Slots, CancelLocal(s) \/ StoreCancel(s) \/ StoreResume(s) \/ SweepWrite(s)
    PROVE  SubsInv'
<1>1. row \in GoodRow /\ (call[s].op \in {"cancelStripe", "sweep"} => row.status # "NONE")
  BY CallIs DEF SubsInv, FoundRow
<1>2. row' \in GoodRow /\ (row.status # "NONE" => row'.status # "NONE")
  BY <1>1 DEF CancelLocal, StoreCancel, StoreResume, SweepWrite, GoodRow, Row, SubscriptionStatus
<1> QED
  BY <1>2, Ends DEF SubsInv, CancelLocal, StoreCancel, StoreResume, SweepWrite

(* The flag that is set or cleared at Stripe. *)
LEMMA FlagKeeps ==
    ASSUME SubsInv, NEW s \in Slots, CancelAtStripe(s) \/ ResumeAtStripe(s)
    PROVE  SubsInv'
<1> DEFINE x == call[s].sub
           to == call[s].op = "cancelStripe"
           now == [stripe[x] EXCEPT !.cancelling = to]
           c == [call[s] EXCEPT !.op = IF to THEN "storeCancel" ELSE "storeResume"]
<1>1. /\ x \in Subs /\ stripe[x] \in GoodSub
      /\ call[s].op = "cancelStripe" => call[s] \in CancelCall
      /\ call[s].op = "resume" => call[s] \in ResumeCall
      /\ call[s].op \in {"cancelStripe", "resume"}
  <2>1. /\ call[s].op = "cancelStripe" => call[s] \in CancelCall /\ x # Null
        /\ call[s].op = "resume" => call[s] \in ResumeCall
        /\ call[s].op \in {"cancelStripe", "resume"}
    BY CallIs, CallShape DEF CancelAtStripe, ResumeAtStripe
  <2>2. x \in Subs
    BY <2>1 DEF CancelCall, ResumeCall
  <2> QED
    BY <2>1, <2>2 DEF SubsInv
<1>2. CASE FlagSettable(x)
  <2>1. now \in GoodSub /\ now.status \in LiveAtStripe
    BY <1>1, <1>2 DEF FlagSettable, GoodSub, StripeSub
  <2>2. StripeSets(x, now, <<"changed">>) /\ <<"changed">> \in Seq(EventTypes)
    <3>1. CASE call[s].op = "cancelStripe"
      <4>1. now = [stripe[x] EXCEPT !.cancelling = TRUE]
        BY <3>1
      <4> QED
        BY <1>2, <3>1, <4>1 DEF CancelAtStripe, ResumeAtStripe, EventTypes
    <3>2. CASE call[s].op = "resume"
      <4>1. now = [stripe[x] EXCEPT !.cancelling = FALSE]
        BY <3>2
      <4> QED
        BY <1>2, <3>2, <4>1 DEF CancelAtStripe, ResumeAtStripe, EventTypes
    <3> QED
      BY <1>1, <3>1, <3>2
  <2>3. c \in GoodCall /\ c.op \in {"storeCancel", "storeResume"}
    BY <1>1, GoodKinds DEF CancelCall, ResumeCall
  <2>4. call' = [call EXCEPT ![s] = c] /\ UNCHANGED <<row, trialUsed, sites, taken, missed>>
    BY <1>2 DEF CancelAtStripe, ResumeAtStripe, Continue
  <2> HIDE DEF now, c, x
  <2>5. stripe' \in [Subs -> GoodSub] /\ events' \in Seq(GoodEvent)
    BY <1>1, <2>1, <2>2, SetsGood DEF LiveAtStripe
  <2>6. ~FoundRow(c)
    BY <2>3 DEF FoundRow
  <2> QED
    BY <2>3, <2>4, <2>5, <2>6, Moves DEF SubsInv
<1>3. CASE ~FlagSettable(x)
  BY <1>3, Ends DEF SubsInv, CancelAtStripe, ResumeAtStripe
<1> QED
  BY <1>2, <1>3

LEMMA AddSiteKeeps ==
    ASSUME SubsInv, NEW s \in Slots, AddSite(s)
    PROVE  SubsInv'
<1>1. sites' \in Nat
  BY DEF SubsInv, AddSite
<1> QED
  BY <1>1, Ends DEF SubsInv, AddSite

-----------------------------------------------------------------------------
(* The webhook *)

LEMMA AcknowledgeGood ==
    ASSUME SubsInv, NEW s \in Slots, NEW e \in GoodEvent, Acknowledge(s, e)
    PROVE  events' \in Seq(GoodEvent) /\ Finish(s)
<1>1. [e EXCEPT !.marked = TRUE] \in GoodEvent
  BY DEF GoodEvent, Event
<1> QED
  BY <1>1, SMTT(60) DEF Acknowledge, SubsInv

LEMMA WebhookCall ==
    ASSUME SubsInv, NEW s \in Slots, call[s].op \in {"event", "stamp"}
    PROVE  call[s].event \in GoodEvent
BY DEF SubsInv, GoodCall

(* What an event leaves in the row. *)
LEMMA RowAfterGood ==
    ASSUME NEW e \in GoodEvent, NEW match \in BOOLEAN, NEW promote \in Plans \cup {Null},
           row \in GoodRow, e.type = "changed" /\ match => row.status # "NONE"
    PROVE  /\ RowAfter(e, match, promote) \in GoodRow
           /\ row.status # "NONE" => RowAfter(e, match, promote).status # "NONE"
<1>1. e.sub \in Subs /\ e.sub # Null /\ e.plan \in Plans /\ e.cancelling \in BOOLEAN
  BY SubscriptionsAssumption DEF GoodEvent, Event
<1>2. CASE e.type = "changed" /\ match
  <2> DEFINE r == [row EXCEPT !.status = mapStatus(e.status), !.cancelling = e.cancelling,
                              !.sub = e.sub, !.lapsed = FALSE]
  <2>1. mapStatus(e.status) \in SubscriptionStatus
    BY <1>2 DEF GoodEvent, mapStatus, LiveAtStripe, SubscriptionStatus
  <2>2. r \in GoodRow /\ r.status # "NONE"
    BY <1>1, <1>2, <2>1 DEF GoodRow, Row, SubscriptionStatus
  <2>3. NoPending(r) \in GoodRow /\ NoPending(r).status # "NONE"
    BY <2>2, NoPendingGood
  <2> HIDE DEF r
  <2>4. promote # Null => /\ [NoPending(r) EXCEPT !.plan = promote] \in GoodRow
                          /\ [NoPending(r) EXCEPT !.plan = promote].status # "NONE"
    BY <2>3 DEF GoodRow, Row
  <2>5. RowAfter(e, match, promote) = IF promote = Null THEN r ELSE [NoPending(r) EXCEPT !.plan = promote]
    BY <1>2 DEF RowAfter, RowAfterChange, r
  <2> QED
    BY <2>2, <2>4, <2>5
<1>3. CASE e.type = "checkout"
  BY <1>1, <1>3 DEF RowAfter, GoodRow, Row, SubscriptionStatus
<1>4. CASE e.type \notin {"changed", "checkout"}
  BY <1>1, <1>4 DEF RowAfter, GoodRow, Row, SubscriptionStatus
<1>5. CASE e.type = "changed" /\ ~match
  BY <1>5 DEF RowAfter
<1> QED
  BY <1>2, <1>3, <1>4, <1>5

LEMMA HandleEventKeeps ==
    ASSUME SubsInv, NEW s \in Slots, HandleEvent(s)
    PROVE  SubsInv'
<1> DEFINE e == call[s].event
<1>1. e \in GoodEvent
  BY WebhookCall DEF HandleEvent
<1>2. /\ call[s].match \in BOOLEAN /\ call[s].promote \in Plans \cup {Null}
      /\ e.type = "changed" /\ call[s].match => row.status # "NONE"
  <2>1. call[s] \in EventCall /\ call[s].op = "event"
    BY CallIs, CallShape DEF HandleEvent
  <2> QED
    BY <2>1, CallIs DEF EventCall, FoundRow
<1>3. row' \in GoodRow /\ (row.status # "NONE" => row'.status # "NONE")
  <2>1. row \in GoodRow /\ row' = RowAfter(e, call[s].match, call[s].promote)
    BY DEF SubsInv, HandleEvent
  <2> QED
    BY <1>1, <1>2, <2>1, RowAfterGood
<1>4. missed' \subseteq Subs
  BY DEF SubsInv, HandleEvent
<1>5. CASE e.type = "checkout" /\ e.trial
  <2> DEFINE c == [op |-> "stamp", event |-> e]
  <2>1. c \in GoodCall /\ ~FoundRow(c)
    <3>1. c \in Call
      BY <1>1, CallKinds DEF StampCall, GoodEvent
    <3> QED
      BY <1>1, <3>1 DEF GoodCall, FoundRow
  <2>2. call' = [call EXCEPT ![s] = c] /\ UNCHANGED <<events, trialUsed, sites, stripe, taken>>
    BY <1>5 DEF HandleEvent, Continue
  <2> HIDE DEF c
  <2> QED
    BY <1>3, <1>4, <2>1, <2>2, Moves DEF SubsInv
<1>6. CASE ~(e.type = "checkout" /\ e.trial)
  <2>1. Acknowledge(s, e)
    BY <1>6 DEF HandleEvent
  <2>2. events' \in Seq(GoodEvent) /\ Finish(s)
    BY <1>1, <2>1, AcknowledgeGood
  <2> QED
    BY <1>3, <1>4, <2>2, Ends DEF SubsInv, HandleEvent
<1> QED
  BY <1>5, <1>6

LEMMA StampKeeps ==
    ASSUME SubsInv, NEW s \in Slots, StampTrial(s)
    PROVE  SubsInv'
<1>1. call[s].event \in GoodEvent
  BY WebhookCall DEF StampTrial
<1>2. events' \in Seq(GoodEvent) /\ Finish(s)
  BY <1>1, AcknowledgeGood DEF StampTrial
<1>3. trialUsed' \in BOOLEAN
  BY Zenon DEF StampTrial
<1> QED
  BY <1>2, <1>3, Ends DEF SubsInv, StampTrial

(* A handler that stops leaves what it has written, and perhaps a repetition. *)
LEMMA StopsKeeps ==
    ASSUME SubsInv, NEW s \in Slots, HandlerFails(s) \/ MarkerStays(s) \/ Die(s)
    PROVE  SubsInv'
<1>1. CASE HandlerFails(s)
  <2>1. call[s].event \in GoodEvent /\ events \in Seq(GoodEvent)
    BY <1>1, WebhookCall DEF HandlerFails, SubsInv
  <2>2. events' \in Seq(GoodEvent)
    BY <1>1, <2>1 DEF HandlerFails
  <2> QED
    BY <1>1, <2>2, Ends DEF SubsInv, HandlerFails
<1>2. CASE MarkerStays(s)
  <2>1. call[s].event \in GoodEvent /\ events \in Seq(GoodEvent)
    BY <1>2, WebhookCall DEF MarkerStays, SubsInv
  <2>2. [call[s].event EXCEPT !.marked = TRUE] \in GoodEvent /\ call[s].event.sub \in Subs
    BY <2>1 DEF GoodEvent, Event
  <2>3. events' \in Seq(GoodEvent)
    BY <1>2, <2>1, <2>2 DEF MarkerStays
  <2>4. missed' \subseteq Subs
    BY <1>2, <2>2 DEF MarkerStays, Misses, SubsInv
  <2>5. taken' \in 0 .. MaxSteps
    BY <1>2, TakenStays DEF MarkerStays
  <2> QED
    BY <1>2, <2>3, <2>4, <2>5, Ends DEF SubsInv, MarkerStays
<1>3. CASE Die(s)
  BY <1>3, Ends DEF SubsInv, Die
<1> QED
  BY <1>1, <1>2, <1>3

-----------------------------------------------------------------------------
LEMMA ProceedKeeps ==
    ASSUME SubsInv, NEW s \in Slots, Proceed(s)
    PROVE  SubsInv'
BY CheckoutOpensKeeps, ReleaseKeeps, ClearKeeps, UpgradeKeeps, StoreUpgradeKeeps, CreateKeeps, PhasesKeeps,
   StoreDowngradeKeeps, StoresKeep, FlagKeeps, AddSiteKeeps, HandleEventKeeps, StampKeeps
   DEF Proceed

LEMMA SubsNext == SubsInv /\ [Next]_vars => SubsInv'
<1> SUFFICES ASSUME SubsInv, [Next]_vars PROVE SubsInv'
  OBVIOUS
<1>1. CASE StripeStep
  BY <1>1, StripeKeeps
<1>2. CASE TrialLapses
  BY <1>2, TrialLapsesKeeps
<1>3. ASSUME NEW s \in Slots, Request(s) \/ SweepStart(s) PROVE SubsInv'
  BY <1>3, RequestKeeps
<1>4. ASSUME NEW s \in Slots, Receive(s) \/ Loss(s) PROVE SubsInv'
  BY <1>4, DeliverKeeps, LostKeeps DEF Receive, Loss
<1>5. ASSUME NEW s \in Slots, Proceed(s) PROVE SubsInv'
  BY <1>5, ProceedKeeps
<1>6. ASSUME NEW s \in Slots, HandlerFails(s) \/ MarkerStays(s) \/ Die(s) PROVE SubsInv'
  BY <1>6, StopsKeeps
<1>7. CASE Repetition
  BY <1>7, DuplicateKeeps DEF Repetition
<1>8. CASE UNCHANGED vars
  BY <1>8 DEF vars, SubsInv, FoundRow
<1> QED
  BY <1>1, <1>2, <1>3, <1>4, <1>5, <1>6, <1>7, <1>8 DEF Next

(***************************************************************************)
(* However many requests of BillingService, events and sweeps of the trial *)
(* job overlap: the row and Stripe's objects keep their types, the row     *)
(* names an offer whenever there is one, and no status is ever written     *)
(* into a row that has no offer.                                           *)
(***************************************************************************)
THEOREM SubscriptionsInvariant == Spec => []SubsInv
BY SubsInit, SubsNext, PTL DEF Spec

(***************************************************************************)
(* The columns of org_subscriptions, Stripe's objects, the events and the  *)
(* handlers keep their types, however many handlers overlap.               *)
(***************************************************************************)
THEOREM SubscriptionsTypeCorrect == Spec => []SubscriptionsTypeOK
<1>1. SubsInv => SubscriptionsTypeOK
  BY DEF SubsInv, SubscriptionsTypeOK, GoodRow, GoodSub, GoodEvent, GoodCall
<1> QED
  BY <1>1, SubscriptionsInvariant, PTL

-----------------------------------------------------------------------------
(***************************************************************************)
(* What can make an event of another subscription change the row after all *)
(* is one handler that overtakes another: a checkout, or the first event   *)
(* of a subscription, moves the row while onSubscriptionChanged has the    *)
(* answer of resolveSubscriptionRow in hand; or a downgrade is stored in a *)
(* row that has moved since changePlan read it.                            *)
(***************************************************************************)
Resolved(s) ==
    call[s].op = "event" /\ call[s].event.type = "changed" /\ call[s].match

NotOvertaken ==
    /\ row'.sub # row.sub
         => \A s \in Slots : Resolved(s) /\ call'[s] = call[s] => call[s].event.sub = row'.sub
    /\ \A s \in Slots : StoreDowngrade(s) => call[s].sub = row.sub

(* The schedule the row names is one of its subscription, and an answer of  *)
(* resolveSubscriptionRow holds until it is used.                           *)
Aligned ==
    /\ row.sched # Null => row.sched[1] = row.sub
    /\ \A s \in Slots : Resolved(s) => row.sub \in {call[s].event.sub, Null}

LEMMA AlignedInit == Init => Aligned
<1> SUFFICES ASSUME Init PROVE Aligned
  OBVIOUS
<1>1. row.sched = Null
  <2>1. NoRow.sched = Null
    BY DEF NoRow
  <2>2. ASSUME NEW p \in LegacyPlans PROVE LocalTrial(p).sched = Null
    BY DEF LocalTrial, NoRow
  <2> QED
    BY <2>1, <2>2 DEF Init
<1>2. \A s \in Slots : ~Resolved(s)
  BY DEF Init, Resolved, Idle
<1> QED
  BY <1>1, <1>2 DEF Aligned

(* A step that leaves the row on its subscription, and its schedule or none. *)
LEMMA RowStays ==
    ASSUME SubsInv, Aligned, row'.sub = row.sub, row'.sched \in {row.sched, Null},
           \A s \in Slots : Resolved(s)' /\ call'[s] # call[s] => row.sub \in {call'[s].event.sub, Null}
    PROVE  Aligned'
<1>1. ASSUME NEW s \in Slots, Resolved(s)' PROVE row'.sub \in {call'[s].event.sub, Null}
  <2>1. CASE call'[s] # call[s]
    BY <1>1, <2>1
  <2>2. CASE call'[s] = call[s]
    BY <1>1, <2>2 DEF Resolved, Aligned
  <2> QED
    BY <2>1, <2>2
<1>2. row'.sched # Null => row'.sched[1] = row'.sub
  BY DEF Aligned
<1> QED
  BY <1>1, <1>2 DEF Aligned

(* Which steps touch these columns, and which resolve a row. *)
LEMMA Untouched ==
    ASSUME SubsInv, Next,
           ~\E s \in Slots : HandleEvent(s) \/ StoreDowngrade(s)
    PROVE  row'.sub = row.sub /\ row'.sched \in {row.sched, Null}
<1>1. row \in Row
  BY DEF SubsInv, GoodRow
<1>2. ASSUME NEW s \in Slots, Request(s) \/ SweepStart(s) \/ Receive(s) \/ Loss(s)
                              \/ HandlerFails(s) \/ MarkerStays(s) \/ Die(s)
      PROVE  row' = row
  BY <1>2 DEF Request, CheckoutStart, ChangeStart, CancelStart, DropStart, ResumeStart, AddSiteStart,
              SweepStart, Receive, Deliver, Loss, Lost, HandlerFails, MarkerStays, Die
<1>3. ASSUME NEW s \in Slots, Proceed(s)
      PROVE  row'.sub = row.sub /\ row'.sched \in {row.sched, Null}
  <2>1. CASE CheckoutOpens(s) \/ ReleaseAtStripe(s) \/ UpgradeAtStripe(s) \/ CreateSchedule(s)
             \/ SetPhases(s) \/ CancelAtStripe(s) \/ ResumeAtStripe(s) \/ AddSite(s) \/ StampTrial(s)
    <3>1. row' = row
      BY <2>1 DEF CheckoutOpens, ReleaseAtStripe, UpgradeAtStripe, CreateSchedule, SetPhases,
                  CancelAtStripe, ResumeAtStripe, AddSite, StampTrial
    <3> QED
      BY <3>1
  <2>2. CASE ClearPending(s) \/ StoreUpgrade(s) \/ CancelLocal(s) \/ StoreCancel(s) \/ StoreResume(s)
             \/ SweepWrite(s)
    BY <1>1, <2>2 DEF ClearPending, NoPending, StoreUpgrade, CancelLocal, StoreCancel, StoreResume,
                      SweepWrite, Row
  <2> QED
    BY <1>3, <2>1, <2>2 DEF Proceed
<1>4. CASE StripeStep \/ TrialLapses \/ Repetition
  BY <1>1, <1>4 DEF StripeStep, CheckoutCompletes, CheckoutExpires, PortalCancels, PeriodEnds,
              PaymentRecovers, StripeGivesUp, TrialLapses, Repetition, Duplicate, Row
<1> QED
  BY <1>2, <1>3, <1>4 DEF Next

(* Only Deliver resolves a row. *)
LEMMA ResolvedByDelivery ==
    ASSUME SubsInv, Next, NEW s \in Slots, Resolved(s)', call'[s] # call[s]
    PROVE  Resolves(call'[s].event.sub) /\ UNCHANGED row
<1>1. ASSUME NEW t \in Slots, Receive(t) PROVE Resolves(call'[s].event.sub) /\ UNCHANGED row
  <2>1. PICK n \in DOMAIN events : Deliver(t, n)
    BY <1>1 DEF Receive
  <2> DEFINE e == events[n]
             c == [op |-> "event", event |-> e,
                   match |-> IF e.type = "changed" THEN Resolves(e.sub) ELSE row.sub = e.sub,
                   promote |-> PlanLanded]
  <2>2. call' = [call EXCEPT ![t] = c] /\ UNCHANGED row
    BY <2>1 DEF Deliver, Start
  <2>3. c.event = e /\ (e.type = "changed" /\ c.match => Resolves(e.sub))
    OBVIOUS
  <2> HIDE DEF c
  <2>4. call'[s] = c
    BY <2>2 DEF SubsInv
  <2> QED
    BY <2>2, <2>3, <2>4 DEF Resolved
<1>2. ASSUME NEW t \in Slots, NEW c, call' = [call EXCEPT ![t] = c], c.op # "event" PROVE FALSE
  BY <1>2 DEF SubsInv, Resolved
<1>3. Idle.op # "event"
  BY DEF Idle
<1>4. ASSUME NEW t \in Slots, Request(t) \/ SweepStart(t) PROVE FALSE
  <2>1. ASSUME NEW p \in Plans, NEW trial \in BOOLEAN, CheckoutStart(t, p, trial) PROVE FALSE
    <3>1. [op |-> "checkout", plan |-> p, trial |-> trial].op # "event"
      OBVIOUS
    <3> QED
      BY <1>2, <2>1, <3>1, Zenon DEF CheckoutStart, Start
  <2>2. ASSUME NEW p \in Plans, ChangeStart(t, p) PROVE FALSE
    <3>1. [op |-> "change", sub |-> row.sub, plan |-> p, up |-> p > row.plan, sched |-> row.sched].op # "event"
      OBVIOUS
    <3> QED
      BY <1>2, <2>2, <3>1, Zenon DEF ChangeStart, Start
  <2>3. CASE CancelStart(t)
    <3>1. [op |-> "cancel", sub |-> row.sub, sched |-> row.sched].op # "event"
      OBVIOUS
    <3> QED
      BY <1>2, <2>3, <3>1, Zenon DEF CancelStart, Start
  <2>4. CASE DropStart(t)
    <3>1. [op |-> "drop", sched |-> row.sched].op # "event"
      OBVIOUS
    <3> QED
      BY <1>2, <2>4, <3>1, Zenon DEF DropStart, Start
  <2>5. CASE ResumeStart(t)
    <3>1. [op |-> "resume", sub |-> row.sub].op # "event"
      OBVIOUS
    <3> QED
      BY <1>2, <2>5, <3>1, Zenon DEF ResumeStart, Start
  <2>6. CASE AddSiteStart(t)
    <3>1. [op |-> "addSite"].op # "event"
      OBVIOUS
    <3> QED
      BY <1>2, <2>6, <3>1, Zenon DEF AddSiteStart, Start
  <2>7. CASE SweepStart(t)
    <3>1. [op |-> "sweep"].op # "event"
      OBVIOUS
    <3> QED
      BY <1>2, <2>7, <3>1, Zenon DEF SweepStart, Start
  <2> QED
    BY <1>4, <2>1, <2>2, <2>3, <2>4, <2>5, <2>6, <2>7, Zenon DEF Request
<1>5. ASSUME NEW t \in Slots, Finish(t) PROVE FALSE
  BY <1>2, <1>3, <1>5 DEF Finish, Continue
<1>6. ASSUME NEW t \in Slots, Proceed(t) PROVE FALSE
  <2>1. CASE CheckoutOpens(t) \/ StoreUpgrade(t) \/ StoreDowngrade(t) \/ CancelLocal(t) \/ StoreCancel(t)
             \/ StoreResume(t) \/ AddSite(t) \/ SweepWrite(t) \/ StampTrial(t)
    BY <1>5, <2>1 DEF CheckoutOpens, StoreUpgrade, StoreDowngrade, CancelLocal, StoreCancel, StoreResume,
                      AddSite, SweepWrite, StampTrial, Acknowledge
  <2>2. CASE ReleaseAtStripe(t)
    <3>1. [op |-> "clear", next |-> AfterRelease(call[t])].op # "event"
      OBVIOUS
    <3>2. call' = [call EXCEPT ![t] = [op |-> "clear", next |-> AfterRelease(call[t])]]
      BY <2>2, Zenon DEF ReleaseAtStripe, Continue
    <3> QED
      BY <1>2, <3>1, <3>2, Zenon
  <2>3. CASE ClearPending(t)
    <3>1. call[t] \in ClearCall
      BY <2>3, CallIs, CallShape DEF ClearPending
    <3>2. call[t].next.op # "event"
      BY <3>1 DEF ClearCall, ChangeCall, CancelCall, Idle
    <3> QED
      BY <1>2, <2>3, <3>2 DEF ClearPending, Continue
  <2>4. CASE UpgradeAtStripe(t)
    <3>1. call[t] \in ChangeCall
      BY <2>4, CallIs, CallShape DEF UpgradeAtStripe
    <3>2. [call[t] EXCEPT !.op = "storeUpgrade"].op # "event"
      BY <3>1 DEF ChangeCall
    <3> QED
      BY <1>2, <1>5, <2>4, <3>2 DEF UpgradeAtStripe, Continue
  <2>5. CASE CreateSchedule(t)
    BY <1>2, <1>5, <2>5 DEF CreateSchedule, Continue
  <2>6. CASE SetPhases(t)
    <3>1. call[t] \in DowngradeCall
      BY <2>6, CallIs, CallShape DEF SetPhases
    <3>2. [call[t] EXCEPT !.op = "storeDowngrade"].op # "event"
      BY <3>1 DEF DowngradeCall
    <3> QED
      BY <1>2, <1>5, <2>6, <3>2 DEF SetPhases, Continue
  <2>7. CASE CancelAtStripe(t)
    <3>1. call[t] \in CancelCall
      BY <2>7, CallIs, CallShape DEF CancelAtStripe
    <3>2. [call[t] EXCEPT !.op = "storeCancel"].op # "event"
      BY <3>1 DEF CancelCall
    <3> QED
      BY <1>2, <1>5, <2>7, <3>2 DEF CancelAtStripe, Continue
  <2>8. CASE ResumeAtStripe(t)
    <3>1. call[t] \in ResumeCall
      BY <2>8, CallIs, CallShape DEF ResumeAtStripe
    <3>2. [call[t] EXCEPT !.op = "storeResume"].op # "event"
      BY <3>1 DEF ResumeCall
    <3> QED
      BY <1>2, <1>5, <2>8, <3>2 DEF ResumeAtStripe, Continue
  <2>9. CASE HandleEvent(t)
    <3> DEFINE e == call[t].event
    <3>1. [op |-> "stamp", event |-> e].op # "event"
      OBVIOUS
    <3>2. Continue(t, [op |-> "stamp", event |-> e]) \/ Acknowledge(t, e)
      BY <2>9, Zenon DEF HandleEvent
    <3>3. CASE Continue(t, [op |-> "stamp", event |-> e])
      BY <1>2, <3>1, <3>3, Zenon DEF Continue
    <3>4. CASE Acknowledge(t, e)
      BY <1>5, <3>4, Zenon DEF Acknowledge
    <3> QED
      BY <3>2, <3>3, <3>4, Zenon
  <2> QED
    BY <1>6, <2>1, <2>2, <2>3, <2>4, <2>5, <2>6, <2>7, <2>8, <2>9 DEF Proceed
<1>7. ASSUME NEW t \in Slots, HandlerFails(t) \/ MarkerStays(t) \/ Die(t) PROVE FALSE
  BY <1>5, <1>7 DEF HandlerFails, MarkerStays, Die
<1>8. ASSUME call' = call PROVE FALSE
  BY <1>8
<1>9. ASSUME NEW t \in Slots, Loss(t) PROVE FALSE
  BY <1>8, <1>9 DEF Loss, Lost
<1>10. ASSUME StripeStep \/ TrialLapses \/ Repetition PROVE FALSE
  BY <1>8, <1>10 DEF StripeStep, CheckoutCompletes, CheckoutExpires, PortalCancels, PeriodEnds,
              PaymentRecovers, StripeGivesUp, TrialLapses, Repetition, Duplicate
<1> QED
  BY <1>1, <1>4, <1>6, <1>7, <1>9, <1>10 DEF Next

(* What an event leaves of these columns. *)
LEMMA RowAfterColumns ==
    ASSUME NEW e \in GoodEvent, NEW match, NEW promote, row \in GoodRow
    PROVE  \/ /\ RowAfter(e, match, promote).sub = row.sub
              /\ RowAfter(e, match, promote).sched \in {row.sched, Null}
           \/ /\ RowAfter(e, match, promote).sub = e.sub
              /\ \/ e.type = "changed" /\ match /\ RowAfter(e, match, promote).sched \in {row.sched, Null}
                 \/ RowAfter(e, match, promote).sched = Null
<1>1. CASE e.type = "changed" /\ match
  <2> DEFINE r == [row EXCEPT !.status = mapStatus(e.status), !.cancelling = e.cancelling,
                              !.sub = e.sub, !.lapsed = FALSE]
             q == NoPending(r)
  <2>1. r.sub = e.sub /\ r.sched = row.sched /\ DOMAIN r = DOMAIN row
    BY DEF GoodRow, Row
  <2>2. q.sub = e.sub /\ q.sched = Null
    BY DEF NoPending, GoodRow, Row
  <2>3. [q EXCEPT !.plan = promote].sub = e.sub /\ [q EXCEPT !.plan = promote].sched = Null
    BY <2>2 DEF NoPending
  <2> HIDE DEF r, q
  <2>4. RowAfter(e, match, promote) = IF promote = Null THEN r ELSE [q EXCEPT !.plan = promote]
    BY <1>1 DEF RowAfter, RowAfterChange, r, q
  <2> QED
    BY <1>1, <2>1, <2>3, <2>4
<1>2. CASE e.type = "checkout"
  BY <1>2 DEF RowAfter, GoodRow, Row
<1>3. CASE e.type \notin {"changed", "checkout"}
  BY <1>3 DEF RowAfter, GoodRow, Row
<1>4. CASE e.type = "changed" /\ ~match
  BY <1>4 DEF RowAfter
<1> QED
  BY <1>1, <1>2, <1>3, <1>4

LEMMA AlignedNext ==
    ASSUME SubsInv, Aligned, Next, NotOvertaken
    PROVE  Aligned'
<1>1. row \in GoodRow /\ row \in Row /\ (row.sub = Null => row.sched = Null)
  <2>1. row \in GoodRow /\ row \in Row
    BY DEF SubsInv, GoodRow
  <2>2. row.sched # Null => row.sched[1] \in Subs
    BY <2>1 DEF Row, Schedules
  <2> QED
    BY <2>1, <2>2, SubscriptionsAssumption DEF Aligned
<1>2. ASSUME NEW s \in Slots, Resolved(s)', call'[s] # call[s]
      PROVE  row.sub \in {call'[s].event.sub, Null} /\ UNCHANGED row
  BY <1>2, ResolvedByDelivery DEF Resolves
<1>3. CASE row'.sub = row.sub /\ row'.sched \in {row.sched, Null}
  BY <1>2, <1>3, RowStays
<1>4. ASSUME NEW s \in Slots, HandleEvent(s), ~(row'.sub = row.sub /\ row'.sched \in {row.sched, Null})
      PROVE  Aligned'
  <2> DEFINE e == call[s].event
  <2>1. e \in GoodEvent /\ e.sub \in Subs
    BY <1>4, WebhookCall DEF HandleEvent, GoodEvent, Event
  <2>2. row' = RowAfter(e, call[s].match, call[s].promote)
    BY <1>4 DEF HandleEvent
  <2>3. /\ row'.sub = e.sub
        /\ \/ Resolved(s) /\ row'.sched \in {row.sched, Null}
           \/ row'.sched = Null
    BY <1>1, <1>4, <2>1, <2>2, RowAfterColumns DEF HandleEvent, Resolved
  <2>4. Resolved(s) => row.sub \in {e.sub, Null}
    BY DEF Aligned
  <2>5. row'.sched # Null => row'.sched[1] = row'.sub
    BY <1>1, <2>3, <2>4 DEF Aligned
  <2>6. row'.sub # row.sub
    BY <1>4, <2>3
  <2>7. ASSUME NEW t \in Slots, Resolved(t)' PROVE row'.sub \in {call'[t].event.sub, Null}
    <3>1. CASE call'[t] # call[t]
      BY <1>2, <2>6, <2>7, <3>1
    <3>2. CASE call'[t] = call[t]
      BY <2>6, <2>7, <3>2 DEF NotOvertaken, Resolved
    <3> QED
      BY <3>1, <3>2
  <2> QED
    BY <2>5, <2>7 DEF Aligned
<1>5. ASSUME NEW s \in Slots, StoreDowngrade(s) PROVE Aligned'
  <2>1. call[s] \in DowngradeCall /\ call[s].sched[1] = call[s].sub
    BY <1>5, CallIs, CallShape DEF StoreDowngrade, GoodCall
  <2>2. call[s].sub = row.sub
    BY <1>5 DEF NotOvertaken
  <2>3. row'.sub = row.sub /\ row'.sched[1] = row'.sub
    BY <1>1, <1>5, <2>1, <2>2 DEF StoreDowngrade, Row
  <2>4. ASSUME NEW t \in Slots, Resolved(t)' PROVE row'.sub \in {call'[t].event.sub, Null}
    <3>1. CASE call'[t] # call[t]
      BY <1>2, <2>3, <2>4, <3>1
    <3>2. CASE call'[t] = call[t]
      BY <2>3, <2>4, <3>2 DEF Aligned, Resolved
    <3> QED
      BY <3>1, <3>2
  <2> QED
    BY <2>3, <2>4 DEF Aligned
<1> QED
  BY <1>3, <1>4, <1>5, Untouched

StaleEventIgnored ==
    \A s \in Slots :
          /\ call[s].op = "event"
          /\ call[s].event.type # "checkout"
          /\ call'[s] # call[s]
          /\ row.sub \notin {call[s].event.sub, Null}
          => row' = row

LEMMA StaleEventStep ==
    ASSUME SubsInv, Aligned, Next
    PROVE  StaleEventIgnored
<1> SUFFICES ASSUME NEW s \in Slots, call[s].op = "event", call[s].event.type # "checkout",
                    call'[s] # call[s], row.sub \notin {call[s].event.sub, Null}
             PROVE  row' = row
  BY DEF StaleEventIgnored
<1>1. call[s] \in GoodCall
  BY DEF SubsInv
<1>2. CASE HandleEvent(s)
  <2>1. ~(call[s].event.type = "changed" /\ call[s].match)
    BY DEF Aligned, Resolved
  <2>2. row \in Row
    BY DEF SubsInv, GoodRow
  <2>3. row.sched = <<call[s].event.sub, call[s].event.scheds>> => row.sched = Null
    BY DEF Aligned
  <2>4. row.sched = Null => [row EXCEPT !.sched = Null] = row
    BY <2>2 DEF Row
  <2>5. row' = RowAfter(call[s].event, call[s].match, call[s].promote) /\ row.sub # call[s].event.sub
    BY <1>2 DEF HandleEvent
  <2> QED
    BY <2>1, <2>3, <2>4, <2>5 DEF RowAfter
<1>3. ASSUME NEW t \in Slots, t # s, NEW c, call' = [call EXCEPT ![t] = c] PROVE FALSE
  BY <1>3
<1>4. ASSUME NEW t \in Slots, Request(t) \/ SweepStart(t) \/ Receive(t) \/ Loss(t)
                              \/ HandlerFails(t) \/ MarkerStays(t) \/ Die(t)
      PROVE  row' = row
  BY <1>4 DEF Request, CheckoutStart, ChangeStart, CancelStart, DropStart, ResumeStart, AddSiteStart,
              SweepStart, Receive, Deliver, Loss, Lost, HandlerFails, MarkerStays, Die
<1>5. ASSUME NEW t \in Slots, Proceed(t) PROVE row' = row
  <2>1. \E c : call' = [call EXCEPT ![t] = c]
    BY <1>5 DEF Proceed, CheckoutOpens, ReleaseAtStripe, ClearPending, UpgradeAtStripe, StoreUpgrade,
                CreateSchedule, SetPhases, StoreDowngrade, CancelLocal, CancelAtStripe, StoreCancel,
                ResumeAtStripe, StoreResume, AddSite, SweepWrite, HandleEvent, StampTrial, Acknowledge,
                Continue, Finish
  <2>2. t = s
    BY <1>3, <2>1, SMTT(60)
  <2>3. HandleEvent(s)
    BY <1>5, <2>2 DEF Proceed, CheckoutOpens, ReleaseAtStripe, ClearPending, UpgradeAtStripe, StoreUpgrade,
                CreateSchedule, SetPhases, StoreDowngrade, CancelLocal, CancelAtStripe, StoreCancel,
                ResumeAtStripe, StoreResume, AddSite, SweepWrite, StampTrial
  <2> QED
    BY <1>2, <2>3
<1>6. CASE StripeStep \/ TrialLapses \/ Repetition
  BY <1>6 DEF StripeStep, CheckoutCompletes, CheckoutExpires, PortalCancels, PeriodEnds,
              PaymentRecovers, StripeGivesUp, TrialLapses, Repetition, Duplicate
<1> QED
  BY <1>4, <1>5, <1>6 DEF Next

(***************************************************************************)
(* resolveSubscriptionRow: however many handlers overlap, events about     *)
(* another subscription than the row's never change the row, however late, *)
(* how often and in whatever order they arrive, as long as no handler is   *)
(* overtaken in the way NotOvertaken names.                                *)
(***************************************************************************)
THEOREM StaleEventsIgnoredUnlessOvertaken == Spec /\ [][NotOvertaken]_vars => StaleEventsIgnored
<1>1. SubsInv /\ Aligned /\ [Next]_vars /\ [NotOvertaken]_vars => Aligned'
  <2> SUFFICES ASSUME SubsInv, Aligned, [Next]_vars, [NotOvertaken]_vars PROVE Aligned'
    OBVIOUS
  <2>1. CASE UNCHANGED vars
    BY <2>1 DEF vars, Aligned, Resolved
  <2>2. CASE Next /\ NotOvertaken
    BY <2>2, AlignedNext
  <2> QED
    BY <2>1, <2>2
<1>2. SubsInv /\ Aligned /\ [Next]_vars => [StaleEventIgnored]_vars
  BY StaleEventStep
<1> QED
  BY <1>1, <1>2, AlignedInit, SubscriptionsInvariant, PTL DEF Spec, StaleEventsIgnored, StaleEventIgnored
=============================================================================
