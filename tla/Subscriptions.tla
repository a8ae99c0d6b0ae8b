--------------------------- MODULE Subscriptions ---------------------------
(***************************************************************************)
(* The subscription of one organisation: BillingService, the Stripe        *)
(* webhook, the trial job, and the site limit of SubscriptionAccessService.*)
(*                                                                         *)
(* The row of org_subscriptions is written by requests, which talk to      *)
(* Stripe first, and by the events Stripe sends about what happened there. *)
(* Stripe itself is modelled from how the code uses it: subscriptions that *)
(* come from checkout sessions, their schedules, and events it repeats     *)
(* until they are acknowledged.  A handler in progress is call[s].         *)
(*                                                                         *)
(* Plans are offers (tier and cycle), numbered in the order of             *)
(* resolveDirection; no seeded plan is charged per site, so the quantity   *)
(* is always 1 and left out.                                               *)
(***************************************************************************)
EXTENDS Naturals, FiniteSets, Sequences, SequencesExt

CONSTANTS
    Plans,        \* 1 .. n, an upgrade goes to a larger number
    LegacyPlans,  \* offers of trials from before checkout
    MaxSites,     \* site allowance of each plan
    Subs,         \* bound: the checkout sessions, and what they become
    MaxSchedules, \* bound: schedules of one subscription
    MaxEvents,    \* bound: undelivered events before Stripe does something else
    Sitecap,      \* bound: site rows
    MaxSteps,     \* bound: billing requests, steps Stripe takes by itself, and
                  \* errors nobody repeats
    Slots,        \* handlers that may be in progress
    MaxBusy,      \* how many of them at a time
    InOrder,      \* Stripe delivers events in the order they happened
    Mortal,       \* the handlers, but the webhook's, that may end half-way
    Null

ASSUME SubscriptionsAssumption ==
    /\ Plans \subseteq Nat \ {0}
    /\ LegacyPlans \subseteq Plans
    /\ MaxSites \in [Plans -> Nat]
    /\ {MaxSchedules, MaxEvents, Sitecap, MaxSteps, MaxBusy} \subseteq Nat
    /\ Null \notin Subs \cup Plans
    /\ IsFiniteSet(Slots)
    /\ InOrder \in BOOLEAN
    /\ Mortal \cap {"event", "stamp"} = {}

VARIABLES
    row,       \* the row of org_subscriptions
    trialUsed, \* organisation.freeTrialUsedAt is set
    sites,     \* rows of the organisation in table sites
    stripe,    \* Stripe's subscriptions
    events,    \* what Stripe has not seen acknowledged
    call,      \* handlers in progress
    taken,     \* how many of those steps have been taken
    missed     \* history: whose row is behind, because an event was lost

vars == <<row, trialUsed, sites, stripe, events, call, taken, missed>>

SubscriptionStatus == {"TRIALING", "ACTIVE", "PAST_DUE", "CANCELLED", "EXPIRED"}
StripeStatus ==
    {"none", "openTrial", "openPaid", "trialing", "active", "past_due", "canceled"}

ENTITLING_STATUSES_Grace == {"TRIALING", "ACTIVE", "CANCELLED"}

ENTITLING_STATUSES == {"TRIALING", "ACTIVE"}
LIVE_STATUSES == {"TRIALING", "ACTIVE", "PAST_DUE"}
LiveAtStripe == {"trialing", "active", "past_due"}

\* A schedule by the number it has among those of its subscription.
Schedules == Subs \X Nat

Row ==
    [status: SubscriptionStatus \cup {"NONE"}, plan: Plans \cup {Null},
     sub: Subs \cup {Null}, cancelling: BOOLEAN, lapsed: BOOLEAN,
     pending: Plans \cup {Null}, due: BOOLEAN, sched: Schedules \cup {Null}]

NoRow ==
    [status |-> "NONE", plan |-> Null, sub |-> Null, cancelling |-> FALSE,
     lapsed |-> FALSE, pending |-> Null, due |-> FALSE, sched |-> Null]

\* A trial of the earlier flow, with nothing behind it at Stripe.
LocalTrial(p) == [NoRow EXCEPT !.status = "TRIALING", !.plan = p]

\* sched is what the schedule of a subscription still has to do: nothing
\* ("none"), the change at the end of the period ("waiting"), or no more than
\* its release there ("ending").
StripeSub ==
    [status: StripeStatus, plan: Plans \cup {Null}, cancelling: BOOLEAN, sched: {"none", "waiting", "ending"},
     target: Plans \cup {Null}, scheds: Nat]

NoSub ==
    [status |-> "none", plan |-> Null, cancelling |-> FALSE, sched |-> "none", target |-> Null, scheds |-> 0]

\* An event carries the object as it was; marked: its id is in
\* stripe_webhook_events.
Event ==
    [type: {"checkout", "changed", "deleted", "paid", "failed", "released"}, sub: Subs,
     status: StripeStatus, plan: Plans \cup {Null}, trial: BOOLEAN, cancelling: BOOLEAN,
     scheds: Nat, marked: BOOLEAN]

Idle == [op |-> "idle"]

ChangeCall ==
    [op: {"change", "upgrade", "downgrade", "storeUpgrade"}, sub: Subs,
     plan: Plans, up: BOOLEAN, sched: Schedules \cup {Null}]

CancelCall ==
    [op: {"cancel", "cancelStripe", "storeCancel"}, sub: Subs \cup {Null},
     sched: Schedules \cup {Null}]

\* "clear" and "phases": the second halves of releaseSchedule and of the
\* making of a schedule.
Call ==
    {Idle}
      \cup [op: {"checkout"}, plan: Plans, trial: BOOLEAN]
      \cup ChangeCall \cup CancelCall
      \cup [op: {"phases", "storeDowngrade"}, sub: Subs, plan: Plans, sched: Schedules]
      \cup [op: {"resume", "storeResume"}, sub: Subs]
      \cup [op: {"drop"}, sched: Schedules \cup {Null}]
      \cup [op: {"clear"}, next: {Idle} \cup ChangeCall \cup CancelCall]
      \cup [op: {"addSite"}]
      \cup [op: {"sweep"}]
      \cup [op: {"event"}, event: Event, match: BOOLEAN, promote: Plans \cup {Null}]
      \cup [op: {"stamp"}, event: Event]

SubscriptionsTypeOK ==
    /\ row \in Row
    /\ trialUsed \in BOOLEAN
    /\ sites \in Nat
    /\ stripe \in [Subs -> StripeSub]
    /\ events \in Seq(Event)
    /\ call \in [Slots -> Call]
    /\ taken \in 0 .. MaxSteps
    /\ missed \subseteq Subs

Init ==
    /\ row \in {NoRow} \cup {LocalTrial(p) : p \in LegacyPlans}
    /\ trialUsed = FALSE
    /\ sites = 1
    /\ stripe = [x \in Subs |-> NoSub]
    /\ events = <<>>
    /\ call = [s \in Slots |-> Idle]
    /\ taken = 0
    /\ missed = {}

\* The bound on errors, and on the steps of customers and of Stripe itself.
Error ==
    /\ taken < MaxSteps
    /\ taken' = taken + 1

Step == Len(events) < MaxEvents /\ Error

Busy == {s \in Slots : call[s] # Idle}

Free(s) == call[s] = Idle /\ Cardinality(Busy) < MaxBusy

Start(s, c) ==
    /\ Free(s)
    /\ call' = [call EXCEPT ![s] = c]

Continue(s, c) == call' = [call EXCEPT ![s] = c]
Finish(s) == Continue(s, Idle)

-----------------------------------------------------------------------------
(* Stripe *)

\* The events of a change of x, oldest first, about x as it is afterwards.
Emit(x, was, types) ==
    events' = events \o
        [n \in DOMAIN types |->
           [type |-> types[n], sub |-> x, status |-> was.status, plan |-> was.plan,
            trial |-> was.status = "trialing", cancelling |-> was.cancelling, scheds |-> was.scheds,
            marked |-> FALSE]]

StripeSets(x, now, types) ==
    /\ stripe' = [stripe EXCEPT ![x] = now]
    /\ Emit(x, now, types)

\* The customer pays, or starts the trial, for which no card is taken; a trial
\* begins with a paid invoice of nothing.
CheckoutCompletes(x) ==
    /\ Step
    /\ stripe[x].status \in {"openTrial", "openPaid"}
    /\ StripeSets(x, [stripe[x] EXCEPT
                        !.status = IF @ = "openTrial" THEN "trialing" ELSE "active"],
                  <<"changed", "paid", "checkout">>)
    /\ UNCHANGED <<row, trialUsed, sites, call, missed>>

CheckoutExpires(x) ==
    /\ Step
    /\ stripe[x].status \in {"openTrial", "openPaid"}
    /\ stripe' = [stripe EXCEPT ![x] = NoSub]
    /\ UNCHANGED <<row, trialUsed, sites, events, call, missed>>

\* In the portal the customer cancels; cards come and go there unseen.
PortalCancels(x) ==
    /\ Step
    /\ stripe[x].status \in LiveAtStripe
    /\ ~stripe[x].cancelling
    /\ stripe[x].sched = "none"
    /\ StripeSets(x, [stripe[x] EXCEPT !.cancelling = TRUE], <<"changed">>)
    /\ UNCHANGED <<row, trialUsed, sites, call, missed>>

Canceled(x) == [NoSub EXCEPT !.status = "canceled", !.plan = stripe[x].plan]

\* A trial or a period ends: the subscription ends, or is charged (paid says
\* with what result) and takes over what its schedule has for it.
PeriodEnds(x, paid) ==
    /\ Step
    /\ stripe[x].status \in {"trialing", "active"}
    /\ row' = IF row.sub = x /\ row.pending # Null THEN [row EXCEPT !.due = TRUE] ELSE row
    /\ IF stripe[x].cancelling
       THEN StripeSets(x, Canceled(x), <<"deleted">>)
       ELSE LET next == CASE stripe[x].sched = "waiting" -> "ending"
                          [] OTHER -> "none"
                now == [stripe[x] EXCEPT
                          !.status = IF paid THEN "active" ELSE "past_due",
                          !.plan = IF stripe[x].sched = "waiting" THEN stripe[x].target ELSE @,
                          !.target = Null,
                          !.sched = next]
            IN  /\ now # stripe[x]
                /\ StripeSets(x, now,
                     <<"changed", IF paid THEN "paid" ELSE "failed">>
                       \o (IF stripe[x].sched = "ending" THEN <<"released">> ELSE <<>>))
    /\ UNCHANGED <<trialUsed, sites, call, missed>>

\* Stripe's retries of a failed payment succeed, or it gives up.
PaymentRecovers(x) ==
    /\ Step
    /\ stripe[x].status = "past_due"
    /\ StripeSets(x, [stripe[x] EXCEPT !.status = "active"], <<"paid", "changed">>)
    /\ UNCHANGED <<row, trialUsed, sites, call, missed>>

StripeGivesUp(x) ==
    /\ Step
    /\ stripe[x].status = "past_due"
    /\ StripeSets(x, Canceled(x), <<"deleted">>)
    /\ UNCHANGED <<row, trialUsed, sites, call, missed>>

StripeStep ==
    \E x \in Subs :
        \/ CheckoutCompletes(x) \/ CheckoutExpires(x)
        \/ PortalCancels(x)
        \/ \E paid \in BOOLEAN : PeriodEnds(x, paid)
        \/ PaymentRecovers(x) \/ StripeGivesUp(x)

-----------------------------------------------------------------------------
(* BillingService *)

Entitled == row.status \in ENTITLING_STATUSES
LiveRow == row.status \in LIVE_STATUSES /\ row.sub # Null

assertNoLiveSubscription_ActiveOnly == ~(row.status = "ACTIVE" /\ row.sub # Null)

assertNoLiveSubscription == ~LiveRow

\* The bound Subs, with one set aside for every session about to be opened.
SessionRoom ==
    Cardinality({x \in Subs : stripe[x].status = "none"})
      > Cardinality({s \in Slots : call[s].op = "checkout"})

\* startFreeTrial and createCheckoutSession up to the call of Stripe,
CheckoutStart(s, p, trial) ==
    /\ Step
    /\ SessionRoom
    /\ trial => ~trialUsed
    /\ assertNoLiveSubscription
    /\ Start(s, [op |-> "checkout", plan |-> p, trial |-> trial])
    /\ UNCHANGED <<row, trialUsed, sites, stripe, events, missed>>

\* and buildCheckoutSession, which records nothing.
CheckoutOpens(s) ==
    /\ call[s].op = "checkout"
    /\ \E x \in Subs :
        /\ stripe[x].status = "none"
        /\ stripe' = [stripe EXCEPT ![x] =
                [NoSub EXCEPT !.status = IF call[s].trial THEN "openTrial" ELSE "openPaid",
                              !.plan = call[s].plan]]
    /\ Finish(s)
    /\ UNCHANGED <<row, trialUsed, sites, events, taken, missed>>

\* changePlan: a live subscription and another offer.
ChangeStart(s, p) ==
    /\ Step
    /\ LiveRow
    /\ p # row.plan
    /\ stripe[row.sub].scheds < MaxSchedules
    /\ Start(s, [op |-> "change", sub |-> row.sub, plan |-> p, up |-> p > row.plan,
                 sched |-> row.sched])
    /\ UNCHANGED <<row, trialUsed, sites, stripe, events, missed>>

\* cancelSubscription and cancelPendingPlanChange read the row ...
CancelStart(s) ==
    /\ Step
    /\ row.status # "NONE"
    /\ Start(s, [op |-> "cancel", sub |-> row.sub, sched |-> row.sched])
    /\ UNCHANGED <<row, trialUsed, sites, stripe, events, missed>>

DropStart(s) ==
    /\ Step
    /\ row.pending # Null
    /\ Start(s, [op |-> "drop", sched |-> row.sched])
    /\ UNCHANGED <<row, trialUsed, sites, stripe, events, missed>>

\* ... and all three go through releaseSchedule.
StillAttached(sc) ==
    /\ sc # Null
    /\ stripe[sc[1]].sched # "none"
    /\ stripe[sc[1]].scheds = sc[2]

NoPending_KeepsHandle(r) == [r EXCEPT !.pending = Null, !.due = FALSE]

NoPending(r) == [r EXCEPT !.pending = Null, !.due = FALSE, !.sched = Null]

AfterRelease(c) ==
    CASE c.op = "change" /\ c.up  -> [c EXCEPT !.op = "upgrade"]
      [] c.op = "change" /\ ~c.up -> [c EXCEPT !.op = "downgrade"]
      [] c.op = "cancel"          -> [c EXCEPT !.op = "cancelStripe"]
      [] c.op = "drop"            -> Idle

\* Stripe releases the schedule, or answers with an error, which is ignored
\* whatever it is: the schedule may be gone, or may stay.
ReleaseAtStripe(s) ==
    LET sc == call[s].sched
    IN  /\ call[s].op \in {"change", "cancel", "drop"}
        /\ \/ /\ StillAttached(sc)
              /\ StripeSets(sc[1], [stripe[sc[1]] EXCEPT !.sched = "none", !.target = Null],
                            <<"released">>)
              /\ UNCHANGED taken
           \/ ~StillAttached(sc) /\ UNCHANGED <<stripe, events, taken>>
           \/ Error /\ UNCHANGED <<stripe, events>>
        /\ Continue(s, [op |-> "clear", next |-> AfterRelease(call[s])])
        /\ UNCHANGED <<row, trialUsed, sites, missed>>

ClearPending(s) ==
    /\ call[s].op = "clear"
    /\ row' = NoPending(row)
    /\ Continue(s, call[s].next)
    /\ UNCHANGED <<trialUsed, sites, stripe, events, taken, missed>>

(***************************************************************************)
(* applyImmediateChange: refused for a trial without a card (there may be  *)
(* one or not), otherwise the trial ends and the new offer is charged, with*)
(* whatever result.                                                        *)
(***************************************************************************)
UpgradeAtStripe(s) ==
    LET x == call[s].sub
    IN  /\ call[s].op = "upgrade"
        /\ \/ /\ \/ stripe[x].status \notin LiveAtStripe
                 \/ stripe[x].status = "trialing"
              /\ Finish(s)
              /\ UNCHANGED <<stripe, events>>
           \/ \E paid \in BOOLEAN :
                /\ stripe[x].status \in LiveAtStripe
                /\ StripeSets(x, [stripe[x] EXCEPT
                                    !.status = IF paid THEN "active" ELSE "past_due",
                                    !.plan = call[s].plan],
                              <<"changed", IF paid THEN "paid" ELSE "failed">>)
                /\ Continue(s, [call[s] EXCEPT !.op = "storeUpgrade"])
        /\ UNCHANGED <<row, trialUsed, sites, taken, missed>>

StoreUpgrade(s) ==
    /\ call[s].op = "storeUpgrade"
    /\ row' = [row EXCEPT !.plan = call[s].plan, !.pending = Null, !.due = FALSE]
    /\ Finish(s)
    /\ UNCHANGED <<trialUsed, sites, stripe, events, taken, missed>>

\* scheduleChangeAtPeriodEnd: a schedule is made of the subscription as it
\* is, which Stripe refuses a second time,
CreateSchedule(s) ==
    LET x == call[s].sub
        n == stripe[x].scheds + 1
    IN  /\ call[s].op = "downgrade"
        /\ IF stripe[x].sched = "none" /\ stripe[x].status \in LiveAtStripe
           THEN /\ stripe' = [stripe EXCEPT ![x].sched = "ending", ![x].scheds = n]
                /\ Continue(s, [op |-> "phases", sub |-> x, plan |-> call[s].plan,
                                sched |-> <<x, n>>])
           ELSE Finish(s) /\ UNCHANGED stripe
        /\ UNCHANGED <<row, trialUsed, sites, events, taken, missed>>

\* and given its second phase.  Where that fails, or the first has no end, the
\* schedule stays, and the row says nothing of it.
SetPhases(s) ==
    LET c == call[s]
    IN  /\ c.op = "phases"
        /\ \/ /\ StillAttached(c.sched)
              /\ stripe' = [stripe EXCEPT ![c.sub].sched = "waiting", ![c.sub].target = c.plan]
              /\ Continue(s, [c EXCEPT !.op = "storeDowngrade"])
              /\ UNCHANGED taken
           \/ ~StillAttached(c.sched) /\ Finish(s) /\ UNCHANGED <<stripe, taken>>
           \/ Error /\ Finish(s) /\ UNCHANGED stripe
        /\ UNCHANGED <<row, trialUsed, sites, events, missed>>

StoreDowngrade(s) ==
    /\ call[s].op = "storeDowngrade"
    /\ row' = [row EXCEPT !.pending = call[s].plan, !.sched = call[s].sched,
                          !.due = stripe[call[s].sub].sched # "waiting"]
    /\ Finish(s)
    /\ UNCHANGED <<trialUsed, sites, stripe, events, taken, missed>>

\* Stripe refuses to set or clear the flag while a schedule is attached.
FlagSettable(x) == stripe[x].status \in LiveAtStripe /\ stripe[x].sched = "none"

CancelLocal(s) ==
    /\ call[s].op = "cancelStripe"
    /\ call[s].sub = Null
    /\ row' = [row EXCEPT !.status = "CANCELLED", !.cancelling = FALSE]
    /\ Finish(s)
    /\ UNCHANGED <<trialUsed, sites, stripe, events, taken, missed>>

CancelAtStripe(s) ==
    LET x == call[s].sub
    IN  /\ call[s].op = "cancelStripe"
        /\ x # Null
        /\ IF FlagSettable(x)
           THEN /\ StripeSets(x, [stripe[x] EXCEPT !.cancelling = TRUE], <<"changed">>)
                /\ Continue(s, [call[s] EXCEPT !.op = "storeCancel"])
           ELSE Finish(s) /\ UNCHANGED <<stripe, events>>
        /\ UNCHANGED <<row, trialUsed, sites, taken, missed>>

StoreCancel(s) ==
    /\ call[s].op = "storeCancel"
    /\ row' = [row EXCEPT !.cancelling = TRUE]
    /\ Finish(s)
    /\ UNCHANGED <<trialUsed, sites, stripe, events, taken, missed>>

ResumeStart(s) ==
    /\ Step
    /\ row.cancelling
    /\ row.sub # Null
    /\ Start(s, [op |-> "resume", sub |-> row.sub])
    /\ UNCHANGED <<row, trialUsed, sites, stripe, events, missed>>

ResumeAtStripe(s) ==
    LET x == call[s].sub
    IN  /\ call[s].op = "resume"
        /\ IF FlagSettable(x)
           THEN /\ StripeSets(x, [stripe[x] EXCEPT !.cancelling = FALSE], <<"changed">>)
                /\ Continue(s, [call[s] EXCEPT !.op = "storeResume"])
           ELSE Finish(s) /\ UNCHANGED <<stripe, events>>
        /\ UNCHANGED <<row, trialUsed, sites, taken, missed>>

StoreResume(s) ==
    /\ call[s].op = "storeResume"
    /\ row' = [row EXCEPT !.cancelling = FALSE]
    /\ Finish(s)
    /\ UNCHANGED <<trialUsed, sites, stripe, events, taken, missed>>

-----------------------------------------------------------------------------
(* The site limit *)

assertCanAddSite_OffByOne == Entitled /\ sites <= MaxSites[row.plan]

\* The plan must cover one more row; rows of deactivated sites count.
assertCanAddSite == Entitled /\ sites < MaxSites[row.plan]

AddSiteStart(s) ==
    /\ assertCanAddSite
    /\ sites < Sitecap
    /\ Start(s, [op |-> "addSite"])
    /\ UNCHANGED <<row, trialUsed, sites, stripe, events, taken, missed>>

AddSite(s) ==
    /\ call[s].op = "addSite"
    /\ sites' = sites + 1
    /\ Finish(s)
    /\ UNCHANGED <<row, trialUsed, stripe, events, taken, missed>>

-----------------------------------------------------------------------------
(* BillingWorker *)

LapsedTrial_Subscribed(r) == r.status = "TRIALING" /\ r.lapsed /\ r.sub # Null

LapsedTrial(r) == r.status = "TRIALING" /\ r.lapsed /\ r.sub = Null

TrialLapses ==
    /\ row.status = "TRIALING"
    /\ row.sub = Null
    /\ ~row.lapsed
    /\ row' = [row EXCEPT !.lapsed = TRUE]
    /\ UNCHANGED <<trialUsed, sites, stripe, events, call, taken, missed>>

\* expireLapsedTrials collects the ids of lapsed trials ...
SweepStart(s) ==
    /\ LapsedTrial(row)
    /\ Start(s, [op |-> "sweep"])
    /\ UNCHANGED <<row, trialUsed, sites, stripe, events, taken, missed>>

\* ... and updates by id.
SweepWrite(s) ==
    /\ call[s].op = "sweep"
    /\ row' = [row EXCEPT !.status = "EXPIRED"]
    /\ Finish(s)
    /\ UNCHANGED <<trialUsed, sites, stripe, events, taken, missed>>

-----------------------------------------------------------------------------
(* StripeWebhookService *)

mapStatus(status) ==
    CASE status = "trialing" -> "TRIALING"
      [] status = "active"   -> "ACTIVE"
      [] status = "past_due" -> "PAST_DUE"
      [] status = "canceled" -> "CANCELLED"

\* resolveSubscriptionRow: the row of this subscription, or of an organisation
\* that is on no other.
Resolves_ByOrg(x) == row.status # "NONE"

Resolves(x) == row.status # "NONE" /\ row.sub \in {x, Null}

\* The pending plan an update finds to have landed.
PlanLanded_Ignored == Null

PlanLanded == IF row.due THEN row.pending ELSE Null

MarkerExists_Unchecked(e) == FALSE

MarkerExists(e) == e.marked

Deliverable(n) == n \in DOMAIN events /\ (InOrder => n = 1)

\* handleEvent: one that has its marker is only acknowledged;
Duplicate(n) ==
    /\ Deliverable(n)
    /\ MarkerExists(events[n])
    /\ events' = RemoveAt(events, n)
    /\ UNCHANGED <<row, trialUsed, sites, stripe, call, taken, missed>>

\* one whose marker cannot be written, for whatever other reason, as well;
Lost(s, n) ==
    /\ Free(s)
    /\ Deliverable(n)
    /\ ~MarkerExists(events[n])
    /\ events' = RemoveAt(events, n)
    /\ missed' = missed \cup {events[n].sub}
    /\ Error
    /\ UNCHANGED <<row, trialUsed, sites, stripe, call>>

\* otherwise it gets one, and the handler reads the row.
Deliver(s, n) ==
    LET e == events[n]
    IN  /\ Deliverable(n)
        /\ ~MarkerExists(e)
        /\ events' = RemoveAt(events, n)
        /\ Start(s, [op |-> "event", event |-> e,
                     match |-> IF e.type = "changed" THEN Resolves(e.sub) ELSE row.sub = e.sub,
                     promote |-> PlanLanded])
        /\ UNCHANGED <<row, trialUsed, sites, stripe, taken, missed>>

\* onSubscriptionChanged writes by organisation,
RowAfterChange(e, promote) ==
    LET r == [row EXCEPT !.status = mapStatus(e.status), !.cancelling = e.cancelling,
                         !.sub = e.sub, !.lapsed = FALSE]
    IN  IF promote = Null THEN r ELSE [NoPending(r) EXCEPT !.plan = promote]

\* the handlers that update by subscription id see the row as it is now, and
\* onCheckoutCompleted replaces it.
RowAfter(e, match, promote) ==
    CASE e.type = "changed" /\ match -> RowAfterChange(e, promote)
      [] e.type = "checkout" ->
           [row EXCEPT !.status = IF e.trial THEN "TRIALING" ELSE "ACTIVE",
                       !.plan = e.plan, !.sub = e.sub, !.cancelling = FALSE,
                       !.pending = Null, !.due = FALSE, !.sched = Null]
      [] e.type = "deleted" /\ row.sub = e.sub ->
           [row EXCEPT !.status = "CANCELLED", !.cancelling = FALSE]
      [] e.type = "paid" /\ row.sub = e.sub -> [row EXCEPT !.status = "ACTIVE"]
      [] e.type = "failed" /\ row.sub = e.sub -> [row EXCEPT !.status = "PAST_DUE"]
      [] e.type = "released" /\ row.sched = <<e.sub, e.scheds>> ->
           [row EXCEPT !.sched = Null]
      [] OTHER -> row

\* The acknowledgement may be lost; Stripe then repeats the event.  Bound: one
\* such repetition at a time.
Acknowledge(s, e) ==
    /\ \/ UNCHANGED events
       \/ /\ \A n \in DOMAIN events : ~events[n].marked
          /\ events' = Append(events, [e EXCEPT !.marked = TRUE])
    /\ Finish(s)

\* With e the row knows again what its subscription has come to, whatever was
\* lost before.
Catches(e, match) ==
    \/ e.type = "checkout"
    \/ e.type = "changed" /\ match
    \/ e.type = "deleted" /\ row.sub = e.sub

HandleEvent(s) ==
    LET e == call[s].event
    IN  /\ call[s].op = "event"
        /\ row' = RowAfter(e, call[s].match, call[s].promote)
        /\ missed' = IF Catches(e, call[s].match) THEN missed \ {e.sub} ELSE missed
        /\ IF e.type = "checkout" /\ e.trial
           THEN Continue(s, [op |-> "stamp", event |-> e]) /\ UNCHANGED events
           ELSE Acknowledge(s, e)
        /\ UNCHANGED <<trialUsed, sites, stripe, taken>>

\* freeTrialUsedAt, in a statement of its own.
StampTrial(s) ==
    /\ call[s].op = "stamp"
    /\ trialUsed' = TRUE
    /\ Acknowledge(s, call[s].event)
    /\ UNCHANGED <<row, sites, stripe, taken, missed>>

\* What a handler that ends early has not told the row of.
Misses(s) == IF call[s].op = "event" THEN {call[s].event.sub} ELSE {}

\* A statement fails: the marker is taken back, and Stripe repeats the event.
HandlerFails(s) ==
    /\ call[s].op \in {"event", "stamp"}
    /\ events' = <<call[s].event>> \o events
    /\ Finish(s)
    /\ UNCHANGED <<row, trialUsed, sites, stripe, taken, missed>>

\* The marker stays, because the process stops or its deletion fails too: what
\* Stripe repeats is taken for a duplicate.
MarkerStays(s) ==
    /\ call[s].op \in {"event", "stamp"}
    /\ events' = <<[call[s].event EXCEPT !.marked = TRUE]>> \o events
    /\ missed' = missed \cup Misses(s)
    /\ Error
    /\ Finish(s)
    /\ UNCHANGED <<row, trialUsed, sites, stripe>>

\* The process of a request stops, or one of its statements fails; what it has
\* done stays.
Die(s) ==
    /\ call[s].op \in Mortal
    /\ Finish(s)
    /\ UNCHANGED <<row, trialUsed, sites, stripe, events, taken, missed>>

-----------------------------------------------------------------------------
Request(s) ==
    \/ \E p \in Plans, trial \in BOOLEAN : CheckoutStart(s, p, trial)
    \/ \E p \in Plans : ChangeStart(s, p)
    \/ CancelStart(s) \/ DropStart(s) \/ ResumeStart(s) \/ AddSiteStart(s)

Proceed(s) ==
    \/ CheckoutOpens(s) \/ ReleaseAtStripe(s) \/ ClearPending(s)
    \/ UpgradeAtStripe(s) \/ StoreUpgrade(s)
    \/ CreateSchedule(s) \/ SetPhases(s) \/ StoreDowngrade(s)
    \/ CancelLocal(s) \/ CancelAtStripe(s) \/ StoreCancel(s)
    \/ ResumeAtStripe(s) \/ StoreResume(s)
    \/ AddSite(s) \/ SweepWrite(s) \/ HandleEvent(s) \/ StampTrial(s)

Receive(s) == \E n \in DOMAIN events : Deliver(s, n)

Repetition == \E n \in DOMAIN events : Duplicate(n)
Loss(s) == \E n \in DOMAIN events : Lost(s, n)

Next ==
    \/ StripeStep
    \/ TrialLapses
    \/ \E s \in Slots :
        \/ Request(s) \/ SweepStart(s) \/ Receive(s) \/ Proceed(s)
        \/ Loss(s) \/ HandlerFails(s) \/ MarkerStays(s) \/ Die(s)
    \/ Repetition

Spec == Init /\ [][Next]_vars

(***************************************************************************)
(* Handlers run to their end, Stripe repeats an event until it is          *)
(* acknowledged, and the trial job runs every hour.  Strong, because a     *)
(* statement may fail any finite number of times, and because a handler    *)
(* may have to wait for its turn where MaxBusy says so.                    *)
(***************************************************************************)
Fairness ==
    /\ \A s \in Slots :
        /\ SF_vars(Proceed(s)) /\ SF_vars(StampTrial(s))
        /\ SF_vars(Receive(s))
        /\ SF_vars(SweepStart(s))
    /\ WF_vars(Repetition)

FairSpec == Spec /\ Fairness

-----------------------------------------------------------------------------
(* Properties *)

Settled == events = <<>> /\ Busy = {}

(***************************************************************************)
(* When every event has been handled, the row says of its subscription     *)
(* what Stripe says of it: the status, and whether it is about to end      *)
(* (onCheckoutCompleted: "the follow-up customer.subscription.* event      *)
(* confirms whichever it ends up being").  An event whose marker outlives  *)
(* its handling, or cannot be written, is lost; the next one about the     *)
(* subscription itself makes up for it.                                    *)
(***************************************************************************)
RowMirrorsStripe ==
    Settled /\ row.sub # Null /\ row.sub \notin missed
      => LET x == stripe[row.sub]
         IN  /\ row.status = mapStatus(x.status)
             /\ x.status \in LiveAtStripe => row.cancelling = x.cancelling

(***************************************************************************)
(* handleEvent: the marker is taken back "so Stripe's retry can succeed":  *)
(* the same whatever fails.                                                *)
(***************************************************************************)
RowMirrorsStripeAfterAll ==
    Settled /\ row.sub # Null => row.status = mapStatus(stripe[row.sub].status)

(***************************************************************************)
(* ... and the plan that is paid for.                                      *)
(***************************************************************************)
PlanMirrorsStripe ==
    Settled /\ row.sub # Null => row.plan = stripe[row.sub].plan

(***************************************************************************)
(* resolveSubscriptionRow: "events from the stale one must not overwrite   *)
(* the live row".  Once the row is on a subscription, no event about       *)
(* another one changes it, except that a checkout has been completed.      *)
(***************************************************************************)
StaleEventsIgnored ==
    [][\A s \in Slots :
          /\ call[s].op = "event"
          /\ call[s].event.type # "checkout"
          /\ call'[s] # call[s]
          /\ row.sub \notin {call[s].event.sub, Null}
          => row' = row]_vars

\* Something about x was lost, and nothing is on its way that makes up for it.
Forgotten(x) ==
    /\ x \in missed
    /\ \A n \in DOMAIN events : events[n].sub # x
    /\ \A s \in Slots : call[s].op \in {"event", "stamp"} => call[s].event.sub # x

(***************************************************************************)
(* A subscription that ended at Stripe, because nobody pays or somebody    *)
(* cancelled, stops granting access (the write gate of                     *)
(* SubscriptionInterceptor), unless the event that says so is lost         *)
(* (handleEvent): an earlier loss is no excuse.                            *)
(***************************************************************************)
EndedLosesAccess ==
    \A x \in Subs :
        stripe[x].status = "canceled" /\ row.sub = x
          ~> ~(row.sub = x /\ Entitled) \/ Forgotten(x)

(***************************************************************************)
(* A trial with nothing behind it at Stripe ends: "they expire and the org *)
(* is blocked until it checks out" (expireLapsedTrials).                   *)
(***************************************************************************)
LocalTrialsEnd ==
    row.status = "TRIALING" /\ row.sub = Null /\ row.lapsed
      ~> row.status # "TRIALING" \/ row.sub # Null

(***************************************************************************)
(* A plan change scheduled for the end of a period does not stay pending   *)
(* when the period is over, unless the subscription is over as well, or    *)
(* what Stripe says of the new period is lost (onSubscriptionChanged,      *)
(* releaseSchedule).                                                       *)
(***************************************************************************)
ScheduledChangeLands ==
    row.pending # Null /\ row.due
      ~> row.pending = Null \/ row.status = "CANCELLED" \/ Forgotten(row.sub)

(***************************************************************************)
(* cancelPendingPlanChange: "You stay on ...".  A change Stripe is still   *)
(* going to make when nobody is at work is one the row shows.              *)
(***************************************************************************)
ScheduledChangeShown ==
    Settled /\ row.sub # Null /\ stripe[row.sub].sched = "waiting" => row.pending # Null

(***************************************************************************)
(* A schedule that is still attached is one the row can have released: a   *)
(* cancellation is refused by Stripe otherwise ("A scheduled downgrade     *)
(* would otherwise keep the subscription alive past the cancellation       *)
(* date").                                                                 *)
(***************************************************************************)
AttachedIsKnown ==
    Settled /\ row.sub # Null /\ stripe[row.sub].sched # "none"
      => row.sched = <<row.sub, stripe[row.sub].scheds>>

(***************************************************************************)
(* A site is only added while the plan is paid for and covers it: "Throws  *)
(* when adding another site would exceed the plan's site allowance".       *)
(***************************************************************************)
SitesWithinPlan ==
    [][sites' > sites => Entitled /\ sites' <= MaxSites[row.plan]]_vars

(***************************************************************************)
(* assertNoLiveSubscription: "Without this an org with a live plan would   *)
(* end up with a second Stripe subscription billing alongside the first".  *)
(***************************************************************************)
OneLiveSubscription ==
    \A x, y \in Subs :
        stripe[x].status \in LiveAtStripe /\ stripe[y].status \in LiveAtStripe => x = y

(***************************************************************************)
(* No trial begins for an organisation that has had one (freeTrialUsedAt). *)
(***************************************************************************)
OneTrial ==
    [][\A x \in Subs :
          stripe[x].status = "openTrial" /\ stripe'[x].status = "trialing" => ~trialUsed]_vars
=============================================================================
