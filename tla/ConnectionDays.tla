--------------------------- MODULE ConnectionDays ---------------------------
(***************************************************************************)
(* The daily loop of the standing connections of one business site         *)
(* (ConnectionDailyService, the prompts of ConnectionNotifier and the      *)
(* sweeps of ConnectionWorker).  A member of Days is today's day of one    *)
(* connection.  The business is asked what is left; what it lists is       *)
(* reserved for the charity of the connection; if the charity does not     *)
(* claim it, it is released to the network.                                *)
(*                                                                         *)
(* No handler of this service holds a lock between its reads and its       *)
(* writes, so each is a sequence of steps; creq[s] is what the handler in  *)
(* slot s has read and does next.                                          *)
(***************************************************************************)
EXTENDS MarketStore

CONSTANTS
    Donor,        \* the organisation of the site
    Receiver,     \* [Days -> Orgs]: the charity of each connection
    Schedule,     \* [Days -> [prompt, listBy, cutoff, start, end: Nat]]
    Pausable,     \* days of connections that are paused and resumed
    EndOfTime,    \* bound on the clock
    Surplus,      \* the surpluses the kitchen may enter: kg of every item
    PushFailures, \* where queueing a push may fail: "before" or "after" its
                  \* notification record is written
    MaxPush,      \* bound on the prompts written for one day when queueing fails
    MaxBusy,      \* bound on the handlers in progress at the same time
    MayDie        \* whether the process may die in the middle of a handler

\* resolveDay and validateSchedule: listBy, which is an hour before the start
\* whatever the lead time is, may come before prompt.
ASSUME DaysAssumption ==
    /\ Donor \in Orgs
    /\ Receiver \in [Days -> Orgs]
    /\ \A d \in Days :
        /\ Schedule[d] \in [prompt: Nat, listBy: Nat, cutoff: Nat, start: Nat, end: Nat]
        /\ Schedule[d].prompt <= Schedule[d].cutoff
        /\ Schedule[d].listBy <= Schedule[d].cutoff
        /\ Schedule[d].cutoff <= Schedule[d].start
        /\ Schedule[d].start < Schedule[d].end
    /\ Pausable \subseteq Days
    /\ Surplus \subseteq [Items -> Nat]
    /\ PushFailures \subseteq {"before", "after"}
    /\ {EndOfTime, MaxPush, MaxBusy} \subseteq Nat
    /\ MayDie \in BOOLEAN
    /\ IsFiniteSet(Slots)

VARIABLES
    now,        \* the clock
    collecting, \* whether the connection of a day is ACTIVE
    info,       \* the other columns of connection_days, and the pushes sent
    window,     \* the day whose pickup window ends a listing, or Null
    creq        \* handlers in progress

daysVars == <<now, collecting, info, window, creq>>

-----------------------------------------------------------------------------
(* prompted: promptedAt is set.  late: publishedAt is not before cutoffAt. *)
(* responded: respondedAt is set.  pushed, stuck: prompts that reached the *)
(* queue, and prompts whose record was written but not queued.  told: the  *)
(* charity was told that nothing is coming.                                *)
DayInfo ==
    [prompted: BOOLEAN, late: BOOLEAN, responded: BOOLEAN,
     pushed: Nat, stuck: Nat, reminded: BOOLEAN, told: BOOLEAN]

NoInfo ==
    [prompted |-> FALSE, late |-> FALSE, responded |-> FALSE,
     pushed |-> 0, stuck |-> 0, reminded |-> FALSE, told |-> FALSE]

DayIdle == [op |-> "idle"]

\* What the cut-off sweep remembers of a day it found PUBLISHED.
Pending == [day: Days, listing: Listings, late: BOOLEAN, responded: BOOLEAN]

PromptReq == [op: {"open", "prompt", "push", "clear"}, day: Days]
AnswerReq == [op: {"surplus", "noSurplus"}, day: Days]
ReleaseReq == [op: {"release"}, day: Days, listing: Listings,
               trigger: ListingReleaseReason, fresh: BOOLEAN, todo: SUBSET Pending]
MoveReq == [op: {"target", "move"}, from: Days, to: Days, listing: Listings]
SweepReq == [op: {"sweep"}, todo: SUBSET Pending]
CloseReq == [op: {"close"}, day: Days, todo: SUBSET Pending]
MissedReq == [op: {"missed"}, days: SUBSET Days]
RemindReq == [op: {"remind", "unremind", "tell"}, day: Days, days: SUBSET Days]

DayRequest ==
    {DayIdle} \cup PromptReq \cup AnswerReq \cup ReleaseReq \cup MoveReq
      \cup SweepReq \cup CloseReq \cup MissedReq \cup RemindReq

DaysTypeOK ==
    /\ StoreTypeOK
    /\ now \in Nat
    /\ collecting \in [Days -> BOOLEAN]
    /\ info \in [Days -> DayInfo]
    /\ window \in [Listings -> Days \cup {Null}]
    /\ creq \in [Slots -> DayRequest]

DaysInit ==
    /\ StoreInit
    /\ now = 0
    /\ collecting = [d \in Days |-> TRUE]
    /\ info = [d \in Days |-> NoInfo]
    /\ window = [l \in Listings |-> Null]
    /\ creq = [s \in Slots |-> DayIdle]

Busy == {s \in Slots : creq[s] # DayIdle}

\* A handler begins, goes on or ends.
Enter(s, r) ==
    /\ creq[s] = DayIdle
    /\ Cardinality(Busy) < MaxBusy
    /\ creq' = [creq EXCEPT ![s] = r]
Go(s, r) == creq' = [creq EXCEPT ![s] = r]
Leave(s) == Go(s, DayIdle)

\* What each group of steps leaves alone.
OnlyHandler == UNCHANGED <<storeVars, now, collecting, info, window>>
OnlyDays == UNCHANGED <<listing, stock, claim, pickup, ratingCount, lock,
                        now, collecting, window>>
OnlyListing == UNCHANGED <<stock, claim, pickup, ratingCount, lock, now, collecting>>

-----------------------------------------------------------------------------
(* The environment *)

\* The clock moves on; a listing whose pickup window ends becomes due.
Tick ==
    /\ now < EndOfTime
    /\ now' = now + 1
    /\ listing' = [l \in Listings |->
            IF window[l] # Null /\ now' >= Schedule[window[l]].end
            THEN [listing[l] EXCEPT !.due = TRUE]
            ELSE listing[l]]
    /\ UNCHANGED <<stock, claim, pickup, day, ratingCount, lock,
                   collecting, info, window, creq>>

\* Either side pauses, resumes or ends the connection.
ConnectionChanges(d) ==
    /\ collecting' = [collecting EXCEPT ![d] = ~@]
    /\ UNCHANGED <<storeVars, now, info, window, creq>>

-----------------------------------------------------------------------------
(* The prompt: promptDueCollections, listTodayForSite, ensureOpenToday *)

\* An ACTIVE connection with a day that is due: from promptAt until the window ends.
PromptStart(s, d) ==
    /\ collecting[d]
    /\ Schedule[d].prompt <= now
    /\ now < Schedule[d].end
    /\ Enter(s, [op |-> "open", day |-> d])
    /\ OnlyHandler

\* openDay: the row of today, created unless it is there (unique key).
OpenRow(d) ==
    IF day[d].outcome = "NONE" THEN [day EXCEPT ![d].outcome = "PROMPTED"] ELSE day

OpenDay(s) ==
    /\ creq[s].op = "open"
    /\ day' = OpenRow(creq[s].day)
    /\ Go(s, [op |-> "prompt", day |-> creq[s].day])
    /\ UNCHANGED info
    /\ OnlyDays

\* dailyPromptOnce: the conditional update that claims the prompt ...
MayPrompt_NotClaimed(d) == day[d].outcome = "PROMPTED" /\ day[d].listing = Null

MayPrompt(d) ==
    /\ ~info[d].prompted
    /\ day[d].outcome = "PROMPTED"
    /\ day[d].listing = Null

ClaimPrompt(s) ==
    LET d == creq[s].day
    IN  /\ creq[s].op = "prompt"
        /\ IF MayPrompt(d)
           THEN info' = [info EXCEPT ![d].prompted = TRUE] /\ Go(s, [op |-> "push", day |-> d])
           ELSE UNCHANGED info /\ Leave(s)
        /\ UNCHANGED day
        /\ OnlyDays

\* ... the push, which is in the queue or not ...
PushPrompt(s) ==
    LET d == creq[s].day
    IN  /\ creq[s].op = "push"
        /\ \/ info' = [info EXCEPT ![d].pushed = @ + 1] /\ Leave(s)
           \/ /\ "before" \in PushFailures
              /\ Go(s, [op |-> "clear", day |-> d])
              /\ UNCHANGED info
           \/ /\ "after" \in PushFailures
              /\ info[d].pushed + info[d].stuck < MaxPush
              /\ info' = [info EXCEPT ![d].stuck = @ + 1]
              /\ Go(s, [op |-> "clear", day |-> d])
        /\ UNCHANGED day
        /\ OnlyDays

\* ... and if it is not, promptedAt is cleared, on condition that it is still the
\* one that was set (it is: nothing claims a prompt that is set), for a retry.
ClearPrompt(s) ==
    /\ creq[s].op = "clear"
    /\ info' = [info EXCEPT ![creq[s].day].prompted = FALSE]
    /\ Leave(s)
    /\ UNCHANGED day
    /\ OnlyDays

\* recoverStuckQueued: a record that is still queued is put in the queue again.
RecoverPush(d) ==
    /\ info[d].stuck > 0
    /\ info' = [info EXCEPT ![d].stuck = @ - 1, ![d].pushed = @ + 1]
    /\ UNCHANGED <<day, creq>>
    /\ OnlyDays

-----------------------------------------------------------------------------
(* The business answers *)

\* PROMPTED, or NO_RESPONSE: a late answer is accepted until the window ends.
Answerable_Late(d) ==
    /\ day[d].outcome \in {"PROMPTED", "NO_RESPONSE", "MISSED"}
    /\ now < Schedule[d].end

Answerable(d) ==
    /\ day[d].outcome \in {"PROMPTED", "NO_RESPONSE"}
    /\ now < Schedule[d].end

\* A listing id is set aside for every addDailySurplus in progress.
SurplusRoom ==
    Cardinality({l \in Listings : listing[l].status = "NONE"})
      > Cardinality({s \in Slots : creq[s].op = "surplus"})

SurplusRead(s, d) ==
    /\ SurplusRoom
    /\ Answerable(d)
    /\ collecting[d]
    /\ Enter(s, [op |-> "surplus", day |-> d])
    /\ OnlyHandler

\* addDailySurplus: the listing, reserved for the charity, and the day.
SurplusWrite(s, l, qty) ==
    LET d == creq[s].day
    IN  /\ creq[s].op = "surplus"
        /\ listing[l].status = "NONE"
        /\ Kg(qty) > 0
        /\ listing' = [listing EXCEPT ![l] =
                [NoListing EXCEPT !.status = "ACTIVE", !.org = Donor,
                                  !.total = Kg(qty), !.remaining = Kg(qty),
                                  !.exclusiveTo = Receiver[d],
                                  !.due = now >= Schedule[d].end]]
        /\ stock' = [stock EXCEPT ![l] =
                [i \in Items |-> [total |-> qty[i], remaining |-> qty[i]]]]
        /\ window' = [window EXCEPT ![l] = d]
        /\ day' = [day EXCEPT ![d].outcome = "PUBLISHED", ![d].listing = l]
        /\ info' = [info EXCEPT ![d].late = now >= Schedule[d].cutoff]
        /\ Leave(s)
        /\ UNCHANGED <<claim, pickup, ratingCount, lock, now, collecting>>

NoSurplusRead(s, d) ==
    /\ Answerable(d)
    /\ Enter(s, [op |-> "noSurplus", day |-> d])
    /\ OnlyHandler

\* declareNoSurplus: the day, and the charity is told.
NoSurplusWrite_Declined(s) ==
    /\ creq[s].op = "noSurplus"
    /\ day' = [day EXCEPT ![creq[s].day].outcome = "DECLINED"]
    /\ info' = [info EXCEPT ![creq[s].day].responded = TRUE]
    /\ Leave(s)
    /\ OnlyDays

NoSurplusWrite(s) ==
    /\ creq[s].op = "noSurplus"
    /\ day' = [day EXCEPT ![creq[s].day].outcome = "NO_SURPLUS"]
    /\ info' = [info EXCEPT ![creq[s].day].responded = TRUE]
    /\ Leave(s)
    /\ OnlyDays

-----------------------------------------------------------------------------
(* Release and reassignment *)

(***************************************************************************)
(* charityCannotCollect and releaseToNetwork, until release has checked    *)
(* the listing.  fresh: the release gives the listing a new pickup window, *)
(* which the business may set when it releases.                            *)
(***************************************************************************)
ReleaseRead(s, d, trigger, fresh) ==
    /\ day[d].outcome = "PUBLISHED"
    /\ day[d].listing # Null
    /\ OpenListing(day[d].listing)
    /\ fresh => trigger = "BUSINESS_RELEASED"
    /\ Enter(s, [op |-> "release", day |-> d, listing |-> day[d].listing,
                 trigger |-> trigger, fresh |-> fresh, todo |-> {}])
    /\ OnlyHandler

\* The transaction of release: two updates by id.
ReleaseWrite(s) ==
    LET r == creq[s]
    IN  /\ r.op = "release"
        /\ RowFree(r.listing)
        /\ listing' = [listing EXCEPT ![r.listing].released = r.trigger,
                                      ![r.listing].due = @ /\ ~r.fresh]
        /\ window' = IF r.fresh THEN [window EXCEPT ![r.listing] = Null] ELSE window
        /\ day' = [day EXCEPT ![r.day].outcome = "RELEASED"]
        /\ info' = [info EXCEPT ![r.day].responded = TRUE]
        /\ IF r.trigger = "AUTO_RELEASED"
           THEN Go(s, [op |-> "sweep", todo |-> r.todo])
           ELSE Leave(s)
        /\ OnlyListing

\* reassignToConnection: the day and its listing, untouched and reserved ...
MoveRead_OnlyActive(s, from, to) ==
    /\ from # to
    /\ day[from].listing # Null
    /\ listing[day[from].listing].status = "ACTIVE"
    /\ collecting[to]
    /\ now < Schedule[to].end
    /\ Enter(s, [op |-> "target", from |-> from, to |-> to, listing |-> day[from].listing])
    /\ OnlyHandler

MoveRead(s, from, to) ==
    /\ from # to
    /\ day[from].outcome = "PUBLISHED"
    /\ day[from].listing # Null
    /\ listing[day[from].listing].status = "ACTIVE"
    /\ listing[day[from].listing].released = "NO"
    /\ collecting[to]
    /\ now < Schedule[to].end
    /\ Enter(s, [op |-> "target", from |-> from, to |-> to, listing |-> day[from].listing])
    /\ OnlyHandler

\* ... the row of the other connection, created if needed, still unanswered ...
MoveTarget(s) ==
    LET to == creq[s].to
    IN  /\ creq[s].op = "target"
        /\ day' = OpenRow(to)
        /\ IF day'[to].outcome \in {"PROMPTED", "NO_RESPONSE"} /\ day'[to].listing = Null
           THEN Go(s, [creq[s] EXCEPT !.op = "move"])
           ELSE Leave(s)
        /\ UNCHANGED info
        /\ OnlyDays

\* ... and three updates by id in one transaction.
MoveWrite_NoWait(s) ==
    LET r == creq[s]
    IN  /\ r.op = "move"
        /\ listing' = [listing EXCEPT ![r.listing].exclusiveTo = Receiver[r.to],
                                      ![r.listing].released = "NO",
                                      ![r.listing].due = now >= Schedule[r.to].end]
        /\ window' = [window EXCEPT ![r.listing] = r.to]
        /\ day' = [day EXCEPT ![r.from] = [outcome |-> "RELEASED", listing |-> Null],
                              ![r.to] = [outcome |-> "PUBLISHED", listing |-> r.listing]]
        /\ info' = [info EXCEPT ![r.from].responded = TRUE,
                                ![r.to].late = now >= Schedule[r.to].cutoff]
        /\ Leave(s)
        /\ OnlyListing

MoveWrite_KeepsDay(s) ==
    LET r == creq[s]
    IN  /\ r.op = "move"
        /\ RowFree(r.listing)
        /\ listing' = [listing EXCEPT ![r.listing].exclusiveTo = Receiver[r.to],
                                      ![r.listing].released = "NO",
                                      ![r.listing].due = now >= Schedule[r.to].end]
        /\ window' = [window EXCEPT ![r.listing] = r.to]
        /\ day' = [day EXCEPT ![r.to] = [outcome |-> "PUBLISHED", listing |-> r.listing]]
        /\ info' = [info EXCEPT ![r.from].responded = TRUE,
                                ![r.to].late = now >= Schedule[r.to].cutoff]
        /\ Leave(s)
        /\ OnlyListing

MoveWrite(s) ==
    LET r == creq[s]
    IN  /\ r.op = "move"
        /\ RowFree(r.listing)
        /\ listing' = [listing EXCEPT ![r.listing].exclusiveTo = Receiver[r.to],
                                      ![r.listing].released = "NO",
                                      ![r.listing].due = now >= Schedule[r.to].end]
        /\ window' = [window EXCEPT ![r.listing] = r.to]
        /\ day' = [day EXCEPT ![r.from] = [outcome |-> "RELEASED", listing |-> Null],
                              ![r.to] = [outcome |-> "PUBLISHED", listing |-> r.listing]]
        /\ info' = [info EXCEPT ![r.from].responded = TRUE,
                                ![r.to].late = now >= Schedule[r.to].cutoff]
        /\ Leave(s)
        /\ OnlyListing

-----------------------------------------------------------------------------
(* The cut-off sweep: sweepUnconfirmed, then sweepMissed *)

PublishedDays ==
    {[day |-> d, listing |-> day[d].listing,
      late |-> info[d].late, responded |-> info[d].responded] :
        d \in {e \in Days : day[e].outcome = "PUBLISHED" /\ day[e].listing # Null}}

\* PROMPTED days whose list-by time has come.
SilentDays == {d \in Days : day[d].outcome = "PROMPTED" /\ Schedule[d].listBy <= now}

SweepStart(w) ==
    /\ PublishedDays # {} \/ SilentDays # {}
    /\ Enter(w, [op |-> "sweep", todo |-> PublishedDays])
    /\ OnlyHandler

\* connection.rules shouldAutoRelease, of a day that was PUBLISHED when read
shouldAutoRelease_NotLate(e) ==
    now >= Schedule[e.day].cutoff /\ ~e.late

shouldAutoRelease_InTime(e) ==
    now >= Schedule[e.day].cutoff /\ now < Schedule[e.day].end

shouldAutoRelease(e) ==
    \/ now >= Schedule[e.day].end
    \/ now >= Schedule[e.day].cutoff /\ ~e.late

\* connection.rules shouldEscalateToBusiness
shouldEscalateToBusiness(e) ==
    /\ Schedule[e.day].cutoff <= now
    /\ now < Schedule[e.day].start
    /\ ~e.late

\* One day of the list, which was read before the first of them was handled.
SweepDay(w, e) ==
    LET status == listing[e.listing].status
        rest == creq[w].todo \ {e}
    IN  /\ creq[w].op = "sweep"
        /\ e \in creq[w].todo
        /\ \/ /\ OpenListing(e.listing)
              /\ shouldAutoRelease(e)
              /\ Go(w, [op |-> "release", day |-> e.day, listing |-> e.listing,
                        trigger |-> "AUTO_RELEASED", fresh |-> listing[e.listing].due,
                        todo |-> rest])
              /\ UNCHANGED info
           \/ /\ OpenListing(e.listing)
              /\ ~shouldAutoRelease(e)
              /\ info' = IF ~e.responded /\ shouldEscalateToBusiness(e)
                         THEN [info EXCEPT ![e.day].responded = TRUE,
                                           ![e.day].reminded = TRUE]
                         ELSE info
              /\ Go(w, [op |-> "sweep", todo |-> rest])
           \/ /\ status = "CLAIMED"
              /\ Go(w, [op |-> "sweep", todo |-> rest])
              /\ UNCHANGED info
           \/ /\ status \in {"EXPIRED", "CANCELLED"}
              /\ Go(w, [op |-> "close", day |-> e.day, todo |-> rest])
              /\ UNCHANGED info
        /\ UNCHANGED day
        /\ OnlyDays

\* skipOrCloseIfNotReleasable: the listing is gone.
CloseDay(w) ==
    /\ creq[w].op = "close"
    /\ day' = [day EXCEPT ![creq[w].day].outcome = "MISSED"]
    /\ info' = [info EXCEPT ![creq[w].day].responded = TRUE]
    /\ Go(w, [op |-> "sweep", todo |-> creq[w].todo])
    /\ OnlyDays

Missed(days) == IF days = {} THEN DayIdle ELSE [op |-> "missed", days |-> days]

MissedStart(w) ==
    /\ creq[w].op = "sweep"
    /\ creq[w].todo = {}
    /\ Go(w, Missed(SilentDays))
    /\ OnlyHandler

\* sweepMissed: the conditional update that claims the silence ...
Silent(d) == day[d].outcome = "PROMPTED" /\ day[d].listing = Null

MarkSilent(w, d) ==
    /\ creq[w].op = "missed"
    /\ d \in creq[w].days
    /\ IF Silent(d)
       THEN /\ day' = [day EXCEPT ![d].outcome = "NO_RESPONSE"]
            /\ info' = [info EXCEPT ![d].responded = TRUE]
            /\ Go(w, [op |-> "remind", day |-> d, days |-> creq[w].days \ {d}])
       ELSE /\ Go(w, Missed(creq[w].days \ {d}))
            /\ UNCHANGED <<day, info>>
    /\ OnlyDays

\* ... the last reminder to the business, which is queued or not ...
Remind_Ends(w) ==
    /\ creq[w].op = "remind"
    /\ Go(w, Missed(creq[w].days))
    /\ OnlyHandler

Remind(w) ==
    /\ creq[w].op = "remind"
    /\ \/ Go(w, [creq[w] EXCEPT !.op = "tell"])
       \/ PushFailures # {} /\ Go(w, [creq[w] EXCEPT !.op = "unremind"])
    /\ OnlyHandler

\* ... if not, the mark is taken back, unless the day has moved on ...
Unremind_Unchecked(w) ==
    LET d == creq[w].day
    IN  /\ creq[w].op = "unremind"
        /\ day' = [day EXCEPT ![d].outcome = "PROMPTED"]
        /\ info' = [info EXCEPT ![d].responded = FALSE]
        /\ Go(w, Missed(creq[w].days))
        /\ OnlyDays

Unremind(w) ==
    LET d == creq[w].day
    IN  /\ creq[w].op = "unremind"
        /\ IF day[d].outcome = "NO_RESPONSE" /\ info[d].responded
           THEN /\ day' = [day EXCEPT ![d].outcome = "PROMPTED"]
                /\ info' = [info EXCEPT ![d].responded = FALSE]
           ELSE UNCHANGED <<day, info>>
        /\ Go(w, Missed(creq[w].days))
        /\ OnlyDays

\* ... and else the charity is told that nothing is coming.
TellCharity(w) ==
    /\ creq[w].op = "tell"
    /\ info' = [info EXCEPT ![creq[w].day].told = TRUE]
    /\ Go(w, Missed(creq[w].days))
    /\ UNCHANGED day
    /\ OnlyDays

-----------------------------------------------------------------------------
\* The process dies, or a statement fails, in the middle of a handler.
Die(s) ==
    /\ MayDie
    /\ creq[s] # DayIdle
    /\ Leave(s)
    /\ OnlyHandler

\* The steps that carry on a handler in progress.
RequestStep(s) ==
    \/ OpenDay(s)
    \/ ClaimPrompt(s)
    \/ PushPrompt(s)
    \/ ClearPrompt(s)
    \/ \E l \in Listings, qty \in Surplus : SurplusWrite(s, l, qty)
    \/ NoSurplusWrite(s)
    \/ ReleaseWrite(s)
    \/ MoveTarget(s)
    \/ MoveWrite(s)

SweepStep(w) ==
    \/ \E e \in Pending : SweepDay(w, e)
    \/ CloseDay(w)
    \/ MissedStart(w)
    \/ \E d \in Days : MarkSilent(w, d)
    \/ Remind(w)
    \/ Unremind(w)
    \/ TellCharity(w)

DaysNext ==
    \/ Tick
    \/ \E d \in Pausable : ConnectionChanges(d)
    \/ \E d \in Days : RecoverPush(d)
    \/ \E s \in Slots, d \in Days : PromptStart(s, d)
    \/ \E s \in Requests, d \in Days :
        \/ SurplusRead(s, d)
        \/ NoSurplusRead(s, d)
        \/ \E trigger \in {"CHARITY_DECLINED", "BUSINESS_RELEASED"}, fresh \in BOOLEAN :
            ReleaseRead(s, d, trigger, fresh)
        \/ \E to \in Days : MoveRead(s, d, to)
    \/ \E w \in Workers : SweepStart(w)
    \/ \E s \in Slots : RequestStep(s) \/ SweepStep(s) \/ Die(s)

DaysSpec == DaysInit /\ [][DaysNext]_<<storeVars, daysVars>>

(***************************************************************************)
(* The clock goes on, a handler that was started is finished, and the      *)
(* sweeps run every minute.                                                *)
(***************************************************************************)
DaysFairness ==
    /\ WF_<<storeVars, daysVars>>(Tick)
    /\ \A s \in Slots :
        SF_<<storeVars, daysVars>>(RequestStep(s)) /\ SF_<<storeVars, daysVars>>(SweepStep(s))
    /\ \A w \in Workers : SF_<<storeVars, daysVars>>(SweepStart(w))

DaysFairSpec == DaysSpec /\ DaysFairness

-----------------------------------------------------------------------------
(* Properties *)

(***************************************************************************)
(* The prompt is sent at most once per day row, whichever path opened the  *)
(* row and however often queueing it fails (dailyPromptOnce).              *)
(***************************************************************************)
PromptAtMostOnce == \A d \in Days : info[d].pushed + info[d].stuck <= 1

(***************************************************************************)
(* A day that got its answer (surplus, no surplus, released, collected)    *)
(* never goes back to waiting for one: the sweep that marks silence and    *)
(* the one that takes the mark back leave an answered day alone.           *)
(***************************************************************************)
AnswersStand ==
    [][\A d \in Days :
          day[d].outcome \notin {"NONE", "PROMPTED", "NO_RESPONSE"}
            => day'[d].outcome \notin {"NONE", "PROMPTED", "NO_RESPONSE"}]_<<storeVars, daysVars>>

(***************************************************************************)
(* A day has one surplus: while it is PUBLISHED its listing does not       *)
(* change ("Today's collection has already been published").               *)
(***************************************************************************)
OneSurplusPerDay ==
    [][\A d \in Days :
          day[d].outcome = "PUBLISHED" /\ day'[d].outcome = "PUBLISHED"
            => day'[d].listing = day[d].listing]_<<storeVars, daysVars>>

(***************************************************************************)
(* Once released a listing is public for good (connection.rules            *)
(* isExclusive; FoodListing.releasedAt is "Never unset").                  *)
(***************************************************************************)
ReleasedForGood ==
    [][\A l \in Listings :
          listing[l].released # "NO" => listing'[l].released # "NO"]_<<storeVars, daysVars>>

(***************************************************************************)
(* Every listing that is on offer and reserved is the listing of exactly   *)
(* one published day, the one of the charity it is reserved for: what no   *)
(* day knows no sweep ever releases.                                       *)
(***************************************************************************)
ReservationsKnown ==
    \A l \in Listings :
        OpenListing(l) /\ isExclusive(listing[l])
          => \E d \in Days :
                /\ {e \in Days : day[e].outcome = "PUBLISHED" /\ day[e].listing = l} = {d}
                /\ listing[l].exclusiveTo = Receiver[d]

(***************************************************************************)
(* The charity is told that nothing is coming only while the business has  *)
(* not answered ("Add food and quantities now or they will be told").      *)
(***************************************************************************)
ToldOnlyOfSilence ==
    [][\A d \in Days :
          info'[d].told /\ ~info[d].told
            => day[d].outcome = "NO_RESPONSE"]_<<storeVars, daysVars>>

(***************************************************************************)
(* sweepUnconfirmed reminds the business at cut-off before it releases     *)
(* what the charity has not claimed.                                       *)
(***************************************************************************)
RemindedBeforeRelease ==
    [][\A l \in Listings :
          /\ listing[l].released = "NO"
          /\ listing'[l].released = "AUTO_RELEASED"
          /\ ~listing[l].due
          => \E d \in Days : day[d].listing = l /\ info[d].reminded]_<<storeVars, daysVars>>

(***************************************************************************)
(* Reserved food is not left behind: a reservation ends, at the latest     *)
(* after its pickup window, by a claim or by the sweep that releases it.   *)
(***************************************************************************)
ReservedFoodIsFreed ==
    \A l \in Listings :
        OpenListing(l) /\ isExclusive(listing[l])
          ~> ~(OpenListing(l) /\ isExclusive(listing[l]))

(***************************************************************************)
(* promptedAt records that the push was queued: opening a row never        *)
(* swallows it (openDay, dailyPromptOnce).                                 *)
(***************************************************************************)
PromptNotSwallowed ==
    \A d \in Days :
        info[d].prompted
          => \/ info[d].pushed + info[d].stuck > 0
             \/ \E s \in Slots : creq[s].op \in {"push", "clear"} /\ creq[s].day = d

(***************************************************************************)
(* When the business stays silent the charity is told not to wait.         *)
(***************************************************************************)
SilenceIsTold ==
    \A d \in Days :
        day[d].outcome = "NO_RESPONSE"
          ~> info[d].told \/ day[d].outcome # "NO_RESPONSE"
=============================================================================
