--------------------------- MODULE Notifications ---------------------------
(***************************************************************************)
(* Push notifications: NotificationService writes a row and queues a       *)
(* fan-out job, NotificationWorker sends it to the devices in batches,     *)
(* counts what the providers answer, queues again what may yet arrive and  *)
(* gives the row its final status; a repeated repair queues rows again     *)
(* whose job was lost.                                                     *)
(*                                                                         *)
(* Jobs run concurrently; jobs[k].pc says how far job k is, and a job that *)
(* is interrupted starts over.  The delay of a job only decides when it is *)
(* taken, which may be at any time here.                                   *)
(***************************************************************************)
EXTENDS Naturals, FiniteSets, Functions

CONSTANTS
    People, Devices,
    Expo,         \* the devices with an Expo token; the others have FCM's
    MaxNotes,     \* bound: rows of notification_records
    MAX_TOKEN_RETRY_GENERATIONS, MAX_RECORDED_FAILURES_BEFORE_STOP, JOB_ATTEMPTS,
    Settings,     \* bound: the sizes of batch and worker pool, with the troubles met
    RecoverLimit, \* rows a repair looks at
    LossPoints,   \* statuses of the rows whose fan-out job Redis may lose
    MaxTroubles,  \* bound: how many of those
    Null

Notes == 1..MaxNotes

TERMINAL_NOTIFICATION_STATUSES == {"sent", "failed", "partially_sent"}

\* A row of notification_records.
Row == [status: {"queued", "processing"} \cup TERMINAL_NOTIFICATION_STATUSES, to: SUBSET People,
        success: Nat, failure: Nat, total: Nat]

ASSUME NotificationsAssumption ==
    /\ Null \notin Row
    /\ IsFiniteSet(Devices) /\ Expo \subseteq Devices
    /\ JOB_ATTEMPTS \in Nat \ {0} /\ MaxNotes \in Nat
    /\ MAX_TOKEN_RETRY_GENERATIONS \in Nat /\ MAX_RECORDED_FAILURES_BEFORE_STOP \in Nat \ {0}
    /\ \A s \in Settings : s.batch \in Nat \ {0} /\ s.workers \in Nat \ {0}

VARIABLES
    rows,     \* notification_records
    owner,    \* device_tokens: whose device it is,
    active,   \*   and which devices are active
    fcmReady, \* whether Firebase is configured
    jobs,     \* the queue: the fan-out job of a row, and batches
    sending,  \* rows whose fan-out has yet to be queued by a request
    old,      \* rows created more than 30 minutes ago,
    stale,    \*   and those that were due before yesterday
    fate,     \* history: what came of a row at a device
    repeated, \* history: rows something was done for a second time
    slipped,  \* history: rows of which an answer or the last failure went unrecorded
    setting, left

vars == <<rows, owner, active, fcmReady, jobs, sending, old, stale, fate, repeated, slipped, setting, left>>
devices == <<owner, active, fcmReady, setting>>
ages == <<old, stale>>
history == <<fate, repeated, slipped>>

terminal(n) == rows[n] # Null /\ rows[n].status \in TERMINAL_NOTIFICATION_STATUSES

\* The id of a fan-out is made of the row's.  Two batches may be alike: copy
\* tells them apart.
FanOut(n) == [note |-> n, devices |-> {}, gen |-> 0, copy |-> 0]
Batch(n, ds, generation) ==
    [note |-> n, devices |-> ds, gen |-> generation,
     copy |-> CHOOSE c \in 1..(Cardinality(DOMAIN jobs) + 1) :
                 [note |-> n, devices |-> ds, gen |-> generation, copy |-> c] \notin DOMAIN jobs]
IsFanOut(k) == k.copy = 0

\* A job that is to start, or to start over.  spent: the row it read had too
\* many failures to retry anything; ok and bad count what the providers took
\* and refused, retry is what may yet arrive.
Waiting(k) ==
    [pc |-> "waiting", devices |-> k.devices, tries |-> 0,
     spent |-> FALSE, ok |-> 0, bad |-> 0, retry |-> {}]

At(k, pc) == jobs[k].pc = pc
Running(k) == jobs[k].pc \notin {"waiting", "completed", "failed"}
Restarted(k) == [Waiting(k) EXCEPT !.tries = jobs[k].tries]
Without(k) == Restrict(jobs, DOMAIN jobs \ {k})
With(k) == [i \in DOMAIN jobs \cup {k} |-> IF i = k THEN Waiting(k) ELSE jobs[i]]

\* History.  What came of the row at the devices is told until something is
\* done for it a second time.
Untouched == [d \in Devices |-> [is |-> "untouched", tries |-> 0]]

Becomes(n, ds, is) ==
    fate' = [fate EXCEPT ![n] =
                IF n \in repeated THEN @
                ELSE [d \in Devices |-> IF d \in ds THEN [@[d] EXCEPT !.is = is] ELSE @[d]]]

Repeats(n) ==
    /\ repeated' = repeated \cup {n}
    /\ fate' = [fate EXCEPT ![n] = Untouched]

NotificationsInit ==
    /\ rows = [n \in Notes |-> Null]
    /\ owner \in [Devices -> People]
    /\ active \in SUBSET Devices
    /\ fcmReady \in BOOLEAN
    /\ jobs = <<>>
    /\ sending = {} /\ old = {} /\ stale = {} /\ repeated = {} /\ slipped = {}
    /\ fate = [n \in Notes |-> Untouched]
    /\ setting \in Settings /\ left = MaxTroubles

Trouble(kind) == kind \in setting.troubles /\ left > 0 /\ left' = left - 1

FAN_OUT_BATCH_SIZE == setting.batch
WORKER_CONCURRENCY == setting.workers

-----------------------------------------------------------------------------
(* NotificationService and its callers *)

resolveTokens(people) == {d \in active : owner[d] \in people}

send(n, people) ==
    /\ rows[n] = Null /\ \A m \in 1..(n - 1) : rows[m] # Null
    /\ resolveTokens(people) # {}
    /\ rows' = [rows EXCEPT ![n] = [status |-> "queued", to |-> people, success |-> 0, failure |-> 0,
                                    total |-> Cardinality(resolveTokens(people))]]
    /\ sending' = sending \cup {n}
    /\ UNCHANGED <<devices, jobs, ages, history, left>>

\* A job with the id of one the queue still knows is not added.
enqueueNotification(n) ==
    /\ n \in sending
    /\ sending' = sending \ {n}
    /\ jobs' = IF FanOut(n) \in DOMAIN jobs THEN jobs ELSE With(FanOut(n))
    /\ UNCHANGED <<rows, devices, ages, history, left>>

dispatchExisting(n) ==
    /\ rows[n] # Null /\ Trouble("dispatch")
    /\ rows' = [rows EXCEPT ![n].status = "queued"]
    /\ sending' = sending \cup {n}
    /\ Repeats(n)
    /\ UNCHANGED <<devices, jobs, ages, slipped>>

registerToken(p, d) ==
    /\ Trouble("devices")
    /\ owner' = [owner EXCEPT ![d] = p]
    /\ active' = active \cup {d}
    /\ UNCHANGED <<rows, fcmReady, setting, jobs, sending, ages, history>>

\* One device of theirs, or all.
unregisterTokens(p, ds) ==
    /\ Trouble("devices")
    /\ ds # {} /\ \A d \in ds : owner[d] = p
    /\ active' = active \ ds
    /\ UNCHANGED <<rows, owner, fcmReady, setting, jobs, sending, ages, history>>

-----------------------------------------------------------------------------
(* The worker *)

\* The tokens in chunks of FAN_OUT_BATCH_SIZE, the last of which may be smaller.
Chunks(ds) ==
    {C \in SUBSET SUBSET ds :
        /\ UNION C = ds
        /\ \A c \in C : Cardinality(c) \in 1..FAN_OUT_BATCH_SIZE
        /\ \A c, e \in C : c # e => /\ c \cap e = {}
                                    /\ FAN_OUT_BATCH_SIZE \in {Cardinality(c), Cardinality(e)}}

\* The queue after job k has gone on to j and queued the chunks.
enqueueBatches(k, j, chunks, generation) ==
    LET batches == {Batch(k.note, c, generation) : c \in chunks} IN
    jobs' = [i \in DOMAIN jobs \cup batches |->
                IF i = k THEN j ELSE IF i \in batches THEN Waiting(i) ELSE jobs[i]]

Goes(k, pc) == jobs' = [jobs EXCEPT ![k].pc = pc]

\* handleFanOut, handleSendBatch: nothing is done to a finished row.
WorkerFree == WORKER_CONCURRENCY > Cardinality({k \in DOMAIN jobs : Running(k)})

Take(k) ==
    /\ WorkerFree
    /\ At(k, "waiting") /\ ~terminal(k.note)
    /\ jobs' = [jobs EXCEPT ![k].pc = IF IsFanOut(k) THEN "resolve" ELSE "send",
                            ![k].spent = rows[k.note].failure >= MAX_RECORDED_FAILURES_BEFORE_STOP]
    /\ UNCHANGED <<rows, devices, sending, ages, history, left>>

\* The queue remembers the fan-out of a row; nobody asks after a batch.
Completes(k) ==
    jobs' = IF IsFanOut(k) THEN [jobs EXCEPT ![k] = [Waiting(k) EXCEPT !.pc = "completed"]] ELSE Without(k)

TakeFinished(k) ==
    /\ WorkerFree
    /\ At(k, "waiting") /\ terminal(k.note)
    /\ Completes(k)
    /\ UNCHANGED <<rows, devices, sending, ages, history, left>>

FanOutToNobody(k) ==
    /\ At(k, "resolve") /\ resolveTokens(rows[k.note].to) = {}
    /\ rows' = [rows EXCEPT ![k.note].status = "failed"]
    /\ Completes(k)
    /\ UNCHANGED <<devices, sending, ages, history, left>>

handleFanOut(k) ==
    LET ds == resolveTokens(rows[k.note].to) IN
    /\ At(k, "resolve") /\ ds # {}
    /\ rows' = [rows EXCEPT ![k.note].status = "processing", ![k.note].total = Cardinality(ds)]
    /\ Becomes(k.note, ds, "aimed")
    /\ \/ /\ Cardinality(ds) <= FAN_OUT_BATCH_SIZE
          /\ jobs' = [jobs EXCEPT ![k].pc = "send", ![k].devices = ds]
       \/ /\ Cardinality(ds) > FAN_OUT_BATCH_SIZE
          /\ \E chunks \in Chunks(ds) : enqueueBatches(k, [jobs[k] EXCEPT !.pc = "done"], chunks, 0)
    /\ UNCHANGED <<devices, sending, ages, repeated, slipped, left>>

\* Without Firebase's credentials its devices get no answer.
sendToTokens(ds) == {d \in ds : d \in Expo \/ fcmReady}

\* Each push is taken, refused, or put off; one that failed in a way the
\* gateway does not know is put off.  Of a token that Expo's answer has no
\* ticket for, nothing is noted.
sendBatch(ds) ==
    {a \in [ok: SUBSET ds, bad: SUBSET ds, retry: SUBSET ds] :
        /\ a.ok \cap a.bad = {} /\ (a.ok \cup a.bad) \cap a.retry = {}
        /\ ds \ Expo \subseteq a.ok \cup a.bad \cup a.retry}

\* A device that is refused is deactivated.
Push(k) ==
    LET asked == sendToTokens(jobs[k].devices) IN
    /\ At(k, "send")
    /\ \E answer \in sendBatch(asked) :
        LET ok == answer.ok  bad == answer.bad IN
        /\ active' = active \ bad
        /\ jobs' = [jobs EXCEPT ![k].pc = "count", ![k].ok = Cardinality(ok), ![k].bad = Cardinality(bad),
                                ![k].retry = answer.retry]
        /\ fate' = [fate EXCEPT ![k.note] =
                       IF k.note \in repeated THEN @
                       ELSE [d \in Devices |->
                                [is |-> IF d \in ok THEN "reached" ELSE IF d \in bad THEN "dead" ELSE @[d].is,
                                 tries |-> IF d \in asked THEN @[d].tries + 1 ELSE @[d].tries]]]
        /\ slipped' = IF asked = ok \cup bad \cup answer.retry THEN slipped ELSE slipped \cup {k.note}
    /\ UNCHANGED <<rows, owner, fcmReady, setting, sending, ages, repeated, left>>

shouldRequeueRetryableTokens_Any(k) == ~jobs[k].spent

shouldRequeueRetryableTokens(k) == k.gen < MAX_TOKEN_RETRY_GENERATIONS /\ ~jobs[k].spent

failedNow_Retryable(k) == jobs[k].bad + Cardinality(jobs[k].retry)

failedNow(k) ==
    jobs[k].bad + (IF shouldRequeueRetryableTokens(k) THEN 0 ELSE Cardinality(jobs[k].retry))

Count(k) ==
    /\ At(k, "count")
    /\ rows' = [rows EXCEPT ![k.note].success = @ + jobs[k].ok, ![k.note].failure = @ + failedNow(k)]
    /\ Goes(k, IF jobs[k].retry # {} /\ shouldRequeueRetryableTokens(k) THEN "requeue" ELSE "finish")
    /\ UNCHANGED <<devices, sending, ages, history, left>>

\* Tokens deactivated meanwhile are not sent again, and counted at once.
droppedCount_Ignored(ds) == 0

droppedCount(ds) == Cardinality(ds \ active)

Requeue(k) ==
    LET retry == jobs[k].retry IN
    /\ At(k, "requeue")
    /\ rows' = [rows EXCEPT ![k.note].failure = @ + droppedCount(retry)]
    /\ Becomes(k.note, retry \ active, "dead")
    /\ enqueueBatches(k, [jobs[k] EXCEPT !.pc = "finish"], {retry \cap active} \ {{}}, k.gen + 1)
    /\ UNCHANGED <<devices, sending, ages, repeated, slipped, left>>

\* finalizeIfComplete
Verdict(r) ==
    IF r.success = 0 THEN "failed" ELSE IF r.failure > 0 THEN "partially_sent" ELSE "sent"

Complete(n) ==
    /\ rows[n].total # 0
    /\ n \notin old => rows[n].success + rows[n].failure >= rows[n].total

finalizeIfComplete(k) ==
    LET n == k.note IN
    /\ At(k, "finish")
    /\ rows' = IF Complete(n) THEN [rows EXCEPT ![n].status = Verdict(rows[n])] ELSE rows
    /\ IF sendToTokens(jobs[k].devices) = jobs[k].devices THEN Completes(k) ELSE Goes(k, "throw")
    /\ UNCHANGED <<devices, sending, ages, history, left>>

\* A fan-out that has queued its batches.
FanOutCompletes(k) ==
    /\ At(k, "done") /\ Completes(k)
    /\ UNCHANGED <<rows, devices, sending, ages, history, left>>

\* The queue tries again ...
AttemptFails(k) ==
    /\ At(k, "throw") /\ jobs[k].tries + 1 < JOB_ATTEMPTS
    /\ jobs' = [jobs EXCEPT ![k] = [Restarted(k) EXCEPT !.tries = @ + 1]]
    /\ UNCHANGED <<rows, devices, sending, ages, history, left>>

\* ... or onFailed marks the row, unless that statement fails too.
onFailed(k) ==
    LET n == k.note IN
    /\ At(k, "throw") /\ jobs[k].tries + 1 >= JOB_ATTEMPTS
    /\ jobs' = [jobs EXCEPT ![k] = [Restarted(k) EXCEPT !.pc = "failed"]]
    /\ \/ rows' = [rows EXCEPT ![n].status = "failed"] /\ UNCHANGED <<slipped, left>>
       \/ slipped' = slipped \cup {n} /\ Trouble("throws") /\ UNCHANGED rows
    /\ UNCHANGED <<devices, sending, ages, fate, repeated>>

-----------------------------------------------------------------------------
(* Repair, faults and time *)

\* The oldest rows that are queued, of today and yesterday.
stuck == LET queued == {n \in Notes \ stale : rows[n] # Null /\ rows[n].status = "queued"}
         IN {n \in queued : Cardinality({m \in queued : m < n}) < RecoverLimit}

recoverStuckQueued(n) ==
    /\ n \in stuck
    /\ FanOut(n) \in DOMAIN jobs => jobs[FanOut(n)].pc \in {"completed", "failed"}
    /\ jobs' = With(FanOut(n))
    /\ UNCHANGED <<rows, devices, sending, ages, history, left>>

retryAllFailed(k) ==
    /\ At(k, "failed")
    /\ jobs' = [jobs EXCEPT ![k] = Restarted(k)]
    /\ UNCHANGED <<rows, devices, sending, ages, history, left>>

\* The process stops before it has queued the fan-out.
RequestDies(n) ==
    /\ n \in sending /\ Trouble("losses")
    /\ sending' = sending \ {n}
    /\ UNCHANGED <<rows, devices, jobs, ages, history>>

LoseJob(k) ==
    /\ At(k, "waiting") /\ IsFanOut(k) /\ rows[k.note].status \in LossPoints /\ Trouble("losses")
    /\ jobs' = Without(k)
    /\ UNCHANGED <<rows, devices, sending, ages, history>>

\* A statement of a running job fails, or its process stops and the queue
\* finds the job stalled.
Throw(k) ==
    /\ Running(k) /\ jobs[k].pc # "throw" /\ Trouble("throws")
    /\ Goes(k, "throw")
    /\ Repeats(k.note)
    /\ UNCHANGED <<rows, devices, sending, ages, slipped>>

Stall(k) ==
    /\ Running(k) /\ Trouble("stops")
    /\ jobs' = [jobs EXCEPT ![k] = Restarted(k)]
    /\ Repeats(k.note)
    /\ UNCHANGED <<rows, devices, sending, ages, slipped>>

HalfHourPasses(n) ==
    /\ rows[n] # Null /\ Trouble("time")
    /\ old' = old \cup {n}
    /\ UNCHANGED <<rows, devices, jobs, sending, stale, history>>

DaysPass(n) ==
    /\ rows[n] # Null /\ "days" \in setting.troubles
    /\ old' = old \cup {n} /\ stale' = stale \cup {n}
    /\ UNCHANGED <<rows, devices, jobs, sending, history, left>>

-----------------------------------------------------------------------------
Work(k) ==
    \/ Take(k) \/ TakeFinished(k) \/ Push(k) \/ Count(k) \/ Requeue(k)
    \/ finalizeIfComplete(k) \/ AttemptFails(k) \/ onFailed(k)
    \/ handleFanOut(k) \/ FanOutToNobody(k) \/ FanOutCompletes(k)

DeviceRequests ==
    \E p \in People :
        \/ \E d \in Devices : registerToken(p, d) \/ unregisterTokens(p, {d})
        \/ unregisterTokens(p, {d \in Devices : owner[d] = p})

NotificationsNext ==
    \/ \E k \in DOMAIN jobs : Work(k) \/ Throw(k) \/ Stall(k) \/ LoseJob(k) \/ retryAllFailed(k)
    \/ \E n \in Notes :
        \/ \E people \in SUBSET People \ {{}} : send(n, people)
        \/ enqueueNotification(n) \/ dispatchExisting(n) \/ recoverStuckQueued(n)
        \/ RequestDies(n) \/ HalfHourPasses(n) \/ DaysPass(n)
    \/ DeviceRequests

\* The workers run what is queued; the repair runs every two minutes.
NotificationsFairness ==
    /\ WF_vars(\E k \in DOMAIN jobs : Work(k))
    /\ \A n \in Notes : WF_vars(enqueueNotification(n)) /\ WF_vars(recoverStuckQueued(n))

NotificationsSpec == NotificationsInit /\ [][NotificationsNext]_vars /\ NotificationsFairness

-----------------------------------------------------------------------------
(* Properties *)

TriedInEveryWave(n, d) == fate[n][d].tries = MAX_TOKEN_RETRY_GENERATIONS + 1
aimedAt(n) == {d \in Devices : fate[n][d].is # "untouched"}

\* Every device the row was aimed at has a provider that is configured.
Served(n) == fcmReady \/ aimedAt(n) \subseteq Expo

Honest(n) ==
    LET reached == {d \in aimedAt(n) : fate[n][d].is = "reached"} IN
    /\ rows[n].status = "sent" => reached = aimedAt(n)
    /\ rows[n].status = "failed" <=> reached = {}
    /\ \A d \in aimedAt(n) \ reached :
         \/ fate[n][d].is = "dead" \/ TriedInEveryWave(n, d)
         \/ rows[n].failure >= MAX_RECORDED_FAILURES_BEFORE_STOP

\* The status of a finished row says what became of it: sent means every
\* device has it, partially sent some, failed none, and no device is left
\* that was neither refused nor tried in every wave, unless so many failures
\* were recorded that the waves were stopped.  For rows that are finished
\* within half an hour, without an interruption of their jobs, and whose
\* providers are configured; whatever these answer or fail to.
SettledHonestly ==
    \A n \in Notes \ (repeated \cup old) :
        rows[n] # Null /\ terminal(n) /\ Served(n) => Honest(n)

\* No job holds a device that already has the push, has refused it or has
\* been tried three times: a device with a fault of its own does not open an
\* endless row of jobs, and nobody's telephone rings twice.  For rows whose
\* jobs were not interrupted, however old, and whose providers are configured.
PushedOnce ==
    \A k \in DOMAIN jobs : At(k, "send") /\ k.note \notin repeated /\ Served(k.note) =>
        \A d \in jobs[k].devices :
            fate[k.note][d].is = "aimed" /\ ~TriedInEveryWave(k.note, d)

\* "A lost Redis job cannot block a user forever": a row that was accepted or
\* dispatched again is finished in the end, although processes stop,
\* statements fail and queued fan-outs get lost; or it was still queued when
\* the day after it was due was over ("anything older is stale and is left
\* unsent"), or an answer about one of its devices or the failure of its job
\* was never recorded.
RowsSettle ==
    \A n \in Notes :
        rows[n] # Null /\ ~terminal(n) ~>
            \/ terminal(n) \/ n \in slipped
            \/ n \in stale /\ rows[n].status = "queued"

\* "Failing here loses nothing" (sendTokens): a provider that is not
\* configured makes no difference to the status of the row,
HonestWithoutProvider ==
    \A n \in Notes \ (repeated \cup old) : rows[n] # Null /\ terminal(n) => Honest(n)

\* nor to the devices of the other, which are tried once in each wave.
TriedOnceWithoutProvider ==
    \A k \in DOMAIN jobs : At(k, "send") /\ k.note \notin repeated =>
        \A d \in jobs[k].devices : fate[k.note][d].tries <= k.gen

\* A row that was sent out does not stay in processing.
ProcessedRowsSettle ==
    \A n \in Notes : rows[n] # Null /\ rows[n].status = "processing" ~> terminal(n)

\* "3 FCM attempts per token", also for a row that was due or delayed for more
\* than half an hour after it was created.
WavesGiven ==
    \A n \in Notes : rows[n] # Null /\ terminal(n) /\ n \notin repeated =>
        \A d \in Devices : fate[n][d].is = "aimed" => TriedInEveryWave(n, d)

\* A push is for the people it was sent to, whoever signs in on the device.
ReadByAddressee ==
    \A k \in DOMAIN jobs : At(k, "send") =>
        \A d \in jobs[k].devices : owner[d] \in rows[k.note].to
=============================================================================
