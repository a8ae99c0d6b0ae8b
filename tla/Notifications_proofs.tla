------------------------ MODULE Notifications_proofs ------------------------
(***************************************************************************)
(* Proofs about Notifications, for any number of people, devices, rows,    *)
(* batches, waves and workers, and every trouble of the model.             *)
(***************************************************************************)
EXTENDS Notifications, FiniteSetTheorems, TLAPS

-----------------------------------------------------------------------------
(* Types *)

Statuses == {"queued", "processing"} \cup TERMINAL_NOTIFICATION_STATUSES
Stages == {"waiting", "resolve", "send", "count", "requeue", "finish", "done", "throw",
           "completed", "failed"}

Key == [note: Notes, devices: SUBSET Devices, gen: Nat, copy: Nat]
Job == [pc: Stages, devices: SUBSET Devices, tries: Nat, spent: BOOLEAN, ok: Nat, bad: Nat,
        retry: SUBSET Devices]
Told == [is: {"untouched", "aimed", "reached", "dead"}, tries: Nat]

\* A fan-out or a request for one is about a row that is there.
RowsOK ==
    /\ rows \in [Notes -> Row \cup {Null}]
    /\ sending \subseteq Notes /\ \A n \in sending : rows[n] \in Row
    /\ \A k \in DOMAIN jobs : rows[k.note] \in Row

JobsOK ==
    /\ IsFiniteSet(DOMAIN jobs) /\ DOMAIN jobs \subseteq Key
    /\ jobs \in [DOMAIN jobs -> Job]
    /\ \A k \in DOMAIN jobs : /\ IsFanOut(k) => k = FanOut(k.note)
                              /\ At(k, "waiting") => jobs[k].devices = k.devices

HistoryOK ==
    /\ fate \in [Notes -> [Devices -> Told]]
    /\ repeated \subseteq Notes /\ slipped \subseteq Notes
    /\ old \subseteq Notes /\ stale \subseteq Notes

DevicesOK ==
    /\ owner \in [Devices -> People] /\ active \subseteq Devices /\ fcmReady \in BOOLEAN
    /\ setting \in Settings

TypeOK == RowsOK /\ JobsOK /\ HistoryOK /\ DevicesOK

LEMMA TypeInit == NotificationsInit => TypeOK
<1> SUFFICES ASSUME NotificationsInit PROVE TypeOK
  OBVIOUS
<1>1. DOMAIN jobs = {} /\ jobs \in [DOMAIN jobs -> Job]
  BY DEF NotificationsInit
<1>2. RowsOK
  BY <1>1 DEF NotificationsInit, RowsOK
<1>3. JobsOK
  BY <1>1, FS_EmptySet DEF JobsOK
<1>4. HistoryOK
  BY DEF NotificationsInit, HistoryOK, Untouched, Told
<1>5. DevicesOK
  BY DEF NotificationsInit, DevicesOK
<1> QED
  BY <1>2, <1>3, <1>4, <1>5 DEF TypeOK

-----------------------------------------------------------------------------
(* The queue *)

\* Job k becomes j.
Sets(k, j) ==
    /\ DOMAIN jobs' = DOMAIN jobs
    /\ jobs' = [i \in DOMAIN jobs |-> IF i = k THEN j ELSE jobs[i]]

LEMMA SetsType ==
    ASSUME JobsOK, NEW k \in DOMAIN jobs, NEW j \in Job, Sets(k, j),
           j.pc = "waiting" => j.devices = k.devices
    PROVE  JobsOK'
<1>1. DOMAIN jobs' = DOMAIN jobs /\ \A i \in DOMAIN jobs : jobs'[i] = IF i = k THEN j ELSE jobs[i]
  BY DEF Sets
<1>2. jobs' \in [DOMAIN jobs' -> Job]
  BY DEF Sets, JobsOK
<1>3. \A i \in DOMAIN jobs' : /\ IsFanOut(i) => i = FanOut(i.note)
                              /\ At(i, "waiting")' => jobs'[i].devices = i.devices
  BY <1>1 DEF JobsOK, At
<1> QED
  BY <1>1, <1>2, <1>3 DEF JobsOK

\* Job k leaves the queue.
LEMMA WithoutFacts ==
    ASSUME JobsOK, NEW k \in DOMAIN jobs, jobs' = Without(k)
    PROVE  /\ DOMAIN jobs' = DOMAIN jobs \ {k}
           /\ \A i \in DOMAIN jobs' : jobs'[i] = jobs[i]
           /\ JobsOK'
<1>1. /\ DOMAIN jobs' = DOMAIN jobs \ {k}
      /\ \A i \in DOMAIN jobs' : jobs'[i] = jobs[i]
      /\ jobs' = [i \in DOMAIN jobs \ {k} |-> jobs[i]]
  BY DEF Without, Restrict
<1>2. IsFiniteSet(DOMAIN jobs')
  BY <1>1, FS_RemoveElement DEF JobsOK
<1>3. jobs' \in [DOMAIN jobs' -> Job]
  BY <1>1 DEF JobsOK
<1> QED
  BY <1>1, <1>2, <1>3 DEF JobsOK, At

LEMMA WaitingType ==
    ASSUME NEW k \in Key
    PROVE  /\ Waiting(k) \in Job
           /\ Waiting(k).pc = "waiting" /\ Waiting(k).devices = k.devices
BY DEF Waiting, Key, Job, Stages

LEMMA FanOutKey ==
    ASSUME NEW n \in Notes
    PROVE  /\ FanOut(n) \in Key /\ IsFanOut(FanOut(n))
           /\ FanOut(n).note = n /\ FanOut(n).devices = {} /\ FanOut(n).gen = 0
BY DEF FanOut, Key, IsFanOut

\* The fan-out of a row enters the queue, or starts over.
LEMMA WithFacts ==
    ASSUME JobsOK, NEW n \in Notes, jobs' = With(FanOut(n))
    PROVE  /\ DOMAIN jobs' = DOMAIN jobs \cup {FanOut(n)}
           /\ \A i \in DOMAIN jobs' : jobs'[i] = IF i = FanOut(n) THEN Waiting(i) ELSE jobs[i]
           /\ JobsOK'
<1> DEFINE k == FanOut(n)
<1>a. k \in Key /\ IsFanOut(k) /\ k = FanOut(k.note)
  BY FanOutKey
<1> HIDE DEF k
<1>1. /\ DOMAIN jobs' = DOMAIN jobs \cup {k}
      /\ \A i \in DOMAIN jobs' : jobs'[i] = IF i = k THEN Waiting(i) ELSE jobs[i]
      /\ jobs' = [i \in DOMAIN jobs \cup {k} |-> IF i = k THEN Waiting(k) ELSE jobs[i]]
  BY DEF With, k
<1>2. IsFiniteSet(DOMAIN jobs') /\ DOMAIN jobs' \subseteq Key
  BY <1>a, <1>1, FS_AddElement DEF JobsOK
<1>3. jobs' \in [DOMAIN jobs' -> Job]
  BY <1>a, <1>1, WaitingType DEF JobsOK
<1>4. \A i \in DOMAIN jobs' : /\ IsFanOut(i) => i = FanOut(i.note)
                              /\ At(i, "waiting")' => jobs'[i].devices = i.devices
  BY <1>a, <1>1, WaitingType DEF JobsOK, At
<1>5. JobsOK'
  BY <1>2, <1>3, <1>4 DEF JobsOK
<1> QED
  BY <1>1, <1>5 DEF k
(* There is always a number left that tells a batch from those alike. *)
LEMMA CopyExists ==
    ASSUME JobsOK, NEW n, NEW ds, NEW g
    PROVE  \E c \in 1..(Cardinality(DOMAIN jobs) + 1) :
              [note |-> n, devices |-> ds, gen |-> g, copy |-> c] \notin DOMAIN jobs
<1> DEFINE N == Cardinality(DOMAIN jobs)
           S == 1..(N + 1)
           f == [c \in S |-> [note |-> n, devices |-> ds, gen |-> g, copy |-> c]]
<1>1. IsFiniteSet(DOMAIN jobs) /\ N \in Nat
  BY FS_CardinalityType DEF JobsOK
<1>2. IsFiniteSet(S) /\ Cardinality(S) = N + 1
  <2> HIDE DEF N
  <2> QED
    BY <1>1, FS_Interval
<1>3. N < Cardinality(S)
  BY <1>1, <1>2
<1>4. SUFFICES ASSUME \A c \in S : f[c] \in DOMAIN jobs PROVE FALSE
  OBVIOUS
<1>5. f \in [S -> DOMAIN jobs]
  BY <1>4
<1>6. PICK x \in S, y \in S : x # y /\ f[x] = f[y]
  <2> HIDE DEF f, S
  <2> QED
    BY <1>1, <1>2, <1>3, <1>5, FS_PigeonHole
<1> QED
  BY <1>6

LEMMA BatchFacts ==
    ASSUME JobsOK, NEW n \in Notes, NEW ds \in SUBSET Devices, NEW g \in Nat
    PROVE  /\ Batch(n, ds, g) \in Key /\ Batch(n, ds, g) \notin DOMAIN jobs
           /\ Batch(n, ds, g).note = n /\ Batch(n, ds, g).devices = ds
           /\ Batch(n, ds, g).gen = g /\ ~IsFanOut(Batch(n, ds, g))
<1> DEFINE N == Cardinality(DOMAIN jobs)
           P(c) == [note |-> n, devices |-> ds, gen |-> g, copy |-> c] \notin DOMAIN jobs
           c == CHOOSE x \in 1..(N + 1) : P(x)
<1>1. N \in Nat
  BY FS_CardinalityType DEF JobsOK
<1>2. c \in 1..(N + 1) /\ P(c)
  <2>1. \E x \in 1..(N + 1) : P(x)
    BY CopyExists
  <2> HIDE DEF P, N
  <2> QED
    BY <2>1
<1>3. Batch(n, ds, g) = [note |-> n, devices |-> ds, gen |-> g, copy |-> c]
  BY DEF Batch
<1>4. c \in Nat /\ c # 0
  <2> HIDE DEF c, N
  <2> QED
    BY <1>1, <1>2
<1> HIDE DEF c
<1> QED
  BY <1>2, <1>3, <1>4 DEF Key, IsFanOut

\* Job k goes on to j and batches of the chunks enter the queue.
LEMMA EnqueueFacts ==
    ASSUME JobsOK, NEW k \in DOMAIN jobs, NEW j \in Job, j.pc # "waiting",
           NEW chunks \in SUBSET SUBSET Devices, IsFiniteSet(chunks), NEW g \in Nat,
           enqueueBatches(k, j, chunks, g)
    PROVE  /\ DOMAIN jobs \subseteq DOMAIN jobs'
           /\ \A i \in DOMAIN jobs : jobs'[i] = IF i = k THEN j ELSE jobs[i]
           /\ \A i \in DOMAIN jobs' \ DOMAIN jobs :
                 /\ jobs'[i] = Waiting(i) /\ ~IsFanOut(i) /\ i \in Key
                 /\ i.note = k.note /\ i.devices \in chunks /\ i.gen = g
           /\ \A i, m \in DOMAIN jobs' \ DOMAIN jobs : i.devices = m.devices => i = m
           /\ JobsOK'
<1> DEFINE batches == {Batch(k.note, c, g) : c \in chunks}
<1>1. k \in Key /\ k.note \in Notes
  BY DEF JobsOK, Key
<1>2. \A c \in chunks : /\ Batch(k.note, c, g) \in Key
                        /\ Batch(k.note, c, g) \notin DOMAIN jobs
                        /\ Batch(k.note, c, g).note = k.note
                        /\ Batch(k.note, c, g).devices = c
                        /\ Batch(k.note, c, g).gen = g
                        /\ ~IsFanOut(Batch(k.note, c, g))
  BY <1>1, BatchFacts
<1>3. jobs' = [i \in DOMAIN jobs \cup batches |->
                 IF i = k THEN j ELSE IF i \in batches THEN Waiting(i) ELSE jobs[i]]
  BY DEF enqueueBatches
<1>4. IsFiniteSet(batches)
  <2> DEFINE f == [c \in chunks |-> Batch(k.note, c, g)]
  <2>1. f \in Surjection(chunks, batches)
    BY DEF Surjection
  <2> HIDE DEF f, batches
  <2> QED
    BY <2>1, FS_Surjection
<1>5. \A i \in batches : /\ i \in Key /\ i \notin DOMAIN jobs /\ ~IsFanOut(i)
                         /\ i.note = k.note /\ i.devices \in chunks /\ i.gen = g
                         /\ i = Batch(k.note, i.devices, g)
  BY <1>2
<1> HIDE DEF batches
<1>6. DOMAIN jobs' = DOMAIN jobs \cup batches
  BY <1>3
<1>7. /\ \A i \in DOMAIN jobs : jobs'[i] = IF i = k THEN j ELSE jobs[i]
      /\ \A i \in batches : jobs'[i] = Waiting(i)
  BY <1>3, <1>5
<1>8. \A i, m \in batches : i.devices = m.devices => i = m
  BY <1>5
<1>9. JobsOK'
  <2>1. IsFiniteSet(DOMAIN jobs')
    <3>1. IsFiniteSet(DOMAIN jobs)
      BY DEF JobsOK
    <3>2. IsFiniteSet(DOMAIN jobs \cup batches)
      BY <1>4, <3>1, FS_Union
    <3> QED
      BY <1>6, <3>2
  <2>2. DOMAIN jobs' \subseteq Key
    BY <1>5, <1>6 DEF JobsOK
  <2>3. \A i \in DOMAIN jobs' : jobs'[i] \in Job
    BY <1>5, <1>6, <1>7, WaitingType DEF JobsOK
  <2>4. jobs' \in [DOMAIN jobs' -> Job]
    BY <1>3, <1>6, <2>3
  <2>5. \A i \in DOMAIN jobs' : /\ IsFanOut(i) => i = FanOut(i.note)
                                /\ jobs'[i].pc = "waiting" => jobs'[i].devices = i.devices
    BY <1>5, <1>6, <1>7, WaitingType DEF JobsOK, At
  <2> QED
    BY <2>1, <2>2, <2>4, <2>5 DEF JobsOK, At
<1> QED
  BY <1>5, <1>6, <1>7, <1>8, <1>9
LEMMA ExceptSets ==
    ASSUME JobsOK, NEW k \in DOMAIN jobs, NEW j, jobs' = [jobs EXCEPT ![k] = j]
    PROVE  Sets(k, j)
<1>1. jobs = [i \in DOMAIN jobs |-> jobs[i]]
  BY DEF JobsOK
<1> QED
  BY <1>1 DEF Sets

LEMMA JobParts ==
    ASSUME JobsOK, NEW k \in DOMAIN jobs
    PROVE  /\ jobs[k] \in Job /\ k \in Key /\ k.note \in Notes
           /\ k.devices \in SUBSET Devices /\ k.gen \in Nat
BY DEF JobsOK, Key

\* A job goes on to another stage.
LEMMA GoesFacts ==
    ASSUME JobsOK, NEW k \in DOMAIN jobs, NEW pc \in Stages, Goes(k, pc)
    PROVE  \E j \in Job : /\ Sets(k, j) /\ j.pc = pc /\ j.devices = jobs[k].devices
                          /\ j.spent = jobs[k].spent /\ j.ok = jobs[k].ok /\ j.bad = jobs[k].bad
                          /\ j.retry = jobs[k].retry
<1>1. jobs[k] \in Job
  BY JobParts
<1> DEFINE j == [jobs[k] EXCEPT !.pc = pc]
<1>2. /\ j \in Job /\ j.pc = pc /\ j.devices = jobs[k].devices
      /\ j.spent = jobs[k].spent /\ j.ok = jobs[k].ok /\ j.bad = jobs[k].bad
      /\ j.retry = jobs[k].retry
  BY <1>1 DEF Job
<1>3. jobs' = [jobs EXCEPT ![k] = j]
  BY DEF Goes
<1> HIDE DEF j
<1> QED
  BY <1>2, <1>3, ExceptSets

\* A job starts over, or ends as a new one that is not started.
LEMMA RestartType ==
    ASSUME JobsOK, NEW k \in DOMAIN jobs, NEW pc \in Stages, NEW t \in Nat
    PROVE  /\ [Waiting(k) EXCEPT !.pc = pc] \in Job
           /\ [Waiting(k) EXCEPT !.pc = pc].pc = pc
           /\ [Waiting(k) EXCEPT !.pc = pc].devices = k.devices
           /\ [Waiting(k) EXCEPT !.tries = t] \in Job
           /\ [Waiting(k) EXCEPT !.tries = t].pc = "waiting"
           /\ [Waiting(k) EXCEPT !.tries = t].devices = k.devices
<1>1. Waiting(k) \in Job /\ Waiting(k).pc = "waiting" /\ Waiting(k).devices = k.devices
  BY JobParts, WaitingType
<1>2. \A w \in Job : /\ [w EXCEPT !.pc = pc] \in Job /\ [w EXCEPT !.pc = pc].pc = pc
                     /\ [w EXCEPT !.pc = pc].devices = w.devices
                     /\ [w EXCEPT !.tries = t] \in Job /\ [w EXCEPT !.tries = t].pc = w.pc
                     /\ [w EXCEPT !.tries = t].devices = w.devices
  BY DEF Job
<1> QED
  BY <1>1, <1>2

LEMMA CompletesFacts ==
    ASSUME JobsOK, NEW k \in DOMAIN jobs, Completes(k)
    PROVE  /\ JobsOK'
           /\ \/ /\ IsFanOut(k)
                 /\ \E j \in Job : Sets(k, j) /\ j.pc = "completed" /\ j.devices = k.devices
              \/ /\ ~IsFanOut(k) /\ DOMAIN jobs' = DOMAIN jobs \ {k}
                 /\ \A i \in DOMAIN jobs' : jobs'[i] = jobs[i]
<1>1. CASE IsFanOut(k)
  <2> DEFINE j == [Waiting(k) EXCEPT !.pc = "completed"]
  <2>1. j \in Job /\ j.pc = "completed" /\ j.devices = k.devices
    BY RestartType, ZenonT(60) DEF Stages
  <2>2. jobs' = [jobs EXCEPT ![k] = j]
    BY <1>1 DEF Completes
  <2> HIDE DEF j
  <2>3. Sets(k, j)
    BY <2>2, ExceptSets
  <2> QED
    BY <1>1, <2>1, <2>3, SetsType
<1>2. CASE ~IsFanOut(k)
  <2>1. jobs' = Without(k)
    BY <1>2 DEF Completes
  <2> QED
    BY <1>2, <2>1, WithoutFacts
<1> QED
  BY <1>1, <1>2

-----------------------------------------------------------------------------
(* Rows *)

LEMMA RowsKept ==
    ASSUME RowsOK, JobsOK, rows' \in [Notes -> Row \cup {Null}],
           \A n \in Notes : rows[n] \in Row => rows'[n] \in Row,
           sending' \subseteq Notes, \A n \in sending' : n \in sending \/ rows'[n] \in Row,
           \A k \in DOMAIN jobs' :
              k \in DOMAIN jobs \/ (k.note \in Notes /\ rows'[k.note] \in Row)
    PROVE  RowsOK'
<1>1. \A k \in DOMAIN jobs : k.note \in Notes
  BY DEF JobsOK, Key
<1> QED
  BY <1>1 DEF RowsOK

\* Changing a column of a row.
LEMMA RowType ==
    ASSUME NEW r \in Row, NEW c \in Nat
    PROVE  /\ \A st \in Statuses : [r EXCEPT !.status = st] \in Row
           /\ \A st \in Statuses : [r EXCEPT !.status = st, !.total = c] \in Row
           /\ [r EXCEPT !.failure = c] \in Row
           /\ \A b \in Nat : [r EXCEPT !.success = c, !.failure = b] \in Row
BY DEF Row, Statuses

LEMMA RowChanges ==
    ASSUME RowsOK, NEW n \in Notes, NEW r \in Row, rows' = [rows EXCEPT ![n] = r]
    PROVE  /\ rows' \in [Notes -> Row \cup {Null}]
           /\ \A m \in Notes : rows'[m] = IF m = n THEN r ELSE rows[m]
           /\ \A m \in Notes : rows[m] \in Row => rows'[m] \in Row
BY DEF RowsOK
-----------------------------------------------------------------------------
(* What each step does, and that it keeps the types. *)

LEMMA FiniteDevices ==
    ASSUME NEW ds \in SUBSET Devices
    PROVE  IsFiniteSet(ds) /\ Cardinality(ds) \in Nat
<1>1. IsFiniteSet(ds)
  BY NotificationsAssumption, FS_Subset
<1> QED
  BY <1>1, FS_CardinalityType

LEMMA ResolvedDevices ==
    ASSUME DevicesOK, NEW people
    PROVE  resolveTokens(people) \in SUBSET Devices
BY DEF DevicesOK, resolveTokens

\* Steps that leave the rows and the devices alone.
LEMMA OnlyQueueType ==
    ASSUME TypeOK, JobsOK', UNCHANGED <<rows, devices, ages, history>>, sending' \subseteq sending,
           \A k \in DOMAIN jobs' :
              k \in DOMAIN jobs \/ (k.note \in Notes /\ rows[k.note] \in Row)
    PROVE  TypeOK'
<1>1. RowsOK /\ JobsOK /\ HistoryOK /\ DevicesOK
  BY DEF TypeOK
<1>2. RowsOK'
  <2>1. rows' = rows
    OBVIOUS
  <2>2. rows' \in [Notes -> Row \cup {Null}] /\ sending' \subseteq Notes
    BY <1>1, <2>1 DEF RowsOK
  <2> QED
    BY <1>1, <2>1, <2>2, RowsKept
<1>3. HistoryOK'
  BY <1>1 DEF HistoryOK, history, ages
<1>4. DevicesOK'
  BY <1>1 DEF DevicesOK, devices
<1> QED
  BY <1>2, <1>3, <1>4 DEF TypeOK

LEMMA TakeFacts ==
    ASSUME TypeOK, NEW k \in DOMAIN jobs, Take(k)
    PROVE  /\ TypeOK'
           /\ \E j \in Job : /\ Sets(k, j) /\ j.devices = k.devices
                             /\ j.pc = IF IsFanOut(k) THEN "resolve" ELSE "send"
                             /\ j.spent => rows[k.note].failure >= MAX_RECORDED_FAILURES_BEFORE_STOP
<1>1. RowsOK /\ JobsOK
  BY DEF TypeOK
<1>2. jobs[k] \in Job /\ jobs[k].devices = k.devices
  BY <1>1, JobParts DEF JobsOK, Take
<1> DEFINE b == rows[k.note].failure >= MAX_RECORDED_FAILURES_BEFORE_STOP
<1>3. b \in BOOLEAN
  <2>1. rows[k.note].failure \in Nat
    BY <1>1 DEF RowsOK, Row
  <2> QED
    BY <2>1, NotificationsAssumption
<1>4. PICK pc \in Stages : pc = IF IsFanOut(k) THEN "resolve" ELSE "send"
  BY DEF Stages
<1> DEFINE j == [jobs[k] EXCEPT !.pc = pc, !.spent = b]
<1>5. j \in Job /\ j.devices = k.devices /\ j.pc = pc /\ j.spent = b
  <2> HIDE DEF b
  <2> QED
    BY <1>2, <1>3 DEF Job
<1>6. jobs' = [jobs EXCEPT ![k] = j]
  BY <1>4 DEF Take
<1> HIDE DEF j
<1>7. Sets(k, j)
  BY <1>1, <1>6, ExceptSets
<1>8. JobsOK' /\ DOMAIN jobs' = DOMAIN jobs
  BY <1>1, <1>4, <1>5, <1>7, SetsType DEF Sets
<1>9. TypeOK'
  BY <1>8, OnlyQueueType DEF Take
<1>10. j.spent => b
  BY <1>5
<1> HIDE DEF b
<1>11. \E i \in Job : /\ Sets(k, i) /\ i.devices = k.devices
                      /\ i.pc = IF IsFanOut(k) THEN "resolve" ELSE "send"
                      /\ i.spent => b
  BY <1>4, <1>5, <1>7, <1>10
<1> QED
  BY <1>9, <1>11 DEF b

LEMMA FinishedFacts ==
    ASSUME TypeOK, NEW k \in DOMAIN jobs, TakeFinished(k) \/ FanOutCompletes(k)
    PROVE  TypeOK'
<1>1. JobsOK /\ Completes(k)
  BY DEF TypeOK, TakeFinished, FanOutCompletes
<1>2. JobsOK' /\ DOMAIN jobs' \subseteq DOMAIN jobs
  BY <1>1, CompletesFacts DEF Sets
<1> QED
  BY <1>2, OnlyQueueType DEF TakeFinished, FanOutCompletes

LEMMA NobodyFacts ==
    ASSUME TypeOK, NEW k \in DOMAIN jobs, FanOutToNobody(k)
    PROVE  /\ TypeOK'
           /\ \E r \in Row : /\ rows' = [rows EXCEPT ![k.note] = r] /\ r.status = "failed"
                             /\ r.success = rows[k.note].success /\ r.failure = rows[k.note].failure
<1>1. RowsOK /\ JobsOK /\ HistoryOK /\ DevicesOK /\ Completes(k)
  BY DEF TypeOK, FanOutToNobody
<1>2. JobsOK' /\ DOMAIN jobs' \subseteq DOMAIN jobs
  BY <1>1, CompletesFacts DEF Sets
<1>3. rows[k.note] \in Row /\ k.note \in Notes
  BY <1>1, JobParts DEF RowsOK
<1> DEFINE r == [rows[k.note] EXCEPT !.status = "failed"]
<1>4. /\ r \in Row /\ r.status = "failed"
      /\ r.success = rows[k.note].success /\ r.failure = rows[k.note].failure
  BY <1>3 DEF Row, Statuses, TERMINAL_NOTIFICATION_STATUSES
<1>5. rows' = [rows EXCEPT ![k.note] = r]
  BY DEF FanOutToNobody
<1> HIDE DEF r
<1>6. RowsOK'
  <2>1. sending' = sending
    BY DEF FanOutToNobody
  <2>2. /\ rows' \in [Notes -> Row \cup {Null}]
        /\ \A n \in Notes : rows[n] \in Row => rows'[n] \in Row
    BY <1>1, <1>3, <1>4, <1>5, RowChanges
  <2> QED
    BY <1>1, <1>2, <2>1, <2>2, RowsKept DEF RowsOK
<1>7. HistoryOK' /\ DevicesOK'
  BY <1>1 DEF FanOutToNobody, HistoryOK, DevicesOK, devices, ages, history
<1> QED
  BY <1>2, <1>4, <1>5, <1>6, <1>7 DEF TypeOK
\* Steps of a job that write its row.
LEMMA RowWritten ==
    ASSUME RowsOK, JobsOK, NEW k \in DOMAIN jobs, NEW r \in Row,
           rows' = [rows EXCEPT ![k.note] = r], sending' = sending,
           \A i \in DOMAIN jobs' : i \in DOMAIN jobs \/ i.note = k.note
    PROVE  /\ RowsOK'
           /\ \A n \in Notes : rows'[n] = IF n = k.note THEN r ELSE rows[n]
<1>1. k.note \in Notes
  BY JobParts
<1>2. /\ rows' \in [Notes -> Row \cup {Null}]
      /\ \A n \in Notes : rows'[n] = IF n = k.note THEN r ELSE rows[n]
      /\ \A n \in Notes : rows[n] \in Row => rows'[n] \in Row
  BY <1>1, RowChanges
<1>3. RowsOK'
  BY <1>1, <1>2, RowsKept DEF RowsOK
<1> QED
  BY <1>2, <1>3

\* What becomes of a row at a device.
LEMMA ToldType ==
    ASSUME NEW t \in Told, NEW is \in {"untouched", "aimed", "reached", "dead"}
    PROVE  /\ [t EXCEPT !.is = is] \in Told
           /\ [t EXCEPT !.is = is].is = is /\ [t EXCEPT !.is = is].tries = t.tries
BY DEF Told

LEMMA BecomesFacts ==
    ASSUME HistoryOK, NEW n \in Notes, NEW ds, NEW is \in {"untouched", "aimed", "reached", "dead"},
           Becomes(n, ds, is)
    PROVE  /\ fate' \in [Notes -> [Devices -> Told]]
           /\ \A m \in Notes : m # n => fate'[m] = fate[m]
           /\ n \notin repeated => \A d \in Devices :
                 IF d \in ds THEN fate'[n][d].is = is /\ fate'[n][d].tries = fate[n][d].tries
                             ELSE fate'[n][d] = fate[n][d]
<1>1. fate \in [Notes -> [Devices -> Told]] /\ fate[n] \in [Devices -> Told]
  BY DEF HistoryOK
<1> DEFINE f == [d \in Devices |-> IF d \in ds THEN [fate[n][d] EXCEPT !.is = is] ELSE fate[n][d]]
<1>2. \A d \in Devices : IF d \in ds THEN /\ f[d] \in Told /\ f[d].is = is
                                          /\ f[d].tries = fate[n][d].tries
                                     ELSE f[d] = fate[n][d]
  BY <1>1, ToldType, ZenonT(60)
<1>3. f \in [Devices -> Told]
  BY <1>1, <1>2
<1>4. fate' = [fate EXCEPT ![n] = IF n \in repeated THEN fate[n] ELSE f]
  BY DEF Becomes
<1> HIDE DEF f
<1>5. \A m \in Notes : fate'[m] = IF m = n /\ n \notin repeated THEN f ELSE fate[m]
  BY <1>1, <1>4
<1>6. fate' \in [Notes -> [Devices -> Told]]
  BY <1>1, <1>3, <1>4
<1> QED
  BY <1>2, <1>5, <1>6

LEMMA RepeatsFacts ==
    ASSUME HistoryOK, NEW n \in Notes, Repeats(n), UNCHANGED <<ages, slipped>>
    PROVE  /\ HistoryOK' /\ repeated' = repeated \cup {n}
           /\ \A m \in Notes : m # n => fate'[m] = fate[m]
<1>1. Untouched \in [Devices -> Told]
  BY DEF Untouched, Told
<1> QED
  BY <1>1 DEF Repeats, HistoryOK, ages

LEMMA SetsFacts ==
    ASSUME JobsOK, NEW k \in DOMAIN jobs, NEW j \in Job, Sets(k, j)
    PROVE  /\ DOMAIN jobs' = DOMAIN jobs
           /\ jobs'[k] = j
           /\ \A i \in DOMAIN jobs : i # k => jobs'[i] = jobs[i]
BY DEF Sets

-----------------------------------------------------------------------------
(* The fan-out *)

LEMMA ChunksFinite ==
    ASSUME NEW ds \in SUBSET Devices, NEW C \in Chunks(ds)
    PROVE  /\ IsFiniteSet(C) /\ C \in SUBSET SUBSET Devices /\ UNION C = ds
           /\ \A c, e \in C : c # e => c \cap e = {}
<1>1. C \in SUBSET SUBSET ds /\ UNION C = ds /\ \A c, e \in C : c # e => c \cap e = {}
  BY DEF Chunks
<1>2. IsFiniteSet(SUBSET ds)
  BY FiniteDevices, FS_SUBSET
<1>3. IsFiniteSet(C)
  BY <1>1, <1>2, FS_Subset
<1> QED
  BY <1>1, <1>3

\* What the fan-out does to the queue, with the devices it has found.
Spreads(k, ds) ==
    \/ \E j \in Job : Sets(k, j) /\ j.pc = "send" /\ j.devices = ds /\ j.spent = jobs[k].spent
    \/ \E j \in Job, C \in Chunks(ds) :
          j.pc = "done" /\ enqueueBatches(k, j, C, 0)

LEMMA FanOutSpreads ==
    ASSUME TypeOK, NEW k \in DOMAIN jobs, handleFanOut(k),
           NEW ds, ds = resolveTokens(rows[k.note].to)
    PROVE  Spreads(k, ds) /\ ds \in SUBSET Devices /\ ds # {}
<1>1. RowsOK /\ JobsOK /\ HistoryOK /\ DevicesOK
  BY DEF TypeOK
<1>2. ds \in SUBSET Devices /\ ds # {}
  BY <1>1, ResolvedDevices DEF handleFanOut
<1>3. jobs[k] \in Job
  BY <1>1, JobParts
<1>4. CASE jobs' = [jobs EXCEPT ![k].pc = "send", ![k].devices = ds]
  <2> DEFINE j == [jobs[k] EXCEPT !.pc = "send", !.devices = ds]
  <2>1. j \in Job /\ j.pc = "send" /\ j.devices = ds /\ j.spent = jobs[k].spent
    BY <1>2, <1>3 DEF Job, Stages
  <2>2. jobs' = [jobs EXCEPT ![k] = j]
    BY <1>4
  <2> HIDE DEF j
  <2>3. Sets(k, j)
    BY <1>1, <2>2, ExceptSets
  <2> QED
    BY <1>2, <2>1, <2>3 DEF Spreads
<1>5. CASE \E C \in Chunks(ds) : enqueueBatches(k, [jobs[k] EXCEPT !.pc = "done"], C, 0)
  <2> DEFINE j == [jobs[k] EXCEPT !.pc = "done"]
  <2>1. j \in Job /\ j.pc = "done"
    BY <1>3 DEF Job, Stages
  <2>2. \E C \in Chunks(ds) : enqueueBatches(k, j, C, 0)
    BY <1>5
  <2> HIDE DEF j
  <2> QED
    BY <1>2, <2>1, <2>2 DEF Spreads
<1> QED
  BY <1>4, <1>5 DEF handleFanOut

LEMMA SpreadsType ==
    ASSUME JobsOK, NEW k \in DOMAIN jobs, NEW ds \in SUBSET Devices, Spreads(k, ds)
    PROVE  /\ JobsOK'
           /\ \A i \in DOMAIN jobs' : i \in DOMAIN jobs \/ i.note = k.note
<1>1. CASE \E j \in Job : Sets(k, j) /\ j.pc = "send" /\ j.devices = ds
  <2>1. PICK j \in Job : Sets(k, j) /\ j.pc = "send" /\ j.devices = ds
    BY <1>1
  <2> QED
    BY <2>1, SetsType, SetsFacts
<1>2. CASE \E j \in Job, C \in Chunks(ds) : j.pc = "done" /\ enqueueBatches(k, j, C, 0)
  <2>1. PICK j \in Job, C \in Chunks(ds) : j.pc = "done" /\ enqueueBatches(k, j, C, 0)
    BY <1>2
  <2>2. IsFiniteSet(C) /\ C \in SUBSET SUBSET Devices
    BY ChunksFinite
  <2> QED
    BY <2>1, <2>2, EnqueueFacts
<1> QED
  BY <1>1, <1>2 DEF Spreads

\* What the fan-out writes in the row.
LEMMA FanOutRow ==
    ASSUME TypeOK, NEW k \in DOMAIN jobs, handleFanOut(k),
           NEW ds, ds = resolveTokens(rows[k.note].to)
    PROVE  \E r \in Row : /\ rows' = [rows EXCEPT ![k.note] = r] /\ r.status = "processing"
                          /\ r.success = rows[k.note].success /\ r.failure = rows[k.note].failure
                          /\ r.total = Cardinality(ds)
<1>1. RowsOK /\ JobsOK /\ DevicesOK
  BY DEF TypeOK
<1>2. ds \in SUBSET Devices /\ Cardinality(ds) \in Nat
  BY <1>1, ResolvedDevices, FiniteDevices
<1>3. rows[k.note] \in Row
  BY <1>1 DEF RowsOK
<1> DEFINE r == [rows[k.note] EXCEPT !.status = "processing", !.total = Cardinality(ds)]
<1>4. /\ r \in Row /\ r.status = "processing" /\ r.total = Cardinality(ds)
      /\ r.success = rows[k.note].success /\ r.failure = rows[k.note].failure
  BY <1>2, <1>3 DEF Row
<1>5. rows' = [rows EXCEPT ![k.note] = r]
  BY DEF handleFanOut
<1> HIDE DEF r
<1> QED
  BY <1>4, <1>5

LEMMA FanOutType ==
    ASSUME TypeOK, NEW k \in DOMAIN jobs, handleFanOut(k)
    PROVE  TypeOK'
<1>1. RowsOK /\ JobsOK /\ HistoryOK /\ DevicesOK
  BY DEF TypeOK
<1>2. PICK ds : ds = resolveTokens(rows[k.note].to)
  OBVIOUS
<1>3. Spreads(k, ds) /\ ds \in SUBSET Devices
  BY <1>2, FanOutSpreads
<1>4. JobsOK' /\ \A i \in DOMAIN jobs' : i \in DOMAIN jobs \/ i.note = k.note
  BY <1>1, <1>3, SpreadsType
<1>5. RowsOK'
  <2>1. PICK r \in Row : rows' = [rows EXCEPT ![k.note] = r]
    BY <1>2, FanOutRow
  <2> QED
    BY <1>1, <1>4, <2>1, RowWritten DEF handleFanOut
<1>6. HistoryOK'
  <2>1. Becomes(k.note, ds, "aimed") /\ k.note \in Notes
    BY <1>1, <1>2, JobParts DEF handleFanOut
  <2> QED
    BY <1>1, <2>1, BecomesFacts DEF handleFanOut, HistoryOK, ages
<1>7. DevicesOK'
  BY <1>1 DEF DevicesOK, devices, handleFanOut
<1> QED
  BY <1>4, <1>5, <1>6, <1>7 DEF TypeOK
-----------------------------------------------------------------------------
(* A batch *)

\* What the providers answer, and what the job keeps of it.
Answered(k, ok, bad) ==
    LET asked == sendToTokens(jobs[k].devices) IN
    /\ ok \subseteq asked /\ bad \subseteq asked /\ ok \cap bad = {}
    /\ \E j \in Job : /\ Sets(k, j) /\ j.pc = "count"
                      /\ j.devices = jobs[k].devices /\ j.spent = jobs[k].spent
                      /\ j.ok = Cardinality(ok) /\ j.bad = Cardinality(bad)
                      /\ j.retry \subseteq asked \ (ok \cup bad)

\* ... and what is told of the devices.
Heard(n, asked, ok, bad) ==
    \A d \in Devices :
        /\ fate'[n][d].is = IF d \in ok THEN "reached" ELSE IF d \in bad THEN "dead" ELSE fate[n][d].is
        /\ fate'[n][d].tries = IF d \in asked THEN fate[n][d].tries + 1 ELSE fate[n][d].tries

LEMMA AskedDevices ==
    ASSUME NEW ds \in SUBSET Devices
    PROVE  sendToTokens(ds) \subseteq ds /\ sendToTokens(ds) \in SUBSET Devices
BY DEF sendToTokens

LEMMA PushFacts ==
    ASSUME TypeOK, NEW k \in DOMAIN jobs, Push(k)
    PROVE  /\ TypeOK'
           /\ \A n \in Notes : n # k.note => fate'[n] = fate[n]
           /\ \E ok, bad \in SUBSET Devices :
                 /\ Answered(k, ok, bad)
                 /\ k.note \notin repeated => Heard(k.note, sendToTokens(jobs[k].devices), ok, bad)
<1>1. RowsOK /\ JobsOK /\ HistoryOK /\ DevicesOK
  BY DEF TypeOK
<1>2. jobs[k] \in Job /\ k.note \in Notes /\ jobs[k].devices \in SUBSET Devices
  BY <1>1, JobParts DEF Job
<1> DEFINE asked == sendToTokens(jobs[k].devices)
<1>3. asked \in SUBSET Devices
  BY <1>2, AskedDevices
<1> DEFINE told(ok, bad) ==
      [d \in Devices |->
         [is |-> IF d \in ok THEN "reached" ELSE IF d \in bad THEN "dead" ELSE fate[k.note][d].is,
          tries |-> IF d \in asked THEN fate[k.note][d].tries + 1 ELSE fate[k.note][d].tries]]
<1>4. PICK ok \in SUBSET asked, bad \in SUBSET asked, rt \in SUBSET asked :
         /\ ok \cap bad = {} /\ rt \cap (ok \cup bad) = {} /\ active' = active \ bad
         /\ jobs' = [jobs EXCEPT ![k].pc = "count", ![k].ok = Cardinality(ok),
                                 ![k].bad = Cardinality(bad), ![k].retry = rt]
         /\ slipped' \subseteq slipped \cup {k.note}
         /\ fate' = [fate EXCEPT ![k.note] = IF k.note \in repeated THEN fate[k.note] ELSE told(ok, bad)]
  <2>1. PICK answer \in sendBatch(asked) :
           /\ active' = active \ answer.bad
           /\ jobs' = [jobs EXCEPT ![k].pc = "count", ![k].ok = Cardinality(answer.ok),
                                   ![k].bad = Cardinality(answer.bad), ![k].retry = answer.retry]
           /\ slipped' \subseteq slipped \cup {k.note}
           /\ fate' = [fate EXCEPT ![k.note] =
                         IF k.note \in repeated THEN fate[k.note] ELSE told(answer.ok, answer.bad)]
    BY DEF Push
  <2>2. /\ answer.ok \in SUBSET asked /\ answer.bad \in SUBSET asked /\ answer.retry \in SUBSET asked
        /\ answer.ok \cap answer.bad = {} /\ answer.retry \cap (answer.ok \cup answer.bad) = {}
    BY DEF sendBatch
  <2> HIDE DEF told, asked
  <2> QED
    BY <2>1, <2>2
<1> HIDE DEF asked
<1>5. /\ ok \in SUBSET Devices /\ bad \in SUBSET Devices
      /\ Cardinality(ok) \in Nat /\ Cardinality(bad) \in Nat /\ rt \in SUBSET Devices
  BY <1>3, FiniteDevices
<1>6. PICK no \in Nat, nb \in Nat : no = Cardinality(ok) /\ nb = Cardinality(bad)
  BY <1>5
<1>7. \E j \in Job : /\ Sets(k, j) /\ j.pc = "count"
                     /\ j.devices = jobs[k].devices /\ j.spent = jobs[k].spent
                     /\ j.ok = no /\ j.bad = nb /\ j.retry = rt
  <2> DEFINE j == [jobs[k] EXCEPT !.pc = "count", !.ok = no, !.bad = nb, !.retry = rt]
  <2>1. /\ j \in Job /\ j.pc = "count" /\ j.devices = jobs[k].devices /\ j.spent = jobs[k].spent
        /\ j.ok = no /\ j.bad = nb /\ j.retry = rt
    BY <1>2, <1>5 DEF Job, Stages
  <2>2. jobs' = [jobs EXCEPT ![k] = j]
    BY <1>4, <1>6
  <2> HIDE DEF j
  <2>3. Sets(k, j)
    BY <1>1, <2>2, ExceptSets
  <2> QED
    BY <2>1, <2>3
<1>8. Answered(k, ok, bad)
  BY <1>4, <1>6, <1>7 DEF Answered, asked
<1>9. JobsOK' /\ DOMAIN jobs' = DOMAIN jobs
  <2>1. PICK j \in Job : Sets(k, j) /\ j.pc = "count"
    BY <1>7
  <2> QED
    BY <1>1, <2>1, SetsType, SetsFacts
<1>10. RowsOK'
  <2>1. rows' = rows /\ sending' = sending
    BY DEF Push
  <2> QED
    BY <1>1, <1>9, <2>1 DEF RowsOK
<1>11. DevicesOK'
  BY <1>1, <1>4 DEF DevicesOK, Push
<1>12. fate[k.note] \in [Devices -> Told] /\ fate \in [Notes -> [Devices -> Told]]
  BY <1>1, <1>2 DEF HistoryOK
<1>13. told(ok, bad) \in [Devices -> Told]
  BY <1>12 DEF Told
<1>14. \A d \in Devices :
          /\ told(ok, bad)[d].is = IF d \in ok THEN "reached" ELSE IF d \in bad THEN "dead"
                                   ELSE fate[k.note][d].is
          /\ told(ok, bad)[d].tries = IF d \in asked THEN fate[k.note][d].tries + 1
                                      ELSE fate[k.note][d].tries
  OBVIOUS
<1> HIDE DEF told
<1>15. \A n \in Notes : fate'[n] = IF n = k.note /\ n \notin repeated THEN told(ok, bad) ELSE fate[n]
  BY <1>4, <1>12
<1>16. HistoryOK'
  <2>1. fate' \in [Notes -> [Devices -> Told]]
    BY <1>4, <1>12, <1>13
  <2> QED
    BY <1>1, <1>2, <1>4, <2>1 DEF HistoryOK, Push, ages
<1>17. k.note \notin repeated => Heard(k.note, sendToTokens(jobs[k].devices), ok, bad)
  <2>1. k.note \notin repeated => Heard(k.note, asked, ok, bad)
    BY <1>2, <1>14, <1>15 DEF Heard
  <2> QED
    BY <2>1 DEF asked
<1>18. TypeOK'
  BY <1>9, <1>10, <1>11, <1>16 DEF TypeOK
<1> QED
  <2>1. \A n \in Notes : n # k.note => fate'[n] = fate[n]
    BY <1>15
  <2> QED
    BY <1>5, <1>8, <1>17, <1>18, <2>1

\* What Count adds to the row.
LEMMA CountFacts ==
    ASSUME TypeOK, NEW k \in DOMAIN jobs, Count(k)
    PROVE  /\ TypeOK'
           /\ \E r \in Row : /\ rows' = [rows EXCEPT ![k.note] = r] /\ r.status = rows[k.note].status
                             /\ r.success = rows[k.note].success + jobs[k].ok
                             /\ r.failure = rows[k.note].failure + failedNow(k)
                             /\ r.total = rows[k.note].total
           /\ \E j \in Job : /\ Sets(k, j) /\ j.devices = jobs[k].devices /\ j.retry = jobs[k].retry
                             /\ j.pc = IF jobs[k].retry # {} /\ shouldRequeueRetryableTokens(k)
                                       THEN "requeue" ELSE "finish"
<1>1. RowsOK /\ JobsOK /\ HistoryOK /\ DevicesOK
  BY DEF TypeOK
<1>2. /\ jobs[k] \in Job /\ k.note \in Notes /\ rows[k.note] \in Row
      /\ jobs[k].ok \in Nat /\ jobs[k].bad \in Nat /\ jobs[k].retry \in SUBSET Devices
  BY <1>1, JobParts DEF Job, RowsOK
<1>3. failedNow(k) \in Nat
  BY <1>2, FiniteDevices DEF failedNow
<1>4. PICK s \in Nat, f \in Nat : /\ s = rows[k.note].success + jobs[k].ok
                                  /\ f = rows[k.note].failure + failedNow(k)
  BY <1>2, <1>3 DEF Row
<1> DEFINE r == [rows[k.note] EXCEPT !.success = s, !.failure = f]
<1>5. /\ r \in Row /\ r.status = rows[k.note].status /\ r.success = s /\ r.failure = f
      /\ r.total = rows[k.note].total
  BY <1>2 DEF Row
<1>6. rows' = [rows EXCEPT ![k.note] = r]
  BY <1>4 DEF Count
<1> HIDE DEF r
<1>7. PICK pc \in Stages : pc = IF jobs[k].retry # {} /\ shouldRequeueRetryableTokens(k)
                                THEN "requeue" ELSE "finish"
  BY DEF Stages
<1>8. Goes(k, pc)
  BY <1>7 DEF Count
<1>9. PICK j \in Job : /\ Sets(k, j) /\ j.pc = pc /\ j.devices = jobs[k].devices
                       /\ j.retry = jobs[k].retry
  BY <1>1, <1>8, GoesFacts
<1>10. pc # "waiting"
  BY <1>7
<1>11. JobsOK' /\ DOMAIN jobs' = DOMAIN jobs
  BY <1>1, <1>9, <1>10, SetsType, SetsFacts
<1>12. RowsOK'
  BY <1>1, <1>5, <1>6, <1>11, RowWritten DEF Count
<1>13. HistoryOK' /\ DevicesOK'
  BY <1>1 DEF Count, HistoryOK, DevicesOK, devices, ages, history
<1>14. TypeOK'
  BY <1>11, <1>12, <1>13 DEF TypeOK
<1> QED
  BY <1>4, <1>5, <1>6, <1>7, <1>9, <1>14

\* What Requeue writes in the row and in the queue.
LEMMA RequeueFacts ==
    ASSUME TypeOK, NEW k \in DOMAIN jobs, Requeue(k)
    PROVE  /\ TypeOK'
           /\ \E r \in Row : /\ rows' = [rows EXCEPT ![k.note] = r] /\ r.status = rows[k.note].status
                             /\ r.success = rows[k.note].success
                             /\ r.failure = rows[k.note].failure + Cardinality(jobs[k].retry \ active)
                             /\ r.total = rows[k.note].total
           /\ \E j \in Job : /\ j.pc = "finish" /\ j.devices = jobs[k].devices
                             /\ enqueueBatches(k, j, {jobs[k].retry \cap active} \ {{}}, k.gen + 1)
           /\ IsFiniteSet({jobs[k].retry \cap active} \ {{}})
           /\ {jobs[k].retry \cap active} \ {{}} \in SUBSET SUBSET Devices
<1>1. RowsOK /\ JobsOK /\ HistoryOK /\ DevicesOK
  BY DEF TypeOK
<1>2. /\ jobs[k] \in Job /\ k.note \in Notes /\ rows[k.note] \in Row /\ k.gen + 1 \in Nat
      /\ jobs[k].retry \in SUBSET Devices
  BY <1>1, JobParts DEF Job, RowsOK
<1>3. PICK f \in Nat : f = rows[k.note].failure + Cardinality(jobs[k].retry \ active)
  <2>1. Cardinality(jobs[k].retry \ active) \in Nat
    BY <1>2, FiniteDevices
  <2> QED
    BY <1>2, <2>1 DEF Row
<1> DEFINE r == [rows[k.note] EXCEPT !.failure = f]
<1>4. /\ r \in Row /\ r.status = rows[k.note].status /\ r.success = rows[k.note].success
      /\ r.failure = f /\ r.total = rows[k.note].total
  BY <1>2 DEF Row
<1>5. rows' = [rows EXCEPT ![k.note] = r]
  BY <1>3 DEF Requeue, droppedCount
<1> HIDE DEF r
<1> DEFINE j == [jobs[k] EXCEPT !.pc = "finish"]
           chunks == {jobs[k].retry \cap active} \ {{}}
<1>6. j \in Job /\ j.pc = "finish" /\ j.devices = jobs[k].devices
  BY <1>2 DEF Job, Stages
<1>7. enqueueBatches(k, j, chunks, k.gen + 1)
  BY DEF Requeue
<1>8. IsFiniteSet(chunks) /\ chunks \in SUBSET SUBSET Devices
  <2>1. IsFiniteSet({jobs[k].retry \cap active})
    BY FS_Singleton
  <2>2. IsFiniteSet(chunks)
    BY <2>1, FS_Subset
  <2> QED
    BY <1>2, <2>2
<1> HIDE DEF j, chunks
<1>9. JobsOK' /\ \A i \in DOMAIN jobs' : i \in DOMAIN jobs \/ i.note = k.note
  BY <1>1, <1>2, <1>6, <1>7, <1>8, EnqueueFacts
<1>10. RowsOK'
  BY <1>1, <1>4, <1>5, <1>9, RowWritten DEF Requeue
<1>11. HistoryOK'
  <2>1. Becomes(k.note, jobs[k].retry \ active, "dead")
    BY DEF Requeue
  <2> QED
    BY <1>1, <1>2, <2>1, BecomesFacts DEF Requeue, HistoryOK, ages
<1>12. DevicesOK'
  BY <1>1 DEF Requeue, DevicesOK, devices
<1>13. TypeOK'
  BY <1>9, <1>10, <1>11, <1>12 DEF TypeOK
<1> QED
  BY <1>3, <1>4, <1>5, <1>6, <1>7, <1>8, <1>13 DEF chunks
\* finalizeIfComplete writes the status and nothing else.
LEMMA FinalizeFacts ==
    ASSUME TypeOK, NEW k \in DOMAIN jobs, finalizeIfComplete(k)
    PROVE  /\ TypeOK'
           /\ \E r \in Row : /\ rows' = [rows EXCEPT ![k.note] = r]
                             /\ r.success = rows[k.note].success
                             /\ r.failure = rows[k.note].failure /\ r.total = rows[k.note].total
                             /\ r.status = IF Complete(k.note) THEN Verdict(r) ELSE rows[k.note].status
           /\ Completes(k) \/ Goes(k, "throw")
<1>1. RowsOK /\ JobsOK /\ HistoryOK /\ DevicesOK
  BY DEF TypeOK
<1>2. jobs[k] \in Job /\ k.note \in Notes /\ rows[k.note] \in Row
  BY <1>1, JobParts DEF RowsOK
<1>3. Completes(k) \/ Goes(k, "throw")
  BY DEF finalizeIfComplete
<1>4. JobsOK' /\ DOMAIN jobs' \subseteq DOMAIN jobs
  <2>1. CASE Completes(k)
    BY <1>1, <2>1, CompletesFacts DEF Sets
  <2>2. CASE Goes(k, "throw")
    <3>1. "throw" \in Stages
      BY DEF Stages
    <3>2. PICK j \in Job : Sets(k, j) /\ j.pc = "throw"
      BY <1>1, <2>2, <3>1, GoesFacts
    <3> QED
      BY <1>1, <3>2, SetsType, SetsFacts
  <2> QED
    BY <1>3, <2>1, <2>2
<1>5. \E r \in Row : /\ rows' = [rows EXCEPT ![k.note] = r]
                     /\ r.success = rows[k.note].success
                     /\ r.failure = rows[k.note].failure /\ r.total = rows[k.note].total
                     /\ r.status = IF Complete(k.note) THEN Verdict(r) ELSE rows[k.note].status
  <2>1. CASE Complete(k.note)
    <3>1. PICK v \in Statuses : v = Verdict(rows[k.note])
      BY DEF Verdict, Statuses, TERMINAL_NOTIFICATION_STATUSES
    <3> DEFINE r == [rows[k.note] EXCEPT !.status = v]
    <3>2. /\ r \in Row /\ r.status = v /\ r.success = rows[k.note].success
          /\ r.failure = rows[k.note].failure /\ r.total = rows[k.note].total
      BY <1>2 DEF Row, Statuses
    <3>3. rows' = [rows EXCEPT ![k.note] = r]
      BY <2>1, <3>1 DEF finalizeIfComplete
    <3> HIDE DEF r
    <3>4. Verdict(r) = v
      BY <3>1, <3>2 DEF Verdict
    <3> QED
      BY <2>1, <3>2, <3>3, <3>4
  <2>2. CASE ~Complete(k.note)
    <3>1. rows' = rows
      BY <2>2 DEF finalizeIfComplete
    <3>2. rows' = [rows EXCEPT ![k.note] = rows[k.note]]
      BY <1>1, <1>2, <3>1 DEF RowsOK
    <3> QED
      BY <1>2, <2>2, <3>2
  <2> QED
    BY <2>1, <2>2
<1>6. RowsOK'
  BY <1>1, <1>4, <1>5, RowWritten DEF finalizeIfComplete
<1>7. HistoryOK' /\ DevicesOK'
  BY <1>1 DEF finalizeIfComplete, HistoryOK, DevicesOK, devices, ages, history
<1>8. TypeOK'
  BY <1>4, <1>6, <1>7 DEF TypeOK
<1> QED
  BY <1>3, <1>5, <1>8

\* A job that failed is tried again or marks its row: its queue entry and its
\* row stay well typed.
LEMMA FailedType ==
    ASSUME TypeOK, NEW k \in DOMAIN jobs, AttemptFails(k) \/ onFailed(k)
    PROVE  TypeOK' /\ DOMAIN jobs' = DOMAIN jobs /\ \A i \in DOMAIN jobs : i # k => jobs'[i] = jobs[i]
<1>1. RowsOK /\ JobsOK /\ HistoryOK /\ DevicesOK
  BY DEF TypeOK
<1>2. jobs[k] \in Job /\ k.note \in Notes /\ rows[k.note] \in Row /\ jobs[k].tries \in Nat
  BY <1>1, JobParts DEF RowsOK, Job
<1>3. \E j \in Job : Sets(k, j) /\ (j.pc = "waiting" => j.devices = k.devices)
  <2>1. PICK t \in Nat : t = jobs[k].tries
    BY <1>2
  <2>2. \A w \in Job : /\ [w EXCEPT !.tries = t] \in Job /\ [w EXCEPT !.tries = t].tries = t
                       /\ [w EXCEPT !.tries = t].devices = w.devices
    BY DEF Job
  <2>3. PICK w \in Job : w = Restarted(k) /\ w.devices = k.devices /\ w.tries = t
    <3>1. Waiting(k) \in Job /\ Waiting(k).devices = k.devices
      BY <1>1, JobParts, WaitingType
    <3>2. Restarted(k) = [Waiting(k) EXCEPT !.tries = t]
      BY <2>1 DEF Restarted
    <3> QED
      BY <2>2, <3>1, <3>2
  <2>4. \A pc \in Stages : /\ [w EXCEPT !.pc = pc] \in Job
                           /\ [w EXCEPT !.pc = pc].devices = k.devices
    BY <2>3 DEF Job
  <2>5. PICK u \in Nat : u = t + 1
    OBVIOUS
  <2>6. [w EXCEPT !.tries = u] \in Job /\ [w EXCEPT !.tries = u].devices = k.devices
    BY <2>3 DEF Job
  <2>7. "failed" \in Stages
    BY DEF Stages
  <2>8. \/ jobs' = [jobs EXCEPT ![k] = [w EXCEPT !.tries = u]]
        \/ jobs' = [jobs EXCEPT ![k] = [w EXCEPT !.pc = "failed"]]
    BY <2>3, <2>5 DEF AttemptFails, onFailed
  <2>9. PICK j \in Job : j.devices = k.devices /\ jobs' = [jobs EXCEPT ![k] = j]
    BY <2>4, <2>6, <2>7, <2>8
  <2> QED
    BY <1>1, <2>9, ExceptSets
<1>4. JobsOK' /\ DOMAIN jobs' = DOMAIN jobs /\ \A i \in DOMAIN jobs : i # k => jobs'[i] = jobs[i]
  BY <1>1, <1>3, SetsType, SetsFacts
<1>5. \E r \in Row : rows' = [rows EXCEPT ![k.note] = r]
  <2>1. rows = [rows EXCEPT ![k.note] = rows[k.note]]
    BY <1>1, <1>2 DEF RowsOK
  <2>2. "failed" \in Statuses
    BY DEF Statuses, TERMINAL_NOTIFICATION_STATUSES
  <2>3. [rows[k.note] EXCEPT !.status = "failed"] \in Row
    BY <1>2, <2>2, RowType
  <2>4. rows' = rows \/ rows' = [rows EXCEPT ![k.note] = [rows[k.note] EXCEPT !.status = "failed"]]
    BY DEF AttemptFails, onFailed
  <2> QED
    BY <1>2, <2>1, <2>3, <2>4
<1>6. RowsOK'
  <2>1. sending' = sending
    BY DEF AttemptFails, onFailed
  <2> QED
    BY <1>1, <1>4, <1>5, <2>1, RowWritten
<1>7. HistoryOK'
  <2>1. /\ fate' = fate /\ repeated' = repeated /\ ages' = ages
        /\ slipped' \subseteq slipped \cup {k.note}
    BY DEF AttemptFails, onFailed, history
  <2> QED
    BY <1>1, <1>2, <2>1 DEF HistoryOK, ages
<1>8. DevicesOK'
  BY <1>1 DEF AttemptFails, onFailed, DevicesOK, devices
<1> QED
  BY <1>4, <1>6, <1>7, <1>8 DEF TypeOK
-----------------------------------------------------------------------------
(* Faults, requests and time *)

LEMMA RestartedFacts ==
    ASSUME JobsOK, NEW k \in DOMAIN jobs, jobs' = [jobs EXCEPT ![k] = Restarted(k)]
    PROVE  /\ JobsOK' /\ DOMAIN jobs' = DOMAIN jobs
           /\ \A i \in DOMAIN jobs : i # k => jobs'[i] = jobs[i]
<1>1. jobs[k].tries \in Nat
  BY JobParts DEF Job
<1>2. Restarted(k) \in Job /\ Restarted(k).devices = k.devices
  <2>1. "waiting" \in Stages
    BY DEF Stages
  <2>2. /\ [Waiting(k) EXCEPT !.tries = jobs[k].tries] \in Job
        /\ [Waiting(k) EXCEPT !.tries = jobs[k].tries].devices = k.devices
    BY <1>1, <2>1, RestartType
  <2> QED
    BY <2>2 DEF Restarted
<1>3. Sets(k, Restarted(k))
  BY ExceptSets
<1> QED
  BY <1>2, <1>3, SetsType, SetsFacts

\* A running job is interrupted.
LEMMA InterruptFacts ==
    ASSUME TypeOK, NEW k \in DOMAIN jobs, Throw(k) \/ Stall(k)
    PROVE  /\ TypeOK' /\ DOMAIN jobs' = DOMAIN jobs
           /\ \A i \in DOMAIN jobs : i # k => jobs'[i] = jobs[i]
<1>1. RowsOK /\ JobsOK /\ HistoryOK /\ DevicesOK /\ k.note \in Notes
  BY JobParts DEF TypeOK
<1>2. /\ JobsOK' /\ DOMAIN jobs' = DOMAIN jobs
      /\ \A i \in DOMAIN jobs : i # k => jobs'[i] = jobs[i]
  <2>1. CASE Throw(k)
    <3>1. "throw" \in Stages
      BY DEF Stages
    <3>2. PICK j \in Job : Sets(k, j) /\ j.pc = "throw"
      BY <1>1, <2>1, <3>1, GoesFacts DEF Throw
    <3> QED
      BY <1>1, <3>2, SetsType, SetsFacts
  <2>2. CASE Stall(k)
    BY <1>1, <2>2, RestartedFacts DEF Stall
  <2> QED
    BY <2>1, <2>2
<1>3. RowsOK'
  <2>1. rows' = rows /\ sending' = sending
    BY DEF Throw, Stall
  <2> QED
    BY <1>1, <1>2, <2>1 DEF RowsOK
<1>4. HistoryOK'
  <2>1. Repeats(k.note) /\ UNCHANGED <<ages, slipped>>
    BY DEF Throw, Stall
  <2> QED
    BY <1>1, <2>1, RepeatsFacts
<1>5. DevicesOK'
  BY <1>1 DEF Throw, Stall, DevicesOK, devices
<1> QED
  BY <1>2, <1>3, <1>4, <1>5 DEF TypeOK

LEMMA RetryFacts ==
    ASSUME TypeOK, NEW k \in DOMAIN jobs, retryAllFailed(k)
    PROVE  /\ TypeOK' /\ DOMAIN jobs' = DOMAIN jobs
           /\ \A i \in DOMAIN jobs : i # k => jobs'[i] = jobs[i]
<1>1. JobsOK
  BY DEF TypeOK
<1>2. /\ JobsOK' /\ DOMAIN jobs' = DOMAIN jobs
      /\ \A i \in DOMAIN jobs : i # k => jobs'[i] = jobs[i]
  BY <1>1, RestartedFacts DEF retryAllFailed
<1>3. TypeOK'
  BY <1>2, OnlyQueueType DEF retryAllFailed
<1> QED
  BY <1>2, <1>3

LEMMA LoseFacts ==
    ASSUME TypeOK, NEW k \in DOMAIN jobs, LoseJob(k)
    PROVE  /\ TypeOK' /\ DOMAIN jobs' = DOMAIN jobs \ {k}
           /\ \A i \in DOMAIN jobs' : jobs'[i] = jobs[i]
<1>1. JobsOK
  BY DEF TypeOK
<1>2. /\ JobsOK' /\ DOMAIN jobs' = DOMAIN jobs \ {k}
      /\ \A i \in DOMAIN jobs' : jobs'[i] = jobs[i]
  BY <1>1, WithoutFacts DEF LoseJob
<1>3. TypeOK'
  BY <1>2, OnlyQueueType DEF LoseJob
<1> QED
  BY <1>2, <1>3

LEMMA SendFacts ==
    ASSUME TypeOK, NEW n \in Notes, NEW people \in SUBSET People, send(n, people)
    PROVE  /\ TypeOK'
           /\ \E r \in Row : /\ r.status = "queued" /\ r.success = 0 /\ r.failure = 0
                             /\ \A m \in Notes : rows'[m] = IF m = n THEN r ELSE rows[m]
<1>1. RowsOK /\ JobsOK /\ HistoryOK /\ DevicesOK
  BY DEF TypeOK
<1> DEFINE r == [status |-> "queued", to |-> people, success |-> 0, failure |-> 0,
                 total |-> Cardinality(resolveTokens(people))]
<1>2. r \in Row /\ r.status = "queued" /\ r.success = 0 /\ r.failure = 0
  BY <1>1, ResolvedDevices, FiniteDevices DEF Row
<1>3. rows' = [rows EXCEPT ![n] = r]
  BY DEF send
<1> HIDE DEF r
<1>4. /\ rows' \in [Notes -> Row \cup {Null}]
      /\ \A m \in Notes : rows'[m] = IF m = n THEN r ELSE rows[m]
      /\ \A m \in Notes : rows[m] \in Row => rows'[m] \in Row
  BY <1>1, <1>2, <1>3, RowChanges
<1>5. RowsOK'
  <2>1. sending' = sending \cup {n} /\ jobs' = jobs
    BY DEF send
  <2>2. sending' \subseteq Notes /\ \A m \in sending' : m \in sending \/ rows'[m] \in Row
    BY <1>1, <1>2, <1>4, <2>1 DEF RowsOK
  <2> QED
    BY <1>1, <1>4, <2>1, <2>2, RowsKept
<1>6. JobsOK' /\ HistoryOK' /\ DevicesOK'
  BY <1>1 DEF send, JobsOK, At, HistoryOK, DevicesOK, devices, ages, history
<1> QED
  BY <1>2, <1>4, <1>5, <1>6 DEF TypeOK

\* The fan-out of a row enters the queue.
LEMMA EnterType ==
    ASSUME TypeOK, NEW n \in Notes, rows[n] \in Row, jobs' = With(FanOut(n)),
           UNCHANGED <<rows, devices, ages, history>>, sending' \subseteq sending
    PROVE  TypeOK'
<1>1. JobsOK
  BY DEF TypeOK
<1>2. JobsOK' /\ DOMAIN jobs' = DOMAIN jobs \cup {FanOut(n)}
  BY <1>1, WithFacts
<1>3. FanOut(n).note = n
  BY FanOutKey
<1>4. \A k \in DOMAIN jobs' : k \in DOMAIN jobs \/ (k.note \in Notes /\ rows[k.note] \in Row)
  BY <1>2, <1>3
<1> QED
  BY <1>2, <1>4, OnlyQueueType

LEMMA EnqueueType ==
    ASSUME TypeOK, NEW n \in Notes, enqueueNotification(n)
    PROVE  TypeOK' /\ rows[n] \in Row
<1>1. rows[n] \in Row
  BY DEF TypeOK, RowsOK, enqueueNotification
<1>2. CASE jobs' = With(FanOut(n))
  BY <1>1, <1>2, EnterType DEF enqueueNotification
<1>3. CASE jobs' = jobs
  <2>1. JobsOK'
    BY <1>3 DEF TypeOK, JobsOK, At
  <2> QED
    BY <1>1, <1>3, <2>1, OnlyQueueType DEF enqueueNotification
<1> QED
  BY <1>1, <1>2, <1>3 DEF enqueueNotification

LEMMA RecoverType ==
    ASSUME TypeOK, NEW n \in Notes, recoverStuckQueued(n)
    PROVE  TypeOK' /\ rows[n] \in Row /\ rows[n].status = "queued" /\ jobs' = With(FanOut(n))
<1>1. rows[n] \in Row /\ rows[n].status = "queued"
  BY DEF TypeOK, RowsOK, recoverStuckQueued, stuck
<1>2. jobs' = With(FanOut(n)) /\ TypeOK'
  BY <1>1, EnterType DEF recoverStuckQueued
<1> QED
  BY <1>1, <1>2

LEMMA DispatchType ==
    ASSUME TypeOK, NEW n \in Notes, dispatchExisting(n)
    PROVE  TypeOK' /\ \A m \in Notes : m # n => rows'[m] = rows[m]
<1>1. RowsOK /\ JobsOK /\ HistoryOK /\ DevicesOK
  BY DEF TypeOK
<1>2. rows[n] \in Row
  BY <1>1 DEF RowsOK, dispatchExisting
<1> DEFINE r == [rows[n] EXCEPT !.status = "queued"]
<1>3. r \in Row
  BY <1>2, RowType DEF Statuses, Row
<1>4. rows' = [rows EXCEPT ![n] = r]
  BY DEF dispatchExisting
<1> HIDE DEF r
<1>5. /\ rows' \in [Notes -> Row \cup {Null}]
      /\ \A m \in Notes : rows'[m] = IF m = n THEN r ELSE rows[m]
      /\ \A m \in Notes : rows[m] \in Row => rows'[m] \in Row
  BY <1>1, <1>3, <1>4, RowChanges
<1>6. RowsOK'
  <2>1. sending' = sending \cup {n} /\ jobs' = jobs
    BY DEF dispatchExisting
  <2>2. sending' \subseteq Notes /\ \A m \in sending' : m \in sending \/ rows'[m] \in Row
    BY <1>1, <1>3, <1>5, <2>1 DEF RowsOK
  <2> QED
    BY <1>1, <1>5, <2>1, <2>2, RowsKept
<1>7. JobsOK' /\ DevicesOK'
  BY <1>1 DEF dispatchExisting, JobsOK, At, DevicesOK, devices
<1>8. HistoryOK'
  BY <1>1, RepeatsFacts DEF dispatchExisting
<1> QED
  BY <1>5, <1>6, <1>7, <1>8 DEF TypeOK

\* Steps that touch neither a row nor the queue.
LEMMA QuietType ==
    ASSUME TypeOK, UNCHANGED <<rows, jobs, history>>, sending' \subseteq sending,
           old' \subseteq Notes, stale' \subseteq Notes, DevicesOK'
    PROVE  TypeOK'
<1>1. RowsOK'
  BY DEF TypeOK, RowsOK
<1>2. JobsOK' /\ HistoryOK'
  BY DEF TypeOK, JobsOK, At, HistoryOK, history
<1> QED
  BY <1>1, <1>2 DEF TypeOK

\* Requests of devices, requests that die and time.
Quiet ==
    \/ \E p \in People, d \in Devices : registerToken(p, d)
    \/ \E p \in People, ds \in SUBSET Devices : unregisterTokens(p, ds)
    \/ \E n \in Notes : RequestDies(n) \/ HalfHourPasses(n) \/ DaysPass(n)
    \/ UNCHANGED vars

LEMMA QuietFacts ==
    ASSUME TypeOK, Quiet
    PROVE  /\ TypeOK' /\ UNCHANGED <<rows, jobs, history>>
           /\ sending' \subseteq sending /\ old \subseteq old' /\ fcmReady' = fcmReady
<1>1. DevicesOK /\ HistoryOK
  BY DEF TypeOK
<1>2. CASE \E p \in People, d \in Devices : registerToken(p, d)
  <2>1. PICK p \in People, d \in Devices : registerToken(p, d)
    BY <1>2
  <2>2. DevicesOK'
    BY <1>1, <2>1 DEF registerToken, DevicesOK
  <2> QED
    BY <1>1, <2>1, <2>2, QuietType DEF registerToken, ages, history, HistoryOK
<1>3. CASE \E p \in People, ds \in SUBSET Devices : unregisterTokens(p, ds)
  <2>1. PICK p \in People, ds \in SUBSET Devices : unregisterTokens(p, ds)
    BY <1>3
  <2>2. DevicesOK'
    BY <1>1, <2>1 DEF unregisterTokens, DevicesOK
  <2> QED
    BY <1>1, <2>1, <2>2, QuietType DEF unregisterTokens, ages, history, HistoryOK
<1>4. CASE \E n \in Notes : RequestDies(n) \/ HalfHourPasses(n) \/ DaysPass(n)
  <2>1. PICK n \in Notes : RequestDies(n) \/ HalfHourPasses(n) \/ DaysPass(n)
    BY <1>4
  <2>2. DevicesOK' /\ fcmReady' = fcmReady
    BY <1>1, <2>1 DEF RequestDies, HalfHourPasses, DaysPass, DevicesOK, devices
  <2>3. /\ UNCHANGED <<rows, jobs, history>> /\ sending' \subseteq sending /\ old \subseteq old'
        /\ old' \subseteq Notes /\ stale' \subseteq Notes
    BY <1>1, <2>1 DEF RequestDies, HalfHourPasses, DaysPass, ages, history, HistoryOK
  <2> QED
    BY <2>2, <2>3, QuietType
<1>5. CASE UNCHANGED vars
  <2>1. DevicesOK'
    BY <1>1, <1>5 DEF vars, DevicesOK
  <2> QED
    BY <1>1, <1>5, <2>1, QuietType DEF vars, history, HistoryOK
<1> QED
  BY <1>2, <1>3, <1>4, <1>5 DEF Quiet
-----------------------------------------------------------------------------
(* The invariant.  For a row whose jobs were never interrupted and whose      *)
(* providers are configured, every device its fan-out has chosen is in the    *)
(* hands of one job, is counted once, or is one its provider said nothing of. *)

Is(n, is) == {d \in Devices : fate[n][d].is = is}
JobsOf(n) == {k \in DOMAIN jobs : k.note = n}

Clean(n) == n \notin repeated /\ Served(n)

\* The devices that job j has still to answer for.
Pool(j) ==
    IF j.pc \in {"waiting", "send", "count"} THEN j.devices
    ELSE IF j.pc = "requeue" THEN j.retry ELSE {}

Fresh(n, ds, tries) == \A d \in ds : fate[n][d].is = "aimed" /\ fate[n][d].tries = tries

\* So many failures that nothing is retried.
Stopped(n) == rows[n].failure >= MAX_RECORDED_FAILURES_BEFORE_STOP

\* What a job knows of its devices: they were tried in the waves before its
\* own and no more, and what it counts is what became of them.
JobKnows(k) ==
    LET j == jobs[k] IN
    /\ k.gen <= MAX_TOKEN_RETRY_GENERATIONS
    /\ j.pc \in {"waiting", "send"} => Fresh(k.note, j.devices, k.gen)
    /\ j.pc \in {"count", "requeue", "finish"} => j.devices \subseteq aimedAt(k.note)
    /\ j.pc = "count" =>
          /\ j.retry \subseteq j.devices
          /\ j.ok = Cardinality(j.devices \cap Is(k.note, "reached"))
          /\ j.bad = Cardinality(j.devices \cap Is(k.note, "dead"))
    /\ j.pc \in {"count", "requeue"} => Fresh(k.note, j.retry, k.gen + 1)
    /\ j.pc = "requeue" => k.gen < MAX_TOKEN_RETRY_GENERATIONS
    /\ j.pc \in {"send", "count"} /\ j.spent => Stopped(k.note)

\* A device that may be given up.
Excused(n, d) ==
    \/ fate[n][d].is = "dead"
    \/ fate[n][d].is = "aimed" /\ (TriedInEveryWave(n, d) \/ Stopped(n))

\* The counters of a row are the sizes of two sets of devices, for which no
\* job answers any more.
Counted(n, S, F) ==
    /\ S \subseteq Is(n, "reached")
    /\ \A d \in F : Excused(n, d)
    /\ rows[n].success = Cardinality(S) /\ rows[n].failure = Cardinality(F)
    /\ \A k \in JobsOf(n) : Pool(jobs[k]) \cap (S \cup F) = {}

\* No device is in two jobs.
Apart(n) == \A k, m \in JobsOf(n) : k # m => Pool(jobs[k]) \cap Pool(jobs[m]) = {}

\* A row before its fan-out has chosen the devices ...
Unstarted(n) ==
    /\ fate[n] = Untouched
    /\ rows[n].status \in {"queued", "failed"} /\ rows[n].success = 0 /\ rows[n].failure = 0
    /\ \A k \in JobsOf(n) : /\ IsFanOut(k) /\ jobs[k].devices = {}
                            /\ jobs[k].pc \in {"waiting", "resolve", "completed"}
                            /\ jobs[k].pc = "resolve" => ~jobs[k].spent

\* ... and after.
Knowing(n) == \A k \in JobsOf(n) : JobKnows(k) /\ jobs[k].pc \notin {"resolve", "failed", "throw"}

Decided(n) ==
    terminal(n) /\ n \notin old =>
        /\ rows[n].success + rows[n].failure >= rows[n].total
        /\ rows[n].status = Verdict(rows[n])

Started(n) ==
    /\ FanOut(n) \in DOMAIN jobs /\ jobs[FanOut(n)].pc # "waiting"
    /\ rows[n].status # "queued" /\ rows[n].total = Cardinality(aimedAt(n))
    /\ Knowing(n) /\ Apart(n)
    /\ \E S, F \in SUBSET Devices : Counted(n, S, F)
    /\ Decided(n)

NoteInv(n) ==
    Clean(n) =>
        \/ JobsOf(n) = {} /\ n \notin sending /\ fate[n] = Untouched /\ rows[n] = Null
        \/ rows[n] \in Row /\ (Unstarted(n) \/ Started(n))

FanOutInv == TypeOK /\ \A n \in Notes : NoteInv(n)

-----------------------------------------------------------------------------
(* What a step leaves alone *)

\* A row that is clean after a step was clean before it.
LEMMA CleanBefore ==
    ASSUME NEW n, fcmReady' = fcmReady, repeated \subseteq repeated', aimedAt(n) \subseteq aimedAt(n)'
    PROVE  Clean(n)' => Clean(n)
BY DEF Clean, Served

LEMMA CleanKept ==
    ASSUME NEW n, fcmReady' = fcmReady, repeated \subseteq repeated', fate'[n] = fate[n]
    PROVE  (Clean(n)' => Clean(n)) /\ aimedAt(n)' = aimedAt(n)
BY DEF Clean, Served, aimedAt

\* A job keeps its knowledge when nothing happens to its devices.
LEMMA KnowsKept ==
    ASSUME NEW k \in DOMAIN jobs, jobs[k] \in Job, JobKnows(k), jobs'[k] = jobs[k],
           \A d \in Pool(jobs[k]) : fate'[k.note][d] = fate[k.note][d],
           aimedAt(k.note) \subseteq aimedAt(k.note)', Stopped(k.note) => Stopped(k.note)'
    PROVE  JobKnows(k)'
<1> DEFINE j == jobs[k]
           n == k.note
<1>1. j \in Job /\ jobs'[k] = j /\ j.devices \in SUBSET Devices /\ j.retry \in SUBSET Devices
  BY DEF Job
<1>2. \A d \in Pool(j) : fate'[n][d] = fate[n][d]
  OBVIOUS
<1>3. j.pc \in {"waiting", "send"} => Fresh(n, j.devices, k.gen) /\ Fresh(n, j.devices, k.gen)'
  BY <1>1, <1>2 DEF JobKnows, Pool, Fresh
<1>8. j.pc \in {"count", "requeue", "finish"} => j.devices \subseteq aimedAt(n)'
  BY DEF JobKnows
<1>4. j.pc = "count" =>
        /\ j.retry \subseteq j.devices
        /\ j.ok = Cardinality(j.devices \cap Is(n, "reached")')
        /\ j.bad = Cardinality(j.devices \cap Is(n, "dead")')
  <2> SUFFICES ASSUME j.pc = "count"
               PROVE  /\ j.retry \subseteq j.devices
                      /\ j.ok = Cardinality(j.devices \cap Is(n, "reached")')
                      /\ j.bad = Cardinality(j.devices \cap Is(n, "dead")')
    OBVIOUS
  <2>1. \A d \in j.devices : fate'[n][d] = fate[n][d]
    BY <1>2 DEF Pool
  <2>2. \A is : j.devices \cap Is(n, is)' = j.devices \cap Is(n, is)
    BY <1>1, <2>1 DEF Is
  <2> QED
    BY <2>2 DEF JobKnows
<1>5. j.pc \in {"count", "requeue"} => Fresh(n, j.retry, k.gen + 1)'
  BY <1>1, <1>2 DEF JobKnows, Pool, Fresh
<1>6. k.gen <= MAX_TOKEN_RETRY_GENERATIONS /\ (j.pc = "requeue" => k.gen < MAX_TOKEN_RETRY_GENERATIONS)
  BY DEF JobKnows
<1>7. j.pc \in {"send", "count"} /\ j.spent => Stopped(n)'
  BY DEF JobKnows
<1> QED
  BY <1>1, <1>3, <1>4, <1>5, <1>6, <1>7, <1>8 DEF JobKnows

\* A row to which nothing happens keeps its invariant.
LEMMA NoteKept ==
    ASSUME JobsOK, JobsOK', NEW n \in Notes, NoteInv(n), rows'[n] = rows[n], fate'[n] = fate[n],
           n \in sending' => n \in sending, repeated \subseteq repeated', fcmReady' = fcmReady,
           n \in old => n \in old', JobsOf(n)' = JobsOf(n),
           \A k \in JobsOf(n) : jobs'[k] = jobs[k]
    PROVE  NoteInv(n)'
<1> SUFFICES ASSUME Clean(n)' PROVE NoteInv(n)'
  BY DEF NoteInv
<1>4. Clean(n) /\ aimedAt(n)' = aimedAt(n)
  BY CleanKept
<1>1. CASE JobsOf(n) = {} /\ n \notin sending /\ fate[n] = Untouched /\ rows[n] = Null
  BY <1>1 DEF NoteInv, Untouched
<1>2. CASE rows[n] \in Row /\ Unstarted(n)
  <2>1. Unstarted(n)'
    BY <1>2 DEF Unstarted, Untouched
  <2> QED
    BY <1>2, <2>1 DEF NoteInv, Row
<1>3. CASE rows[n] \in Row /\ Started(n)
  <2>1. FanOut(n) \in JobsOf(n) /\ FanOut(n) \in JobsOf(n)'
    BY <1>3, FanOutKey DEF Started, JobsOf
  <2>2. (FanOut(n) \in DOMAIN jobs /\ jobs[FanOut(n)].pc # "waiting")'
    BY <1>3, <2>1 DEF Started, JobsOf
  <2>3. (rows[n].status # "queued" /\ rows[n].total = Cardinality(aimedAt(n)))'
    BY <1>3, <1>4 DEF Started
  <2>4. Knowing(n)'
    <3>1. \A k \in JobsOf(n) : /\ k \in DOMAIN jobs /\ k.note = n /\ jobs[k] \in Job /\ JobKnows(k)
                               /\ jobs[k].pc \notin {"resolve", "failed", "throw"}
      BY <1>3, JobParts DEF Started, Knowing, JobsOf
    <3>2. Stopped(n) => Stopped(n)'
      BY DEF Stopped
    <3>3. \A k \in JobsOf(n) : JobKnows(k)'
      BY <1>4, <3>1, <3>2, KnowsKept
    <3> QED
      BY <3>1, <3>3 DEF Knowing
  <2>5. Apart(n)'
    BY <1>3 DEF Started, Apart
  <2>6. (\E S, F \in SUBSET Devices : Counted(n, S, F))'
    <3>1. PICK S \in SUBSET Devices, F \in SUBSET Devices : Counted(n, S, F)
      BY <1>3 DEF Started
    <3>2. Counted(n, S, F)'
      BY <3>1 DEF Counted, Is, Excused, TriedInEveryWave, Stopped
    <3> QED
      BY <3>2
  <2>7. Decided(n)'
    BY <1>3 DEF Started, Decided, terminal, Verdict
  <2> QED
    BY <1>3, <2>2, <2>3, <2>4, <2>5, <2>6, <2>7 DEF NoteInv, Started, Row
<1> QED
  BY <1>1, <1>2, <1>3, <1>4 DEF NoteInv
\* A step that concerns one row keeps the invariant of the others.
LEMMA OneNote ==
    ASSUME FanOutInv, TypeOK', NEW n \in Notes, NoteInv(n)',
           \A m \in Notes : m # n => rows'[m] = rows[m] /\ fate'[m] = fate[m],
           \A m \in sending' : m # n => m \in sending,
           repeated \subseteq repeated', old \subseteq old', fcmReady' = fcmReady,
           \A k \in DOMAIN jobs \cup DOMAIN jobs' :
              k.note # n => k \in DOMAIN jobs /\ k \in DOMAIN jobs' /\ jobs'[k] = jobs[k]
    PROVE  FanOutInv'
<1>1. JobsOK /\ JobsOK'
  BY DEF FanOutInv, TypeOK
<1>2. ASSUME NEW m \in Notes, m # n PROVE NoteInv(m)'
  <2>1. JobsOf(m)' = JobsOf(m) /\ \A k \in JobsOf(m) : jobs'[k] = jobs[k]
    BY <1>2 DEF JobsOf
  <2> QED
    BY <1>1, <1>2, <2>1, NoteKept DEF FanOutInv
<1> QED
  BY <1>2 DEF FanOutInv

LEMMA QuietKeeps ==
    ASSUME FanOutInv, Quiet
    PROVE  FanOutInv'
<1>1. /\ TypeOK' /\ UNCHANGED <<rows, jobs, fate, repeated, fcmReady>>
      /\ sending' \subseteq sending /\ old \subseteq old'
  BY QuietFacts DEF FanOutInv, history
<1>2. JobsOK /\ JobsOK'
  BY <1>1 DEF FanOutInv, TypeOK
<1>3. ASSUME NEW n \in Notes PROVE NoteInv(n)'
  <2>1. JobsOf(n)' = JobsOf(n) /\ NoteInv(n)
    BY <1>1 DEF JobsOf, FanOutInv
  <2> QED
    BY <1>1, <1>2, <2>1, NoteKept
<1> QED
  BY <1>1, <1>3 DEF FanOutInv

\* What the invariant says of the row of a job.
LEMMA JobPhase ==
    ASSUME FanOutInv, NEW k \in DOMAIN jobs, Clean(k.note)
    PROVE  /\ k.note \in Notes /\ rows[k.note] \in Row /\ k \in JobsOf(k.note)
           /\ \/ Unstarted(k.note) /\ k = FanOut(k.note)
                 /\ jobs[k].pc \in {"waiting", "resolve", "completed"}
              \/ Started(k.note) /\ JobKnows(k) /\ jobs[k].pc \notin {"resolve", "failed", "throw"}
                 /\ (jobs[k].pc = "waiting" => ~IsFanOut(k))
<1>1. JobsOK /\ k.note \in Notes /\ k \in JobsOf(k.note)
  BY JobParts DEF FanOutInv, TypeOK, JobsOf
<1>2. rows[k.note] \in Row /\ (Unstarted(k.note) \/ Started(k.note))
  BY <1>1 DEF FanOutInv, NoteInv
<1>3. CASE Unstarted(k.note)
  BY <1>1, <1>2, <1>3 DEF Unstarted, JobsOK
<1>4. CASE Started(k.note)
  <2>1. JobKnows(k) /\ jobs[k].pc \notin {"resolve", "failed", "throw"}
    BY <1>1, <1>4 DEF Started, Knowing
  <2>2. jobs[k].pc = "waiting" => ~IsFanOut(k)
    BY <1>1, <1>4 DEF Started, JobsOK
  <2> QED
    BY <1>1, <1>2, <1>4, <2>1, <2>2
<1> QED
  BY <1>2, <1>3, <1>4

\* A row that is not started, after a step that changes or drops its fan-out.
LEMMA UnstartedKept ==
    ASSUME NEW n \in Notes, Unstarted(n), fate'[n] = fate[n], rows'[n] \in Row,
           rows'[n].status \in {"queued", "failed"},
           rows'[n].success = rows[n].success, rows'[n].failure = rows[n].failure,
           \A k \in JobsOf(n)' :
              \/ k \in JobsOf(n) /\ jobs'[k] = jobs[k]
              \/ /\ IsFanOut(k) /\ jobs'[k].devices = {}
                 /\ jobs'[k].pc \in {"waiting", "resolve", "completed"}
                 /\ jobs'[k].pc = "resolve" => ~jobs'[k].spent
    PROVE  NoteInv(n)'
<1>1. Unstarted(n)'
  BY DEF Unstarted, Untouched
<1> QED
  BY <1>1 DEF NoteInv

\* A started row, after a step in which its jobs give up devices and nothing
\* is counted or told.
LEMMA StartedKept ==
    ASSUME JobsOK, JobsOK', NEW n \in Notes, Started(n), fate'[n] = fate[n], rows'[n] \in Row,
           rows'[n].status # "queued", rows'[n].total = rows[n].total,
           rows'[n].success = rows[n].success, rows'[n].failure = rows[n].failure,
           FanOut(n) \in DOMAIN jobs', jobs'[FanOut(n)].pc # "waiting",
           \A k \in JobsOf(n)' :
              /\ k \in JobsOf(n) /\ Pool(jobs'[k]) \subseteq Pool(jobs[k])
              /\ jobs'[k] = jobs[k] \/ (JobKnows(k)' /\ jobs'[k].pc \notin {"resolve", "failed", "throw"}),
           Decided(n)'
    PROVE  NoteInv(n)'
<1>1. Knowing(n)'
  <2> SUFFICES ASSUME NEW k \in JobsOf(n)'
               PROVE  JobKnows(k)' /\ jobs'[k].pc \notin {"resolve", "failed", "throw"}
    BY DEF Knowing
  <2>1. /\ k \in JobsOf(n) /\ k \in DOMAIN jobs /\ k.note = n /\ jobs[k] \in Job
        /\ JobKnows(k) /\ jobs[k].pc \notin {"resolve", "failed", "throw"}
    BY JobParts DEF Started, Knowing, JobsOf
  <2>2. Stopped(n) => Stopped(n)'
    BY DEF Stopped
  <2>3. CASE jobs'[k] = jobs[k]
    <3>1. aimedAt(n)' = aimedAt(n)
      BY DEF aimedAt
    <3> QED
      BY <2>1, <2>2, <2>3, <3>1, KnowsKept
  <2> QED
    BY <2>3
<1>2. Apart(n)'
  BY DEF Started, Apart
<1>3. (\E S, F \in SUBSET Devices : Counted(n, S, F))'
  <2>1. PICK S \in SUBSET Devices, F \in SUBSET Devices : Counted(n, S, F)
    BY DEF Started
  <2>2. Counted(n, S, F)'
    BY <2>1 DEF Counted, Is, Excused, TriedInEveryWave, Stopped
  <2> QED
    BY <2>2
<1>4. (rows[n].total = Cardinality(aimedAt(n)))'
  BY DEF Started, aimedAt
<1>5. Started(n)'
  BY <1>1, <1>2, <1>3, <1>4 DEF Started
<1> QED
  BY <1>5 DEF NoteInv

\* The jobs of other rows when one job has become another.
LEMMA SetsElsewhere ==
    ASSUME JobsOK, NEW k \in DOMAIN jobs, NEW j \in Job, Sets(k, j)
    PROVE  /\ \A i \in DOMAIN jobs \cup DOMAIN jobs' :
                 i.note # k.note => i \in DOMAIN jobs /\ i \in DOMAIN jobs' /\ jobs'[i] = jobs[i]
           /\ JobsOf(k.note)' = JobsOf(k.note) /\ k \in JobsOf(k.note)
           /\ jobs'[k] = j
           /\ \A i \in JobsOf(k.note) : i # k => jobs'[i] = jobs[i]
BY SetsFacts DEF JobsOf

LEMMA WithoutElsewhere ==
    ASSUME JobsOK, NEW k \in DOMAIN jobs, DOMAIN jobs' = DOMAIN jobs \ {k},
           \A i \in DOMAIN jobs' : jobs'[i] = jobs[i]
    PROVE  /\ \A i \in DOMAIN jobs \cup DOMAIN jobs' :
                 i.note # k.note => i \in DOMAIN jobs /\ i \in DOMAIN jobs' /\ jobs'[i] = jobs[i]
           /\ JobsOf(k.note)' = JobsOf(k.note) \ {k}
           /\ \A i \in JobsOf(k.note)' : jobs'[i] = jobs[i]
BY DEF JobsOf
-----------------------------------------------------------------------------
(* Steps that start or end a job *)

LEMMA TakeKeeps ==
    ASSUME FanOutInv, NEW k \in DOMAIN jobs, Take(k)
    PROVE  FanOutInv'
<1> DEFINE n == k.note
<1>1. JobsOK /\ n \in Notes
  BY JobParts DEF FanOutInv, TypeOK
<1>2. /\ TypeOK'
      /\ rows' = rows /\ fate' = fate /\ sending' = sending /\ repeated' = repeated /\ old' = old
      /\ fcmReady' = fcmReady
      /\ jobs[k].pc = "waiting"
  BY TakeFacts DEF FanOutInv, Take, At, devices, ages, history
<1>3. PICK j \in Job : /\ Sets(k, j) /\ j.devices = k.devices
                       /\ j.pc = IF IsFanOut(k) THEN "resolve" ELSE "send"
                       /\ j.spent => rows[n].failure >= MAX_RECORDED_FAILURES_BEFORE_STOP
  BY TakeFacts DEF FanOutInv
<1>4. /\ \A i \in DOMAIN jobs \cup DOMAIN jobs' :
            i.note # n => i \in DOMAIN jobs /\ i \in DOMAIN jobs' /\ jobs'[i] = jobs[i]
      /\ JobsOf(n)' = JobsOf(n) /\ jobs'[k] = j
      /\ \A i \in JobsOf(n) : i # k => jobs'[i] = jobs[i]
  BY <1>1, <1>3, SetsElsewhere
<1>5. ASSUME Clean(n) PROVE NoteInv(n)'
  <2>1. CASE Unstarted(n) /\ k = FanOut(n)
    <3>1. IsFanOut(k) /\ k.devices = {} /\ rows[n] \in Row
      BY <1>1, <1>5, <2>1, FanOutKey, JobPhase
    <3>2. ~j.spent
      BY <1>3, <2>1, NotificationsAssumption DEF Unstarted
    <3> QED
      BY <1>1, <1>2, <1>3, <1>4, <2>1, <3>1, <3>2, UnstartedKept DEF Unstarted
  <2>2. CASE Started(n) /\ JobKnows(k) /\ ~IsFanOut(k)
    <3>1. jobs[k].devices = k.devices /\ k \in JobsOf(n) /\ rows[n] \in Row
      BY <1>1, <1>2, <1>5, JobPhase DEF JobsOK, At
    <3>2. JobKnows(k)'
      BY <1>2, <1>3, <1>4, <2>2, <3>1 DEF JobKnows, Fresh, Stopped
    <3>3. Pool(jobs'[k]) \subseteq Pool(jobs[k])
      BY <1>2, <1>3, <1>4, <2>2, <3>1 DEF Pool
    <3>4. FanOut(n) # k /\ FanOut(n) \in JobsOf(n)
      BY <1>1, <2>2, FanOutKey DEF Started, JobsOf
    <3>5. Decided(n)'
      BY <1>2, <2>2 DEF Started, Decided, terminal, Verdict
    <3> QED
      <4>1. JobsOK'
        BY <1>2 DEF TypeOK
      <4>2. FanOut(n) \in DOMAIN jobs' /\ jobs'[FanOut(n)].pc # "waiting"
        BY <1>4, <2>2, <3>4 DEF Started, JobsOf
      <4>3. \A i \in JobsOf(n)' :
              /\ i \in JobsOf(n) /\ Pool(jobs'[i]) \subseteq Pool(jobs[i])
              /\ jobs'[i] = jobs[i] \/ (JobKnows(i)' /\ jobs'[i].pc \notin {"resolve", "failed", "throw"})
        BY <1>3, <1>4, <2>2, <3>2, <3>3
      <4> QED
        BY <1>1, <1>2, <2>2, <3>1, <3>5, <4>1, <4>2, <4>3, StartedKept DEF Started
  <2> QED
    BY <1>2, <1>5, <2>1, <2>2, JobPhase
<1>6. NoteInv(n)'
  BY <1>2, <1>5, CleanKept DEF NoteInv
<1> QED
  BY <1>1, <1>2, <1>4, <1>6, OneNote

\* A job that ends: nothing else changes but the status of the row.
LEMMA EndKeeps ==
    ASSUME FanOutInv, TypeOK', NEW k \in DOMAIN jobs, Completes(k) \/ Goes(k, "throw"),
           UNCHANGED <<fate, repeated, old, fcmReady>>, sending' = sending,
           NEW r \in Row, rows' = [rows EXCEPT ![k.note] = r],
           r.success = rows[k.note].success, r.failure = rows[k.note].failure,
           Clean(k.note) => Completes(k),
           Clean(k.note) /\ Unstarted(k.note) => r.status \in {"queued", "failed"},
           Clean(k.note) /\ Started(k.note) =>
              r.total = rows[k.note].total /\ r.status # "queued" /\ Decided(k.note)'
    PROVE  FanOutInv'
<1> DEFINE n == k.note
<1>1. JobsOK /\ JobsOK' /\ RowsOK /\ n \in Notes
  BY JobParts DEF FanOutInv, TypeOK
<1>2. rows'[n] = r /\ \A m \in Notes : m # n => rows'[m] = rows[m]
  BY <1>1, RowChanges
<1>3. /\ \A i \in DOMAIN jobs \cup DOMAIN jobs' :
            i.note # n => i \in DOMAIN jobs /\ i \in DOMAIN jobs' /\ jobs'[i] = jobs[i]
      /\ JobsOf(n)' \subseteq JobsOf(n) /\ JobsOf(n) \ {k} \subseteq JobsOf(n)'
      /\ \A i \in JobsOf(n)' : i # k => jobs'[i] = jobs[i]
      /\ Clean(n) /\ k \in JobsOf(n)' => jobs'[k].pc = "completed" /\ jobs'[k].devices = k.devices
      /\ IsFanOut(k) => k \in JobsOf(n)'
  <2>1. CASE Completes(k)
    <3>1. CASE \E j \in Job : Sets(k, j) /\ j.pc = "completed" /\ j.devices = k.devices
      BY <1>1, <3>1, SetsElsewhere
    <3>2. CASE /\ ~IsFanOut(k) /\ DOMAIN jobs' = DOMAIN jobs \ {k}
               /\ \A i \in DOMAIN jobs' : jobs'[i] = jobs[i]
      BY <1>1, <3>2, WithoutElsewhere
    <3> QED
      BY <1>1, <2>1, <3>1, <3>2, CompletesFacts
  <2>2. CASE Goes(k, "throw") /\ ~Clean(n)
    <3>1. "throw" \in Stages
      BY DEF Stages
    <3>2. PICK j \in Job : Sets(k, j)
      BY <1>1, <2>2, <3>1, GoesFacts
    <3> QED
      BY <1>1, <2>2, <3>2, SetsElsewhere
  <2> QED
    BY <2>1, <2>2
<1>4. ASSUME Clean(n) PROVE NoteInv(n)'
  <2>1. CASE Unstarted(n) /\ k = FanOut(n)
    <3>1. /\ IsFanOut(k) /\ k.devices = {} /\ jobs[k].devices = {}
      BY <1>1, <1>4, <2>1, FanOutKey, JobPhase DEF Unstarted
    <3> QED
      BY <1>1, <1>2, <1>3, <1>4, <2>1, <3>1, UnstartedKept
  <2>2. CASE Started(n) /\ JobKnows(k)
    <3>1. k \in JobsOf(n)' => JobKnows(k)' /\ Pool(jobs'[k]) = {}
      BY <1>3, <1>4, <2>2 DEF JobKnows, Pool
    <3>2. \A i \in JobsOf(n)' :
              /\ i \in JobsOf(n) /\ Pool(jobs'[i]) \subseteq Pool(jobs[i])
              /\ jobs'[i] = jobs[i] \/ (JobKnows(i)' /\ jobs'[i].pc \notin {"resolve", "failed", "throw"})
      BY <1>3, <1>4, <3>1
    <3>3. FanOut(n) \in DOMAIN jobs' /\ jobs'[FanOut(n)].pc # "waiting"
      <4>1. FanOut(n) \in JobsOf(n) /\ IsFanOut(FanOut(n))
        BY <1>1, <2>2, FanOutKey DEF Started, JobsOf
      <4>2. FanOut(n) \in JobsOf(n)'
        BY <1>3, <4>1
      <4> QED
        BY <1>3, <1>4, <2>2, <4>2 DEF Started, JobsOf
    <3> QED
      BY <1>1, <1>2, <1>4, <2>2, <3>2, <3>3, StartedKept
  <2> QED
    BY <1>4, <2>1, <2>2, JobPhase
<1>5. NoteInv(n)'
  BY <1>4, CleanKept DEF NoteInv
<1> QED
  BY <1>1, <1>2, <1>3, <1>5, OneNote
LEMMA RowIsThere ==
    ASSUME TypeOK, NEW k \in DOMAIN jobs
    PROVE  /\ JobsOK /\ k.note \in Notes /\ rows[k.note] \in Row /\ rows[k.note] # Null
           /\ rows = [rows EXCEPT ![k.note] = rows[k.note]]
<1>1. JobsOK /\ RowsOK /\ k.note \in Notes
  BY JobParts DEF TypeOK
<1>2. rows[k.note] \in Row
  BY DEF TypeOK, RowsOK
<1> QED
  BY <1>1, <1>2, NotificationsAssumption DEF RowsOK

\* Jobs that end and write nothing.
LEMMA SilentEnd ==
    ASSUME FanOutInv, NEW k \in DOMAIN jobs, TakeFinished(k) \/ FanOutCompletes(k)
    PROVE  FanOutInv'
<1>1. /\ rows[k.note] \in Row /\ k.note \in Notes
      /\ rows = [rows EXCEPT ![k.note] = rows[k.note]]
  BY RowIsThere DEF FanOutInv
<1>2. /\ TypeOK' /\ rows' = rows /\ sending' = sending
      /\ UNCHANGED <<fate, repeated, old, fcmReady>>
      /\ Completes(k)
  BY FinishedFacts
     DEF FanOutInv, TakeFinished, FanOutCompletes, At, devices, ages, history
<1>3. Unstarted(k.note) => rows[k.note].status \in {"queued", "failed"}
  BY DEF Unstarted
<1>4. Started(k.note) => rows[k.note].status # "queued" /\ Decided(k.note)'
  BY <1>2 DEF Started, Decided, terminal, Verdict
<1> QED
  BY <1>1, <1>2, <1>3, <1>4, EndKeeps

LEMMA NobodyKeeps ==
    ASSUME FanOutInv, NEW k \in DOMAIN jobs, FanOutToNobody(k)
    PROVE  FanOutInv'
<1>1. PICK r \in Row : /\ rows' = [rows EXCEPT ![k.note] = r] /\ r.status = "failed"
                       /\ r.success = rows[k.note].success /\ r.failure = rows[k.note].failure
  BY NobodyFacts DEF FanOutInv
<1>2. /\ TypeOK' /\ sending' = sending /\ UNCHANGED <<fate, repeated, old, fcmReady>>
      /\ Completes(k) /\ jobs[k].pc = "resolve"
  BY NobodyFacts DEF FanOutInv, FanOutToNobody, At, devices, ages, history
<1>3. Clean(k.note) => ~Started(k.note)
  BY <1>2 DEF Started, Knowing, JobsOf
<1> QED
  BY <1>1, <1>2, <1>3, EndKeeps

LEMMA FinalizeKeeps ==
    ASSUME FanOutInv, NEW k \in DOMAIN jobs, finalizeIfComplete(k)
    PROVE  FanOutInv'
<1> DEFINE n == k.note
<1>1. /\ JobsOK /\ n \in Notes /\ rows[n] \in Row /\ rows[n] # Null
  BY RowIsThere DEF FanOutInv
<1>2. PICK r \in Row : /\ rows' = [rows EXCEPT ![n] = r]
                       /\ r.success = rows[n].success
                       /\ r.failure = rows[n].failure /\ r.total = rows[n].total
                       /\ r.status = IF Complete(n) THEN Verdict(r) ELSE rows[n].status
  BY FinalizeFacts DEF FanOutInv
<1>3. /\ TypeOK' /\ sending' = sending /\ UNCHANGED <<fate, repeated, old, fcmReady>>
      /\ Completes(k) \/ Goes(k, "throw")
      /\ jobs[k].pc = "finish"
  BY FinalizeFacts DEF FanOutInv, finalizeIfComplete, At, devices, ages, history
<1>4. Clean(n) => ~Unstarted(n)
  BY <1>1, <1>3 DEF Unstarted, JobsOf
<1>5. rows'[n] = r
  BY <1>1, <1>2, RowChanges DEF FanOutInv, TypeOK
<1>6. ASSUME Started(n) PROVE r.status # "queued" /\ Decided(n)'
  <2>1. CASE Complete(n)
    <3>1. r.status = Verdict(r)
      BY <1>2, <2>1
    <3>2. r.status # "queued"
      BY <3>1 DEF Verdict
    <3>3. n \notin old => r.success + r.failure >= r.total
      BY <1>2, <2>1 DEF Complete
    <3>4. Verdict(rows[n])' = Verdict(r)
      BY <1>5 DEF Verdict
    <3> QED
      BY <1>3, <1>5, <3>1, <3>2, <3>3, <3>4 DEF Decided
  <2>2. CASE ~Complete(n)
    <3>1. r.status = rows[n].status
      BY <1>2, <2>2
    <3>2. Verdict(rows[n])' = Verdict(rows[n])
      BY <1>2, <1>5 DEF Verdict
    <3> QED
      BY <1>1, <1>2, <1>3, <1>5, <1>6, <3>1, <3>2 DEF Decided, Started, terminal
  <2> QED
    BY <2>1, <2>2
<1>7. Clean(n) => Completes(k)
  <2> SUFFICES ASSUME Clean(n) PROVE sendToTokens(jobs[k].devices) = jobs[k].devices
    BY DEF finalizeIfComplete
  <2>1. JobKnows(k) /\ jobs[k].devices \subseteq Devices
    BY <1>1, <1>4, JobPhase, JobParts DEF Job
  <2>2. jobs[k].devices \subseteq aimedAt(n) /\ (fcmReady \/ aimedAt(n) \subseteq Expo)
    BY <1>3, <2>1 DEF JobKnows, Clean, Served
  <2> QED
    BY <2>2 DEF sendToTokens
<1> QED
  BY <1>2, <1>3, <1>4, <1>6, <1>7, EndKeeps

-----------------------------------------------------------------------------
(* Requests, repair and repetition *)

\* Steps that interrupt a job, or come after it has failed: its row is not
\* clean afterwards.
LEMMA UncleanKeeps ==
    ASSUME FanOutInv, NEW k \in DOMAIN jobs,
           AttemptFails(k) \/ onFailed(k) \/ Throw(k) \/ Stall(k)
    PROVE  FanOutInv'
<1>1. JobsOK /\ RowsOK /\ HistoryOK /\ k.note \in Notes /\ rows[k.note] \in Row
  BY RowIsThere DEF FanOutInv, TypeOK
<1>2. /\ TypeOK' /\ DOMAIN jobs' = DOMAIN jobs
      /\ \A i \in DOMAIN jobs : i # k => jobs'[i] = jobs[i]
  BY FailedType, InterruptFacts DEF FanOutInv
<1>3. /\ sending' = sending /\ old' = old /\ fcmReady' = fcmReady
      /\ \A m \in Notes : m # k.note => rows'[m] = rows[m]
  BY <1>1 DEF AttemptFails, onFailed, Throw, Stall, ages, devices, RowsOK
<1>4. CASE Throw(k) \/ Stall(k)
  <2>1. Repeats(k.note) /\ UNCHANGED <<ages, slipped>>
    BY <1>4 DEF Throw, Stall
  <2>2. repeated' = repeated \cup {k.note} /\ \A m \in Notes : m # k.note => fate'[m] = fate[m]
    BY <1>1, <2>1, RepeatsFacts
  <2>3. NoteInv(k.note)'
    BY <2>2 DEF NoteInv, Clean
  <2> QED
    BY <1>1, <1>2, <1>3, <2>2, <2>3, OneNote
<1>5. CASE AttemptFails(k) \/ onFailed(k)
  <2>1. fate' = fate /\ repeated' = repeated /\ jobs[k].pc = "throw"
    BY <1>5 DEF AttemptFails, onFailed, history, At
  <2>2. ~Clean(k.note)
    BY <2>1, JobPhase
  <2>3. NoteInv(k.note)'
    BY <1>3, <2>1, <2>2, CleanKept DEF NoteInv
  <2> QED
    BY <1>1, <1>2, <1>3, <2>1, <2>3, OneNote
<1> QED
  BY <1>4, <1>5

LEMMA DispatchKeeps ==
    ASSUME FanOutInv, NEW n \in Notes, dispatchExisting(n)
    PROVE  FanOutInv'
<1>1. HistoryOK /\ TypeOK' /\ \A m \in Notes : m # n => rows'[m] = rows[m]
  BY DispatchType DEF FanOutInv, TypeOK
<1>2. /\ Repeats(n) /\ UNCHANGED <<ages, slipped>> /\ old' = old /\ fcmReady' = fcmReady
      /\ jobs' = jobs /\ sending' = sending \cup {n}
  BY DEF dispatchExisting, ages, devices
<1>3. repeated' = repeated \cup {n} /\ \A m \in Notes : m # n => fate'[m] = fate[m]
  BY <1>1, <1>2, RepeatsFacts
<1>4. NoteInv(n)'
  BY <1>3 DEF NoteInv, Clean
<1> QED
  BY <1>1, <1>2, <1>3, <1>4, OneNote

\* Only the jobs of rows that are not clean end as failed.
LEMMA RetryKeeps ==
    ASSUME FanOutInv, NEW k \in DOMAIN jobs, retryAllFailed(k)
    PROVE  FanOutInv'
<1>1. k.note \in Notes
  BY RowIsThere DEF FanOutInv
<1>2. /\ TypeOK' /\ DOMAIN jobs' = DOMAIN jobs
      /\ \A i \in DOMAIN jobs : i # k => jobs'[i] = jobs[i]
      /\ UNCHANGED <<rows, sending, old, fate, repeated, fcmReady>>
  BY RetryFacts DEF FanOutInv, retryAllFailed, devices, ages, history
<1>3. ~Clean(k.note)
  BY JobPhase DEF retryAllFailed, At
<1>4. NoteInv(k.note)'
  BY <1>2, <1>3, CleanKept DEF NoteInv
<1> QED
  BY <1>1, <1>2, <1>4, OneNote

LEMMA LoseKeeps ==
    ASSUME FanOutInv, NEW k \in DOMAIN jobs, LoseJob(k)
    PROVE  FanOutInv'
<1> DEFINE n == k.note
<1>1. JobsOK /\ n \in Notes /\ rows[n] \in Row
  BY RowIsThere DEF FanOutInv
<1>2. /\ TypeOK' /\ DOMAIN jobs' = DOMAIN jobs \ {k}
      /\ \A i \in DOMAIN jobs' : jobs'[i] = jobs[i]
      /\ UNCHANGED <<rows, sending, old, fate, repeated, fcmReady>>
      /\ jobs[k].pc = "waiting" /\ IsFanOut(k)
  BY LoseFacts DEF FanOutInv, LoseJob, devices, ages, history, At
<1>3. /\ \A i \in DOMAIN jobs \cup DOMAIN jobs' :
            i.note # n => i \in DOMAIN jobs /\ i \in DOMAIN jobs' /\ jobs'[i] = jobs[i]
      /\ JobsOf(n)' = JobsOf(n) \ {k}
      /\ \A i \in JobsOf(n)' : jobs'[i] = jobs[i]
  BY <1>1, <1>2, WithoutElsewhere
<1>4. ASSUME Clean(n) PROVE NoteInv(n)'
  <2>1. Unstarted(n)
    BY <1>2, <1>4, JobPhase
  <2> QED
    BY <1>1, <1>2, <1>3, <2>1, UnstartedKept DEF Unstarted
<1>5. NoteInv(n)'
  BY <1>2, <1>4, CleanKept DEF NoteInv
<1> QED
  BY <1>1, <1>2, <1>3, <1>5, OneNote

\* The fan-out of a row that is not started enters the queue.
LEMMA EnterKeeps ==
    ASSUME FanOutInv, TypeOK', NEW n \in Notes, rows[n] \in Row, jobs' = With(FanOut(n)),
           Clean(n) => Unstarted(n),
           UNCHANGED <<rows, fate, repeated, old, fcmReady>>, sending' \subseteq sending
    PROVE  FanOutInv'
<1>1. JobsOK
  BY DEF FanOutInv, TypeOK
<1>2. /\ DOMAIN jobs' = DOMAIN jobs \cup {FanOut(n)}
      /\ \A i \in DOMAIN jobs' : jobs'[i] = IF i = FanOut(n) THEN Waiting(i) ELSE jobs[i]
  BY <1>1, WithFacts
<1>3. /\ FanOut(n).note = n /\ FanOut(n).devices = {} /\ IsFanOut(FanOut(n))
      /\ Waiting(FanOut(n)).pc = "waiting" /\ Waiting(FanOut(n)).devices = {}
  BY FanOutKey, WaitingType
<1>4. \A i \in DOMAIN jobs \cup DOMAIN jobs' :
         i.note # n => i \in DOMAIN jobs /\ i \in DOMAIN jobs' /\ jobs'[i] = jobs[i]
  BY <1>2, <1>3
<1>5. ASSUME Clean(n) PROVE NoteInv(n)'
  <2>1. \A i \in JobsOf(n)' :
          \/ i \in JobsOf(n) /\ jobs'[i] = jobs[i]
          \/ IsFanOut(i) /\ jobs'[i].devices = {} /\ jobs'[i].pc = "waiting"
    BY <1>2, <1>3 DEF JobsOf
  <2> QED
    BY <1>5, <2>1, UnstartedKept DEF Unstarted
<1>6. NoteInv(n)'
  BY <1>5, CleanKept DEF NoteInv
<1> QED
  BY <1>4, <1>6, OneNote

LEMMA EnqueueKeeps ==
    ASSUME FanOutInv, NEW n \in Notes, enqueueNotification(n) \/ recoverStuckQueued(n)
    PROVE  FanOutInv'
<1>1. NoteInv(n) /\ JobsOK
  BY DEF FanOutInv, TypeOK
<1>2. CASE recoverStuckQueued(n)
  <2>1. TypeOK' /\ rows[n] \in Row /\ rows[n].status = "queued" /\ jobs' = With(FanOut(n))
    BY <1>2, RecoverType DEF FanOutInv
  <2>2. Clean(n) => Unstarted(n)
    BY <1>1, <2>1, NotificationsAssumption DEF NoteInv, Started
  <2> QED
    BY <1>2, <2>1, <2>2, EnterKeeps DEF recoverStuckQueued, devices, ages, history
<1>3. CASE enqueueNotification(n) /\ FanOut(n) \notin DOMAIN jobs
  <2>1. TypeOK' /\ rows[n] \in Row /\ jobs' = With(FanOut(n)) /\ n \in sending
    BY <1>3, EnqueueType DEF FanOutInv, enqueueNotification
  <2>2. Clean(n) => Unstarted(n)
    BY <1>1, <1>3, <2>1 DEF NoteInv, Started
  <2> QED
    BY <1>3, <2>1, <2>2, EnterKeeps DEF enqueueNotification, devices, ages, history
<1>4. CASE enqueueNotification(n) /\ FanOut(n) \in DOMAIN jobs
  <2>1. /\ TypeOK' /\ UNCHANGED <<rows, jobs, fate, repeated, old, fcmReady>> /\ sending' \subseteq sending
    BY <1>4, EnqueueType DEF FanOutInv, enqueueNotification, devices, ages, history
  <2>2. NoteInv(n)'
    BY <1>1, <2>1, NoteKept DEF JobsOf, TypeOK
  <2> QED
    BY <2>1, <2>2, OneNote
<1> QED
  BY <1>2, <1>3, <1>4

LEMMA SendKeeps ==
    ASSUME FanOutInv, NEW n \in Notes, NEW people \in SUBSET People, send(n, people)
    PROVE  FanOutInv'
<1>1. PICK r \in Row : /\ r.status = "queued" /\ r.success = 0 /\ r.failure = 0
                       /\ \A m \in Notes : rows'[m] = IF m = n THEN r ELSE rows[m]
  BY SendFacts DEF FanOutInv
<1>2. /\ TypeOK' /\ rows[n] = Null
      /\ UNCHANGED <<jobs, fate, repeated, old, fcmReady>> /\ sending' = sending \cup {n}
  BY SendFacts DEF FanOutInv, send, devices, ages, history
<1>3. ASSUME Clean(n) PROVE NoteInv(n)'
  <2>1. JobsOf(n) = {} /\ fate[n] = Untouched
    BY <1>2, <1>3, NotificationsAssumption DEF FanOutInv, NoteInv
  <2>2. Unstarted(n)'
    BY <1>1, <1>2, <2>1 DEF Unstarted, JobsOf, Untouched
  <2> QED
    BY <1>1, <2>2 DEF NoteInv
<1>4. NoteInv(n)'
  BY <1>2, <1>3, CleanKept DEF NoteInv
<1> QED
  BY <1>1, <1>2, <1>4, OneNote
-----------------------------------------------------------------------------
(* The fan-out hands each device to one job. *)

LEMMA SpreadsElsewhere ==
    ASSUME JobsOK, NEW k \in DOMAIN jobs, NEW ds \in SUBSET Devices, Spreads(k, ds)
    PROVE  \A i \in DOMAIN jobs \cup DOMAIN jobs' :
              i.note # k.note => i \in DOMAIN jobs /\ i \in DOMAIN jobs' /\ jobs'[i] = jobs[i]
<1>1. CASE \E j \in Job : Sets(k, j)
  BY <1>1, SetsElsewhere
<1>2. CASE \E j \in Job, C \in Chunks(ds) : j.pc = "done" /\ enqueueBatches(k, j, C, 0)
  <2>1. PICK j \in Job, C \in Chunks(ds) : j.pc = "done" /\ enqueueBatches(k, j, C, 0)
    BY <1>2
  <2>2. IsFiniteSet(C) /\ C \in SUBSET SUBSET Devices
    BY ChunksFinite
  <2>3. /\ DOMAIN jobs \subseteq DOMAIN jobs'
        /\ \A i \in DOMAIN jobs : jobs'[i] = IF i = k THEN j ELSE jobs[i]
        /\ \A i \in DOMAIN jobs' \ DOMAIN jobs : i.note = k.note
    BY <2>1, <2>2, EnqueueFacts
  <2> QED
    BY <2>3
<1> QED
  BY <1>1, <1>2 DEF Spreads

LEMMA SpreadsApart ==
    ASSUME JobsOK, NEW k \in DOMAIN jobs, NEW ds \in SUBSET Devices, Spreads(k, ds),
           JobsOf(k.note) = {k}, k.gen = 0, ~jobs[k].spent, Fresh(k.note, ds, 0)'
    PROVE  /\ k \in DOMAIN jobs' /\ jobs'[k].pc # "waiting"
           /\ Knowing(k.note)' /\ Apart(k.note)'
<1> DEFINE n == k.note
<1>1. k.gen <= MAX_TOKEN_RETRY_GENERATIONS /\ 0 <= MAX_TOKEN_RETRY_GENERATIONS
  BY NotificationsAssumption
<1>2. CASE \E j \in Job : Sets(k, j) /\ j.pc = "send" /\ j.devices = ds /\ j.spent = jobs[k].spent
  <2>1. PICK j \in Job : Sets(k, j) /\ j.pc = "send" /\ j.devices = ds /\ j.spent = jobs[k].spent
    BY <1>2
  <2>2. JobsOf(n)' = {k} /\ jobs'[k] = j /\ DOMAIN jobs' = DOMAIN jobs
    BY <2>1, SetsElsewhere, SetsFacts
  <2>3. JobKnows(k)'
    BY <1>1, <2>1, <2>2 DEF JobKnows
  <2> QED
    BY <2>1, <2>2, <2>3 DEF Knowing, Apart
<1>3. CASE \E j \in Job, C \in Chunks(ds) : j.pc = "done" /\ enqueueBatches(k, j, C, 0)
  <2>1. PICK j \in Job, C \in Chunks(ds) : j.pc = "done" /\ enqueueBatches(k, j, C, 0)
    BY <1>3
  <2>2. /\ IsFiniteSet(C) /\ C \in SUBSET SUBSET Devices /\ UNION C = ds
        /\ \A c, e \in C : c # e => c \cap e = {}
    BY ChunksFinite
  <2>3. /\ DOMAIN jobs \subseteq DOMAIN jobs'
        /\ \A i \in DOMAIN jobs : jobs'[i] = IF i = k THEN j ELSE jobs[i]
        /\ \A i \in DOMAIN jobs' \ DOMAIN jobs :
              /\ jobs'[i] = Waiting(i) /\ i \in Key
              /\ i.note = n /\ i.devices \in C /\ i.gen = 0
        /\ \A i, m \in DOMAIN jobs' \ DOMAIN jobs : i.devices = m.devices => i = m
    BY <2>1, <2>2, EnqueueFacts
  <2>4. \A i \in DOMAIN jobs' \ DOMAIN jobs :
           /\ jobs'[i].pc = "waiting" /\ jobs'[i].devices = i.devices /\ i.devices \subseteq ds
    BY <2>2, <2>3, WaitingType
  <2>5. \A i \in JobsOf(n)' : i = k \/ i \in DOMAIN jobs' \ DOMAIN jobs
    BY DEF JobsOf
  <2>6. jobs'[k].pc = "done" /\ Pool(jobs'[k]) = {}
    BY <2>1, <2>3 DEF Pool
  <2>7. \A i \in DOMAIN jobs' \ DOMAIN jobs : Pool(jobs'[i]) = i.devices
    BY <2>4 DEF Pool
  <2>8. JobKnows(k)'
    BY <1>1, <2>6 DEF JobKnows
  <2>9. \A i \in DOMAIN jobs' \ DOMAIN jobs : JobKnows(i)'
    BY <1>1, <2>3, <2>4 DEF JobKnows, Fresh
  <2>10. Knowing(n)'
    BY <2>4, <2>5, <2>6, <2>8, <2>9 DEF Knowing
  <2>11. Apart(n)'
    <3> SUFFICES ASSUME NEW i \in JobsOf(n)', NEW m \in JobsOf(n)', i # m
                 PROVE  Pool(jobs'[i]) \cap Pool(jobs'[m]) = {}
      BY DEF Apart
    <3>1. CASE i = k \/ m = k
      BY <2>6, <3>1
    <3>2. CASE i # k /\ m # k
      BY <2>2, <2>3, <2>5, <2>7, <3>2
    <3> QED
      BY <3>1, <3>2
  <2> QED
    BY <2>3, <2>6, <2>10, <2>11
<1> QED
  BY <1>2, <1>3 DEF Spreads

LEMMA FanOutKeeps ==
    ASSUME FanOutInv, NEW k \in DOMAIN jobs, handleFanOut(k)
    PROVE  FanOutInv'
<1> DEFINE n == k.note
<1>1. /\ JobsOK /\ RowsOK /\ HistoryOK /\ n \in Notes
      /\ TypeOK' /\ jobs[k].pc = "resolve"
      /\ UNCHANGED <<sending, old, repeated, fcmReady>>
  BY RowIsThere, FanOutType DEF FanOutInv, TypeOK, handleFanOut, At, devices, ages
<1>2. PICK ds : ds = resolveTokens(rows[n].to)
  OBVIOUS
<1>3. Spreads(k, ds) /\ ds \in SUBSET Devices /\ Becomes(n, ds, "aimed")
  BY <1>2, FanOutSpreads DEF FanOutInv, handleFanOut
<1>4. PICK r \in Row : /\ rows' = [rows EXCEPT ![n] = r] /\ r.status = "processing"
                       /\ r.success = rows[n].success /\ r.failure = rows[n].failure
                       /\ r.total = Cardinality(ds)
  BY <1>2, FanOutRow DEF FanOutInv
<1>5. \A m \in Notes : rows'[m] = IF m = n THEN r ELSE rows[m]
  BY <1>1, <1>4, RowChanges
<1>6. /\ \A m \in Notes : m # n => fate'[m] = fate[m]
      /\ n \notin repeated => \A d \in Devices :
            IF d \in ds THEN fate'[n][d].is = "aimed" /\ fate'[n][d].tries = fate[n][d].tries
                        ELSE fate'[n][d] = fate[n][d]
  BY <1>1, <1>3, BecomesFacts
<1>7. ASSUME Clean(n) PROVE NoteInv(n)'
  <2>1. Unstarted(n) /\ k = FanOut(n)
    BY <1>1, <1>7, JobPhase
  <2>2. JobsOf(n) = {k} /\ k.gen = 0 /\ ~jobs[k].spent
    BY <1>1, <2>1, FanOutKey DEF Unstarted, JobsOK, JobsOf
  <2>3. Fresh(n, ds, 0)'
    BY <1>3, <1>6, <1>7, <2>1 DEF Clean, Fresh, Unstarted, Untouched
  <2>4. /\ k \in DOMAIN jobs' /\ jobs'[k].pc # "waiting"
        /\ Knowing(n)' /\ Apart(n)'
    BY <1>1, <1>3, <2>2, <2>3, SpreadsApart
  <2>5. aimedAt(n)' = ds
    BY <1>3, <1>6, <1>7, <2>1 DEF Clean, aimedAt, Unstarted, Untouched
  <2>6. Counted(n, {}, {})'
    <3>1. rows'[n].success = 0 /\ rows'[n].failure = 0
      BY <1>1, <1>4, <1>5, <2>1 DEF Unstarted
    <3>2. Cardinality({}) = 0
      BY FS_EmptySet
    <3> QED
      BY <3>1, <3>2 DEF Counted
  <2>7. Started(n)'
    <3>1. ~terminal(n)'
      BY <1>1, <1>4, <1>5 DEF terminal, TERMINAL_NOTIFICATION_STATUSES
    <3>2. Decided(n)'
      BY <3>1 DEF Decided
    <3>3. (\E S, F \in SUBSET Devices : Counted(n, S, F))'
      BY <2>6
    <3> QED
      BY <1>1, <1>4, <1>5, <2>1, <2>4, <2>5, <3>2, <3>3 DEF Started
  <2>8. NoteInv(n)'
    BY <1>1, <1>4, <1>5, <2>7 DEF NoteInv
  <2> QED
    BY <2>8
<1>8. NoteInv(n)'
  <2>1. CASE n \in repeated
    BY <1>1, <2>1 DEF NoteInv, Clean
  <2>2. CASE n \notin repeated
    <3>1. aimedAt(n) \subseteq aimedAt(n)'
      BY <1>6, <2>2 DEF aimedAt
    <3> QED
      BY <1>1, <1>7, <3>1, CleanBefore DEF NoteInv
  <2> QED
    BY <2>1, <2>2
<1>9. \A i \in DOMAIN jobs \cup DOMAIN jobs' :
         i.note # n => i \in DOMAIN jobs /\ i \in DOMAIN jobs' /\ jobs'[i] = jobs[i]
  BY <1>1, <1>3, SpreadsElsewhere
<1> QED
  BY <1>1, <1>5, <1>6, <1>8, <1>9, OneNote
-----------------------------------------------------------------------------
(* Pushing, counting and queueing again *)

\* What the invariant says when a step tells something of devices that one
\* job answers for: the other jobs and the counters are not concerned.
LEMMA OthersKeep ==
    ASSUME JobsOK, NEW n \in Notes, Started(n), NEW k \in JobsOf(n), NEW ds,
           ds \subseteq Pool(jobs[k]),
           \A d \in Devices \ ds : fate'[n][d] = fate[n][d], aimedAt(n) \subseteq aimedAt(n)',
           rows'[n] \in Row, Stopped(n) => Stopped(n)'
    PROVE  /\ \A i \in JobsOf(n) : i # k /\ jobs'[i] = jobs[i] => JobKnows(i)'
           /\ \A S, F \in SUBSET Devices : Counted(n, S, F) =>
                 S \subseteq Is(n, "reached")' /\ \A d \in F : Excused(n, d)'
<1>1. \A i \in JobsOf(n) : /\ i \in DOMAIN jobs /\ i.note = n /\ jobs[i] \in Job /\ JobKnows(i)
                           /\ Pool(jobs[i]) \subseteq Devices
  BY JobParts DEF Started, Knowing, JobsOf, Pool, Job
<1>2. ASSUME NEW i \in JobsOf(n), i # k, jobs'[i] = jobs[i] PROVE JobKnows(i)'
  <2>1. Pool(jobs[i]) \cap ds = {}
    BY <1>2 DEF Started, Apart
  <2>2. \A d \in Pool(jobs[i]) : fate'[n][d] = fate[n][d]
    BY <1>1, <2>1
  <2> QED
    BY <1>1, <1>2, <2>2, KnowsKept
<1>3. ASSUME NEW S \in SUBSET Devices, NEW F \in SUBSET Devices, Counted(n, S, F)
      PROVE  S \subseteq Is(n, "reached")' /\ \A d \in F : Excused(n, d)'
  <2>1. (S \cup F) \cap ds = {}
    BY <1>3 DEF Counted
  <2>2. \A d \in S \cup F : fate'[n][d] = fate[n][d]
    BY <2>1
  <2>3. S \subseteq Is(n, "reached")'
    BY <1>3, <2>2 DEF Counted, Is
  <2>4. \A d \in F : Excused(n, d)'
    BY <1>3, <2>2 DEF Counted, Excused, TriedInEveryWave
  <2> QED
    BY <2>3, <2>4
<1> QED
  BY <1>2, <1>3

\* What the job of the push knows afterwards.
LEMMA PusherKnows ==
    ASSUME JobsOK, NEW k \in DOMAIN jobs, JobKnows(k), jobs[k].pc = "send",
           NEW ok, NEW bad, Answered(k, ok, bad),
           Heard(k.note, sendToTokens(jobs[k].devices), ok, bad), rows' = rows
    PROVE  /\ JobKnows(k)' /\ aimedAt(k.note)' = aimedAt(k.note)
           /\ \A d \in Devices \ sendToTokens(jobs[k].devices) :
                 fate'[k.note][d].is = fate[k.note][d].is /\ fate'[k.note][d].tries = fate[k.note][d].tries
           /\ \E j \in Job : Sets(k, j) /\ j.pc = "count" /\ j.devices = jobs[k].devices
<1> DEFINE n == k.note
           ds == jobs[k].devices
           asked == sendToTokens(ds)
<1>1. ds \in SUBSET Devices /\ asked \subseteq ds /\ k.gen \in Nat
  BY JobParts, AskedDevices DEF Job
<1>2. Fresh(n, ds, k.gen) /\ k.gen <= MAX_TOKEN_RETRY_GENERATIONS /\ (jobs[k].spent => Stopped(n))
  BY DEF JobKnows
<1>3. PICK j \in Job : /\ Sets(k, j) /\ j.pc = "count" /\ j.devices = ds /\ j.spent = jobs[k].spent
                       /\ j.ok = Cardinality(ok) /\ j.bad = Cardinality(bad)
                       /\ j.retry \subseteq asked \ (ok \cup bad)
  BY DEF Answered
<1>4. ok \subseteq asked /\ bad \subseteq asked /\ ok \cap bad = {}
  BY DEF Answered
<1> HIDE DEF asked
<1>5. \A d \in Devices :
        /\ fate'[n][d].is = IF d \in ok THEN "reached" ELSE IF d \in bad THEN "dead" ELSE fate[n][d].is
        /\ fate'[n][d].tries = IF d \in asked THEN fate[n][d].tries + 1 ELSE fate[n][d].tries
  BY DEF Heard, asked
<1>6. ds \cap Is(n, "reached")' = ok /\ ds \cap Is(n, "dead")' = bad
  BY <1>1, <1>2, <1>4, <1>5 DEF Is, Fresh
<1>7. aimedAt(n)' = aimedAt(n) /\ ds \subseteq aimedAt(n)'
  BY <1>1, <1>2, <1>4, <1>5 DEF aimedAt, Fresh
<1>8. Fresh(n, j.retry, k.gen + 1)'
  BY <1>1, <1>2, <1>3, <1>4, <1>5 DEF Fresh
<1>9. Stopped(n)' = Stopped(n)
  BY DEF Stopped
<1>10. jobs'[k] = j
  BY <1>3, SetsFacts
<1>11. JobKnows(k)'
  BY <1>1, <1>2, <1>3, <1>6, <1>7, <1>8, <1>9, <1>10 DEF JobKnows
<1>12. \A d \in Devices \ asked :
          fate'[n][d].is = fate[n][d].is /\ fate'[n][d].tries = fate[n][d].tries
  BY <1>4, <1>5
<1> QED
  BY <1>3, <1>7, <1>11, <1>12 DEF asked

LEMMA ToldEqual ==
    ASSUME NEW t \in Told, NEW u \in Told, t.is = u.is, t.tries = u.tries
    PROVE  t = u
BY DEF Told

LEMMA PushKeeps ==
    ASSUME FanOutInv, NEW k \in DOMAIN jobs, Push(k)
    PROVE  FanOutInv'
<1> DEFINE n == k.note
           asked == sendToTokens(jobs[k].devices)
<1>1. /\ JobsOK /\ HistoryOK /\ n \in Notes /\ rows[n] \in Row
      /\ TypeOK' /\ jobs[k].pc = "send"
      /\ UNCHANGED <<rows, sending, old, repeated, fcmReady>>
      /\ \A m \in Notes : m # n => fate'[m] = fate[m]
  BY RowIsThere, PushFacts DEF FanOutInv, TypeOK, Push, At, ages
<1>2. PICK ok \in SUBSET Devices, bad \in SUBSET Devices :
         Answered(k, ok, bad) /\ (n \notin repeated => Heard(n, asked, ok, bad))
  BY PushFacts DEF FanOutInv
<1>3. PICK j \in Job : Sets(k, j) /\ j.pc = "count" /\ j.devices = jobs[k].devices
  BY <1>2 DEF Answered
<1>4. /\ \A i \in DOMAIN jobs \cup DOMAIN jobs' :
            i.note # n => i \in DOMAIN jobs /\ i \in DOMAIN jobs' /\ jobs'[i] = jobs[i]
      /\ JobsOf(n)' = JobsOf(n) /\ k \in JobsOf(n) /\ jobs'[k] = j
      /\ \A i \in JobsOf(n) : i # k => jobs'[i] = jobs[i]
  BY <1>1, <1>3, SetsElsewhere
<1>5. ASSUME Clean(n) PROVE NoteInv(n)'
  <2>1. Started(n) /\ JobKnows(k)
    BY <1>1, <1>5, JobPhase
  <2>2. /\ JobKnows(k)' /\ aimedAt(n)' = aimedAt(n)
        /\ \A d \in Devices \ asked :
              fate'[n][d].is = fate[n][d].is /\ fate'[n][d].tries = fate[n][d].tries
    BY <1>1, <1>2, <1>5, <2>1, PusherKnows DEF Clean
  <2>3. \A d \in Devices \ asked : fate'[n][d] = fate[n][d]
    <3>1. \A d \in Devices : fate[n][d] \in Told /\ fate'[n][d] \in Told
      BY <1>1 DEF HistoryOK, TypeOK
    <3> QED
      BY <2>2, <3>1, ToldEqual
  <2>4. asked \subseteq Pool(jobs[k]) /\ Pool(jobs'[k]) = Pool(jobs[k])
    <3>1. jobs[k].devices \in SUBSET Devices
      BY <1>1, JobParts DEF Job
    <3> QED
      BY <1>1, <1>3, <1>4, <3>1, AskedDevices DEF Pool
  <2>5. Stopped(n) => Stopped(n)'
    BY <1>1 DEF Stopped
  <2>6. /\ \A i \in JobsOf(n) : i # k /\ jobs'[i] = jobs[i] => JobKnows(i)'
        /\ \A S, F \in SUBSET Devices : Counted(n, S, F) =>
              S \subseteq Is(n, "reached")' /\ \A d \in F : Excused(n, d)'
    <3> HIDE DEF asked, n
    <3>1. JobsOK /\ n \in Notes /\ Started(n) /\ k \in JobsOf(n) /\ asked \subseteq Pool(jobs[k])
      BY <1>1, <1>4, <2>1, <2>4
    <3>2. /\ \A d \in Devices \ asked : fate'[n][d] = fate[n][d]
          /\ aimedAt(n) \subseteq aimedAt(n)' /\ rows'[n] \in Row
          /\ Stopped(n) => Stopped(n)'
      BY <1>1, <2>2, <2>3, <2>5
    <3> QED
      BY <3>1, <3>2, OthersKeep, Zenon
  <2>7. Knowing(n)'
    BY <1>3, <1>4, <2>1, <2>2, <2>6 DEF Knowing, Started
  <2>8. \A i \in JobsOf(n) : Pool(jobs'[i]) = Pool(jobs[i])
    BY <1>4, <2>4
  <2>9. Apart(n)'
    BY <1>4, <2>1, <2>8 DEF Apart, Started
  <2>10. (\E S, F \in SUBSET Devices : Counted(n, S, F))'
    <3>1. PICK S \in SUBSET Devices, F \in SUBSET Devices : Counted(n, S, F)
      BY <2>1 DEF Started
    <3>2. Counted(n, S, F)'
      BY <1>1, <1>4, <2>6, <2>8, <3>1 DEF Counted
    <3> QED
      BY <3>2
  <2>11. Decided(n)'
    BY <1>1, <2>1 DEF Started, Decided, terminal, Verdict
  <2>12. FanOut(n) \in DOMAIN jobs' /\ jobs'[FanOut(n)].pc # "waiting"
    <3>1. FanOut(n) \in JobsOf(n)
      BY <1>1, <2>1, FanOutKey DEF Started, JobsOf
    <3> QED
      BY <1>3, <1>4, <2>1, <3>1 DEF Started, JobsOf
  <2>13. Started(n)'
    BY <1>1, <2>1, <2>2, <2>7, <2>9, <2>10, <2>11, <2>12 DEF Started
  <2> QED
    BY <1>1, <2>13 DEF NoteInv
<1>6. NoteInv(n)'
  <2>1. CASE n \in repeated
    BY <1>1, <2>1 DEF NoteInv, Clean
  <2>2. CASE n \notin repeated
    <3>1. aimedAt(n) \subseteq aimedAt(n)'
      BY <1>2, <2>2 DEF Heard, aimedAt
    <3> QED
      BY <1>1, <1>5, <3>1, CleanBefore DEF NoteInv
  <2> QED
    BY <2>1, <2>2
<1> QED
  BY <1>1, <1>4, <1>6, OneNote, SMTT(60)
\* A counted row whose counters reach the target has counted every device.
LEMMA AllCounted ==
    ASSUME HistoryOK, NEW n \in Notes, NEW S \in SUBSET Devices, NEW F \in SUBSET Devices,
           Counted(n, S, F)
    PROVE  /\ S \cap F = {} /\ S \cup F \subseteq aimedAt(n)
           /\ Cardinality(S \cup F) = rows[n].success + rows[n].failure
           /\ rows[n].success + rows[n].failure >= Cardinality(aimedAt(n)) => S \cup F = aimedAt(n)
<1>1. IsFiniteSet(S) /\ IsFiniteSet(F) /\ IsFiniteSet(aimedAt(n))
  <2>1. aimedAt(n) \in SUBSET Devices
    BY DEF aimedAt
  <2> QED
    BY <2>1, FiniteDevices
<1>2. S \cap F = {} /\ S \cup F \subseteq aimedAt(n)
  BY DEF Counted, Is, Excused, aimedAt
<1>3. Cardinality(S \cup F) = Cardinality(S) + Cardinality(F) - Cardinality({})
  <2>1. Cardinality(S \cup F) = Cardinality(S) + Cardinality(F) - Cardinality(S \cap F)
    BY <1>1, FS_Union
  <2> QED
    BY <1>2, <2>1
<1>4. Cardinality({}) = 0 /\ Cardinality(S) \in Nat /\ Cardinality(F) \in Nat
  BY <1>1, FS_EmptySet, FS_CardinalityType
<1>5. Cardinality(S \cup F) = rows[n].success + rows[n].failure
  BY <1>3, <1>4 DEF Counted
<1>6. /\ Cardinality(S \cup F) <= Cardinality(aimedAt(n))
      /\ Cardinality(S \cup F) = Cardinality(aimedAt(n)) => S \cup F = aimedAt(n)
  <2>1. Cardinality(S \cup F) \in Nat /\ Cardinality(aimedAt(n)) \in Nat
    BY <1>1, <1>4, <1>3, FS_CardinalityType
  <2> QED
    BY <1>1, <1>2, <2>1, FS_Subset
<1>7. Cardinality(aimedAt(n)) \in Nat /\ Cardinality(S \cup F) \in Nat
  BY <1>1, <1>3, <1>4, FS_CardinalityType
<1> QED
  BY <1>2, <1>5, <1>6, <1>7

\* No job of a finished row answers for a device any more.
LEMMA FinishedIsEmpty ==
    ASSUME HistoryOK, NEW n \in Notes, Started(n), terminal(n), n \notin old,
           NEW k \in JobsOf(n)
    PROVE  Pool(jobs[k]) \cap aimedAt(n) = {}
<1>1. PICK S \in SUBSET Devices, F \in SUBSET Devices : Counted(n, S, F)
  BY DEF Started
<1>2. rows[n].success + rows[n].failure >= Cardinality(aimedAt(n))
  BY DEF Started, Decided
<1>3. S \cup F = aimedAt(n)
  BY <1>1, <1>2, AllCounted
<1> QED
  BY <1>1, <1>3 DEF Counted

\* Two disjoint sets of devices.
LEMMA SumOfSizes ==
    ASSUME NEW A \in SUBSET Devices, NEW B \in SUBSET Devices, A \cap B = {}
    PROVE  Cardinality(A \cup B) = Cardinality(A) + Cardinality(B)
<1>1. IsFiniteSet(A) /\ IsFiniteSet(B) /\ Cardinality(A) \in Nat /\ Cardinality(B) \in Nat
  BY FiniteDevices
<1>2. Cardinality(A \cup B) = Cardinality(A) + Cardinality(B) - Cardinality(A \cap B)
  BY <1>1, FS_Union
<1>3. Cardinality(A \cap B) = 0
  BY FS_EmptySet
<1> QED
  BY <1>1, <1>2, <1>3
\* What Count adds to the two sets of devices.
LEMMA CountAdds ==
    ASSUME TypeOK, NEW k \in DOMAIN jobs, JobKnows(k), jobs[k].pc = "count",
           NEW S \in SUBSET Devices, NEW F \in SUBSET Devices, Counted(k.note, S, F),
           fate' = fate, NEW r \in Row, rows'[k.note] = r,
           r.success = rows[k.note].success + jobs[k].ok,
           r.failure = rows[k.note].failure + failedNow(k)
    PROVE  \E A, B \in SUBSET Devices :
              /\ A \subseteq Is(k.note, "reached") /\ A \subseteq jobs[k].devices
              /\ B \subseteq jobs[k].devices /\ \A d \in B : Excused(k.note, d)'
              /\ r.success = Cardinality(S \cup A) /\ r.failure = Cardinality(F \cup B)
              /\ shouldRequeueRetryableTokens(k) => B \cap jobs[k].retry = {}
              /\ Stopped(k.note) => Stopped(k.note)'
<1> DEFINE n == k.note
           ds == jobs[k].devices
           retry == jobs[k].retry
           A == ds \cap Is(n, "reached")
           D == ds \cap Is(n, "dead")
           R == IF shouldRequeueRetryableTokens(k) THEN {} ELSE retry
           B == D \cup R
<1>1. /\ JobsOK /\ n \in Notes /\ rows[n] \in Row /\ jobs[k] \in Job
  BY RowIsThere, JobParts DEF TypeOK
<1>2. /\ ds \in SUBSET Devices /\ retry \subseteq ds /\ Fresh(n, retry, k.gen + 1)
      /\ jobs[k].ok = Cardinality(A) /\ jobs[k].bad = Cardinality(D)
      /\ (jobs[k].spent => Stopped(n))
      /\ k.gen <= MAX_TOKEN_RETRY_GENERATIONS /\ k.gen \in Nat
  BY <1>1, JobParts DEF JobKnows, Job
<1>3. Pool(jobs[k]) = ds /\ ds \cap (S \cup F) = {}
  <2>1. Pool(jobs[k]) = ds
    BY DEF Pool
  <2>2. k \in JobsOf(n)
    BY DEF JobsOf
  <2> QED
    BY <2>1, <2>2 DEF Counted
<1>4. /\ A \in SUBSET Devices /\ D \in SUBSET Devices /\ R \in SUBSET Devices
      /\ A \subseteq ds /\ D \subseteq ds /\ R \subseteq retry
      /\ A \subseteq Is(n, "reached")
      /\ D \cap R = {} /\ D \cap retry = {}
  BY <1>2 DEF Is, Fresh
<1>5. failedNow(k) = Cardinality(D) + Cardinality(R)
  <2>1. Cardinality({}) = 0
    BY FS_EmptySet
  <2>2. CASE shouldRequeueRetryableTokens(k)
    <3>1. failedNow(k) = Cardinality(D) + 0
      BY <1>2, <2>2 DEF failedNow
    <3>2. R = {}
      BY <2>2
    <3> QED
      BY <2>1, <3>1, <3>2
  <2>3. CASE ~shouldRequeueRetryableTokens(k)
    BY <1>2, <2>3 DEF failedNow
  <2> QED
    BY <2>2, <2>3
<1> HIDE DEF A, D
<1>6. r.success = Cardinality(S \cup A)
  <2>1. S \cap A = {}
    BY <1>3, <1>4
  <2>2. Cardinality(S \cup A) = Cardinality(S) + Cardinality(A)
    BY <1>4, <2>1, SumOfSizes
  <2> QED
    BY <1>2, <2>2 DEF Counted
<1>7. R \subseteq retry /\ R \in SUBSET Devices /\ R \subseteq ds
  BY <1>2, <1>4
<1>8. ASSUME NEW d \in R PROVE fate[n][d].is = "aimed" /\ (TriedInEveryWave(n, d) \/ Stopped(n))
  <2>1. fate[n][d].is = "aimed" /\ fate[n][d].tries = k.gen + 1
    BY <1>2, <1>8 DEF Fresh
  <2>2. ~(k.gen < MAX_TOKEN_RETRY_GENERATIONS) \/ jobs[k].spent
    BY <1>8 DEF shouldRequeueRetryableTokens
  <2> QED
    BY <1>2, <2>1, <2>2, NotificationsAssumption DEF TriedInEveryWave
<1>9. shouldRequeueRetryableTokens(k) => R = {}
  OBVIOUS
<1> HIDE DEF R
<1>10. r.failure = Cardinality(F \cup B)
  <2>1. F \cap B = {}
    BY <1>3, <1>4, <1>7
  <2>2. Cardinality(B) = Cardinality(D) + Cardinality(R)
    BY <1>4, <1>7, SumOfSizes
  <2>3. Cardinality(F \cup B) = Cardinality(F) + Cardinality(B)
    BY <1>4, <1>7, <2>1, SumOfSizes
  <2> QED
    BY <1>5, <2>2, <2>3 DEF Counted
<1>11. Stopped(n) => Stopped(n)'
  <2>1. rows[n].failure \in Nat /\ r.failure \in Nat /\ Cardinality(D) \in Nat /\ Cardinality(R) \in Nat
    BY <1>1, <1>4, <1>7, FiniteDevices DEF Row
  <2> QED
    BY <1>5, <2>1, NotificationsAssumption DEF Stopped
<1>12. \A d \in B : Excused(n, d)'
  <2>1. \A d \in D : fate[n][d].is = "dead"
    BY <1>4 DEF D, Is
  <2> QED
    BY <1>8, <1>11, <2>1 DEF Excused, TriedInEveryWave
<1>13. shouldRequeueRetryableTokens(k) => B \cap retry = {}
  BY <1>4, <1>9
<1>14. B \in SUBSET Devices /\ B \subseteq ds
  BY <1>4, <1>7
<1> HIDE DEF B
<1> QED
  BY <1>4, <1>6, <1>10, <1>11, <1>12, <1>13, <1>14

LEMMA CountKeeps ==
    ASSUME FanOutInv, NEW k \in DOMAIN jobs, Count(k)
    PROVE  FanOutInv'
<1> DEFINE n == k.note
<1>1. /\ JobsOK /\ RowsOK /\ HistoryOK /\ n \in Notes /\ rows[n] \in Row
      /\ TypeOK /\ TypeOK' /\ jobs[k].pc = "count"
      /\ UNCHANGED <<fate, sending, old, repeated, fcmReady>>
  BY RowIsThere, CountFacts DEF FanOutInv, TypeOK, Count, At, devices, ages, history
<1>2. PICK r \in Row : /\ rows' = [rows EXCEPT ![n] = r] /\ r.status = rows[n].status
                       /\ r.success = rows[n].success + jobs[k].ok
                       /\ r.failure = rows[n].failure + failedNow(k)
                       /\ r.total = rows[n].total
  BY CountFacts DEF FanOutInv
<1>3. PICK j \in Job : /\ Sets(k, j) /\ j.devices = jobs[k].devices /\ j.retry = jobs[k].retry
                       /\ j.pc = IF jobs[k].retry # {} /\ shouldRequeueRetryableTokens(k)
                                 THEN "requeue" ELSE "finish"
  BY CountFacts DEF FanOutInv
<1>4. /\ \A i \in DOMAIN jobs \cup DOMAIN jobs' :
            i.note # n => i \in DOMAIN jobs /\ i \in DOMAIN jobs' /\ jobs'[i] = jobs[i]
      /\ JobsOf(n)' = JobsOf(n) /\ k \in JobsOf(n) /\ jobs'[k] = j
      /\ \A i \in JobsOf(n) : i # k => jobs'[i] = jobs[i]
  BY <1>1, <1>3, SetsElsewhere
<1>5. \A m \in Notes : rows'[m] = IF m = n THEN r ELSE rows[m]
  BY <1>1, <1>2, RowChanges
<1>6. ASSUME Clean(n) PROVE NoteInv(n)'
  <2>1. Started(n) /\ JobKnows(k)
    BY <1>1, <1>6, JobPhase
  <2>2. PICK S \in SUBSET Devices, F \in SUBSET Devices : Counted(n, S, F)
    BY <2>1 DEF Started
  <2>3. PICK A \in SUBSET Devices, B \in SUBSET Devices :
           /\ A \subseteq Is(n, "reached") /\ A \subseteq jobs[k].devices
           /\ B \subseteq jobs[k].devices /\ \A d \in B : Excused(n, d)'
           /\ r.success = Cardinality(S \cup A) /\ r.failure = Cardinality(F \cup B)
           /\ shouldRequeueRetryableTokens(k) => B \cap jobs[k].retry = {}
           /\ Stopped(n) => Stopped(n)'
    BY <1>1, <1>2, <1>5, <2>1, <2>2, CountAdds
  <2>4. Pool(jobs[k]) = jobs[k].devices /\ jobs[k].retry \subseteq jobs[k].devices
    BY <1>1, <2>1 DEF Pool, JobKnows
  <2>5. Pool(jobs'[k]) = IF jobs[k].retry # {} /\ shouldRequeueRetryableTokens(k)
                         THEN jobs[k].retry ELSE {}
    BY <1>3, <1>4 DEF Pool
  <2>6. /\ \A i \in JobsOf(n) : i # k /\ jobs'[i] = jobs[i] => JobKnows(i)'
        /\ \A X, Y \in SUBSET Devices : Counted(n, X, Y) =>
              X \subseteq Is(n, "reached")' /\ \A d \in Y : Excused(n, d)'
    <3>1. /\ {} \subseteq Pool(jobs[k]) /\ \A d \in Devices \ {} : fate'[n][d] = fate[n][d]
          /\ aimedAt(n) \subseteq aimedAt(n)'
      BY <1>1 DEF aimedAt
    <3> HIDE DEF n
    <3>2. JobsOK /\ n \in Notes /\ Started(n) /\ k \in JobsOf(n) /\ rows'[n] \in Row
      BY <1>1, <1>2, <1>4, <1>5, <2>1
    <3>3. Stopped(n) => Stopped(n)'
      BY <2>3
    <3> QED
      BY <3>1, <3>2, <3>3, OthersKeep, SMTT(60)
  <2>7. JobKnows(k)'
    <3>1. k.gen <= MAX_TOKEN_RETRY_GENERATIONS /\ Fresh(n, jobs[k].retry, k.gen + 1)
      BY <1>1, <2>1 DEF JobKnows
    <3>2. Fresh(n, jobs[k].retry, k.gen + 1)'
      BY <1>1, <1>3, <1>4, <3>1 DEF Fresh
    <3>3. j.pc = "requeue" => k.gen < MAX_TOKEN_RETRY_GENERATIONS
      BY <1>3 DEF shouldRequeueRetryableTokens
    <3>4. jobs[k].devices \subseteq aimedAt(n)'
      BY <1>1, <2>1 DEF JobKnows, aimedAt
    <3> QED
      BY <1>3, <1>4, <3>1, <3>2, <3>3, <3>4 DEF JobKnows
  <2>8. Knowing(n)'
    BY <1>3, <1>4, <2>1, <2>6, <2>7 DEF Knowing, Started
  <2>9. \A i \in JobsOf(n) : Pool(jobs'[i]) \subseteq Pool(jobs[i])
    BY <1>4, <2>4, <2>5
  <2>10. Apart(n)'
    BY <1>4, <2>1, <2>9 DEF Apart, Started
  <2>11. Counted(n, S \cup A, F \cup B)'
    <3>1. S \cup A \subseteq Is(n, "reached")' /\ \A d \in F \cup B : Excused(n, d)'
      BY <1>1, <2>2, <2>3, <2>6 DEF Is
    <3>2. \A i \in JobsOf(n) : Pool(jobs'[i]) \cap (A \cup B) = {}
      <4>1. ASSUME NEW i \in JobsOf(n), i # k PROVE Pool(jobs'[i]) \cap (A \cup B) = {}
        BY <1>4, <2>1, <2>3, <2>4, <4>1 DEF Started, Apart
      <4>2. Pool(jobs'[k]) \cap B = {}
        BY <2>3, <2>5
      <4>3. Pool(jobs'[k]) \cap A = {}
        BY <1>1, <2>1, <2>3, <2>5 DEF JobKnows, Fresh, Is
      <4> QED
        BY <4>1, <4>2, <4>3
    <3>3. \A i \in JobsOf(n) : Pool(jobs'[i]) \cap (S \cup F) = {}
      BY <2>2, <2>9 DEF Counted
    <3> QED
      BY <1>1, <1>4, <1>5, <2>3, <3>1, <3>2, <3>3 DEF Counted
  <2>12. Decided(n)'
    <3> SUFFICES ASSUME terminal(n)', n \notin old'
                 PROVE  /\ r.success + r.failure >= r.total
                        /\ r.status = Verdict(r)
      BY <1>1, <1>5 DEF Decided, Verdict
    <3>1. terminal(n) /\ n \notin old
      BY <1>1, <1>2, <1>5, NotificationsAssumption DEF terminal
    <3>2. jobs[k].devices = {}
      <4>1. jobs[k].devices \cap aimedAt(n) = {}
        BY <1>1, <1>4, <2>1, <2>4, <3>1, FinishedIsEmpty
      <4>2. jobs[k].devices \subseteq aimedAt(n)
        BY <1>1, <2>1 DEF JobKnows
      <4> QED
        BY <4>1, <4>2
    <3>3. S \cup A = S /\ F \cup B = F
      BY <2>3, <3>2
    <3>4. r.success = rows[n].success /\ r.failure = rows[n].failure
      BY <2>2, <2>3, <3>3 DEF Counted
    <3> QED
      BY <1>2, <2>1, <3>1, <3>4 DEF Started, Decided, Verdict
  <2>13. FanOut(n) \in DOMAIN jobs' /\ jobs'[FanOut(n)].pc # "waiting"
    <3>1. FanOut(n) \in JobsOf(n)
      BY <1>1, <2>1, FanOutKey DEF Started, JobsOf
    <3> QED
      BY <1>3, <1>4, <2>1, <3>1 DEF Started, JobsOf
  <2>14. (rows[n].status # "queued" /\ rows[n].total = Cardinality(aimedAt(n)))'
    <3>1. aimedAt(n)' = aimedAt(n)
      BY <1>1 DEF aimedAt
    <3> QED
      BY <1>1, <1>2, <1>5, <2>1, <3>1 DEF Started
  <2>15. (\E X, Y \in SUBSET Devices : Counted(n, X, Y))'
    BY <2>11
  <2>16. Started(n)'
    BY <2>8, <2>10, <2>12, <2>13, <2>14, <2>15 DEF Started
  <2> QED
    BY <1>1, <1>5, <2>16 DEF NoteInv
<1>7. NoteInv(n)'
  BY <1>1, <1>6, CleanKept DEF NoteInv
<1> QED
  BY <1>1, <1>4, <1>5, <1>7, OneNote
LEMMA RequeueKeeps ==
    ASSUME FanOutInv, NEW k \in DOMAIN jobs, Requeue(k)
    PROVE  FanOutInv'
<1> DEFINE n == k.note
           chunks == {jobs[k].retry \cap active} \ {{}}
<1>0. PICK retry \in SUBSET Devices, gone \in SUBSET Devices, kept \in SUBSET Devices :
         retry = jobs[k].retry /\ gone = jobs[k].retry \ active /\ kept = jobs[k].retry \cap active
  <2>1. jobs[k].retry \in SUBSET Devices
    BY RowIsThere, JobParts DEF FanOutInv, Job
  <2> QED
    BY <2>1
<1>1. /\ JobsOK /\ RowsOK /\ HistoryOK /\ n \in Notes /\ rows[n] \in Row
      /\ TypeOK /\ TypeOK' /\ jobs[k].pc = "requeue" /\ Becomes(n, gone, "dead")
      /\ UNCHANGED <<sending, old, repeated, fcmReady>>
  BY <1>0, RowIsThere, RequeueFacts DEF FanOutInv, TypeOK, Requeue, At, devices, ages
<1>2. PICK r \in Row : /\ rows' = [rows EXCEPT ![n] = r] /\ r.status = rows[n].status
                       /\ r.success = rows[n].success
                       /\ r.failure = rows[n].failure + Cardinality(gone)
                       /\ r.total = rows[n].total
  BY <1>0, RequeueFacts DEF FanOutInv
<1>3. PICK j \in Job : /\ j.pc = "finish" /\ j.devices = jobs[k].devices
                       /\ enqueueBatches(k, j, chunks, k.gen + 1)
  BY RequeueFacts DEF FanOutInv
<1>4. /\ DOMAIN jobs \subseteq DOMAIN jobs'
      /\ \A i \in DOMAIN jobs : jobs'[i] = IF i = k THEN j ELSE jobs[i]
      /\ \A i \in DOMAIN jobs' \ DOMAIN jobs :
            /\ jobs'[i] = Waiting(i) /\ i \in Key
            /\ i.note = n /\ i.devices \in chunks /\ i.gen = k.gen + 1
      /\ \A i, m \in DOMAIN jobs' \ DOMAIN jobs : i.devices = m.devices => i = m
  <2>1. IsFiniteSet(chunks) /\ chunks \in SUBSET SUBSET Devices /\ k.gen + 1 \in Nat
    <3>1. IsFiniteSet(chunks) /\ chunks \in SUBSET SUBSET Devices
      BY RequeueFacts DEF FanOutInv
    <3>2. k.gen \in Nat
      BY <1>1, JobParts
    <3> HIDE DEF chunks
    <3> QED
      BY <3>1, <3>2
  <2> HIDE DEF chunks
  <2> QED
    BY <1>1, <1>3, <2>1, EnqueueFacts
<1>5. \A i \in DOMAIN jobs' \ DOMAIN jobs :
         /\ jobs'[i].pc = "waiting" /\ i.note = n /\ i.gen = k.gen + 1
         /\ jobs'[i].devices = kept /\ i.devices = kept /\ Pool(jobs'[i]) = kept
  BY <1>0, <1>4, WaitingType DEF Pool
<1>6. \A i, m \in DOMAIN jobs' \ DOMAIN jobs : i = m
  BY <1>4, <1>5
<1>7. \A i \in DOMAIN jobs \cup DOMAIN jobs' :
         i.note # n => i \in DOMAIN jobs /\ i \in DOMAIN jobs' /\ jobs'[i] = jobs[i]
  BY <1>4, <1>5
<1>8. \A m \in Notes : rows'[m] = IF m = n THEN r ELSE rows[m]
  BY <1>1, <1>2, RowChanges
<1>9. /\ \A m \in Notes : m # n => fate'[m] = fate[m]
      /\ n \notin repeated => \A d \in Devices :
            IF d \in gone THEN fate'[n][d].is = "dead" /\ fate'[n][d].tries = fate[n][d].tries
                          ELSE fate'[n][d] = fate[n][d]
  BY <1>1, BecomesFacts
<1>10. /\ Pool(jobs[k]) = retry /\ k \in JobsOf(n)
       /\ gone \subseteq retry /\ kept \subseteq retry /\ kept \cap gone = {}
  BY <1>0, <1>1 DEF Pool, JobsOf
<1>11. ASSUME Clean(n) PROVE NoteInv(n)'
  <2>1. Started(n) /\ JobKnows(k)
    BY <1>1, <1>11, JobPhase
  <2>2. /\ Fresh(n, retry, k.gen + 1) /\ k.gen < MAX_TOKEN_RETRY_GENERATIONS /\ k.gen \in Nat
    BY <1>0, <1>1, <2>1, JobParts DEF JobKnows
  <2>3. gone \subseteq retry /\ Cardinality(gone) \in Nat
    BY <1>10, FiniteDevices
  <2>4. aimedAt(n)' = aimedAt(n)
    BY <1>9, <1>10, <1>11, <2>2, <2>3 DEF Clean, aimedAt, Fresh
  <2>5. Stopped(n) => Stopped(n)'
    <3>1. rows[n].failure \in Nat /\ r.failure = rows[n].failure + Cardinality(gone)
      BY <1>1, <1>2 DEF Row
    <3> QED
      BY <1>1, <1>8, <2>3, <3>1, NotificationsAssumption DEF Stopped
  <2>6. /\ \A i \in JobsOf(n) : i # k /\ jobs'[i] = jobs[i] => JobKnows(i)'
        /\ \A X, Y \in SUBSET Devices : Counted(n, X, Y) =>
              X \subseteq Is(n, "reached")' /\ \A d \in Y : Excused(n, d)'
    <3>1. \A d \in Devices \ gone : fate'[n][d] = fate[n][d]
      BY <1>9, <1>11 DEF Clean
    <3> QED
      BY <1>1, <1>8, <1>10, <2>1, <2>4, <2>5, <3>1, OthersKeep
  <2>7. JobKnows(k)' /\ jobs'[k].pc = "finish" /\ Pool(jobs'[k]) = {}
    <3>1. jobs[k].devices \subseteq aimedAt(n)'
      BY <1>1, <2>1, <2>4 DEF JobKnows
    <3> QED
      BY <1>3, <1>4, <2>1, <3>1 DEF JobKnows, Pool
  <2>8. \A i \in DOMAIN jobs' \ DOMAIN jobs : JobKnows(i)'
    <3>1. k.gen + 1 <= MAX_TOKEN_RETRY_GENERATIONS
      BY <2>2, NotificationsAssumption
    <3>2. Fresh(n, kept, k.gen + 1)'
      BY <1>9, <1>10, <1>11, <2>2 DEF Clean, Fresh
    <3> QED
      BY <1>5, <3>1, <3>2 DEF JobKnows
  <2>9. JobsOf(n)' = JobsOf(n) \cup (DOMAIN jobs' \ DOMAIN jobs)
    BY <1>4, <1>5 DEF JobsOf
  <2>10. Knowing(n)'
    <3>1. \A i \in JobsOf(n) : i # k => jobs'[i] = jobs[i]
      BY <1>4 DEF JobsOf
    <3> QED
      BY <1>5, <2>1, <2>6, <2>7, <2>8, <2>9, <3>1 DEF Knowing, Started
  <2>11. /\ \A i \in JobsOf(n) : i # k => Pool(jobs'[i]) = Pool(jobs[i]) /\ Pool(jobs'[i]) \cap retry = {}
         /\ \A i \in DOMAIN jobs' \ DOMAIN jobs : Pool(jobs'[i]) \subseteq retry
    <3>1. \A i \in JobsOf(n) : i # k => jobs'[i] = jobs[i]
      BY <1>4 DEF JobsOf
    <3> QED
      BY <1>5, <1>10, <2>1, <3>1 DEF Started, Apart
  <2>12. Apart(n)'
    <3> SUFFICES ASSUME NEW i \in JobsOf(n)', NEW m \in JobsOf(n)', i # m
                 PROVE  Pool(jobs'[i]) \cap Pool(jobs'[m]) = {}
      BY DEF Apart
    <3>1. CASE i = k \/ m = k
      BY <2>7, <3>1
    <3>2. CASE i \in JobsOf(n) \ {k} /\ m \in JobsOf(n) \ {k}
      BY <2>1, <2>11, <3>2 DEF Started, Apart
    <3>3. CASE \/ i \in JobsOf(n) \ {k} /\ m \in DOMAIN jobs' \ DOMAIN jobs
               \/ m \in JobsOf(n) \ {k} /\ i \in DOMAIN jobs' \ DOMAIN jobs
      BY <2>11, <3>3
    <3>4. CASE i \in DOMAIN jobs' \ DOMAIN jobs /\ m \in DOMAIN jobs' \ DOMAIN jobs
      BY <1>6, <3>4
    <3> QED
      BY <2>9, <3>1, <3>2, <3>3, <3>4
  <2>13. PICK S \in SUBSET Devices, F \in SUBSET Devices : Counted(n, S, F)
    BY <2>1 DEF Started
  <2>14. (S \cup F) \cap retry = {}
    BY <1>10, <2>13 DEF Counted
  <2>15. Counted(n, S, F \cup gone)'
    <3>1. S \subseteq Is(n, "reached")' /\ \A d \in F : Excused(n, d)'
      BY <2>6, <2>13
    <3>2. \A d \in gone : Excused(n, d)'
      BY <1>9, <1>11, <2>3 DEF Clean, Excused
    <3>3. r.failure = Cardinality(F \cup gone) /\ r.success = Cardinality(S)
      <4>1. F \cap gone = {}
        BY <2>3, <2>14
      <4>2. Cardinality(F \cup gone) = Cardinality(F) + Cardinality(gone)
        BY <2>3, <4>1, SumOfSizes
      <4> QED
        BY <1>2, <2>13, <4>2 DEF Counted
    <3>4. \A i \in JobsOf(n)' : Pool(jobs'[i]) \cap (S \cup F) = {}
      BY <2>7, <2>9, <2>11, <2>13, <2>14 DEF Counted
    <3>5. \A i \in JobsOf(n)' : Pool(jobs'[i]) \cap gone = {}
      BY <1>5, <1>10, <2>7, <2>9, <2>11
    <3> QED
      BY <1>1, <1>8, <3>1, <3>2, <3>3, <3>4, <3>5 DEF Counted
  <2>16. (\E X, Y \in SUBSET Devices : Counted(n, X, Y))'
    <3>1. F \cup gone \in SUBSET Devices
      BY <2>3
    <3> QED
      BY <2>15, <3>1
  <2>17. Decided(n)'
    <3> SUFFICES ASSUME terminal(n)', n \notin old'
                 PROVE  /\ r.success + r.failure >= r.total
                        /\ r.status = Verdict(r)
      BY <1>1, <1>8 DEF Decided, Verdict
    <3>1. terminal(n) /\ n \notin old
      BY <1>1, <1>2, <1>8, NotificationsAssumption DEF terminal
    <3>2. retry \cap aimedAt(n) = {}
      BY <1>1, <1>10, <2>1, <3>1, FinishedIsEmpty
    <3>3. retry = {}
      BY <1>10, <2>2, <3>2 DEF aimedAt, Fresh
    <3>4. Cardinality(gone) = 0
      BY <2>3, <3>3, FS_EmptySet
    <3>5. r.success = rows[n].success /\ r.failure = rows[n].failure
      BY <1>1, <1>2, <3>4 DEF Row
    <3> QED
      BY <1>2, <2>1, <3>1, <3>5 DEF Started, Decided, Verdict
  <2>18. FanOut(n) \in DOMAIN jobs' /\ jobs'[FanOut(n)].pc # "waiting"
    BY <1>3, <1>4, <2>1 DEF Started
  <2>19. (rows[n].status # "queued" /\ rows[n].total = Cardinality(aimedAt(n)))'
    BY <1>1, <1>2, <1>8, <2>1, <2>4 DEF Started
  <2>20. Started(n)'
    BY <2>10, <2>12, <2>16, <2>17, <2>18, <2>19 DEF Started
  <2> QED
    BY <1>1, <1>8, <2>20 DEF NoteInv
<1>12. NoteInv(n)'
  <2>1. CASE n \in repeated
    BY <1>1, <2>1 DEF NoteInv, Clean
  <2>2. CASE n \notin repeated
    <3>1. aimedAt(n) \subseteq aimedAt(n)'
      BY <1>9, <2>2 DEF aimedAt
    <3> QED
      BY <1>1, <1>11, <3>1, CleanBefore DEF NoteInv
  <2> QED
    BY <2>1, <2>2
<1> QED
  BY <1>1, <1>7, <1>8, <1>9, <1>12, OneNote
-----------------------------------------------------------------------------
(* The invariant holds *)

LEMMA InitInv == NotificationsInit => FanOutInv
<1> SUFFICES ASSUME NotificationsInit PROVE FanOutInv
  OBVIOUS
<1>1. TypeOK
  BY TypeInit
<1>2. DOMAIN jobs = {}
  BY DEF NotificationsInit
<1>3. \A n \in Notes : JobsOf(n) = {} /\ n \notin sending /\ fate[n] = Untouched /\ rows[n] = Null
  BY <1>2 DEF NotificationsInit, JobsOf
<1> QED
  BY <1>1, <1>3 DEF FanOutInv, NoteInv

LEMMA StepInv == FanOutInv /\ [NotificationsNext]_vars => FanOutInv'
<1> SUFFICES ASSUME FanOutInv, [NotificationsNext]_vars PROVE FanOutInv'
  OBVIOUS
<1>1. ASSUME NEW k \in DOMAIN jobs, Work(k) PROVE FanOutInv'
  <2>1. CASE Take(k)
    BY <2>1, TakeKeeps
  <2>2. CASE TakeFinished(k) \/ FanOutCompletes(k)
    BY <2>2, SilentEnd
  <2>3. CASE Push(k)
    BY <2>3, PushKeeps
  <2>4. CASE Count(k)
    BY <2>4, CountKeeps
  <2>5. CASE Requeue(k)
    BY <2>5, RequeueKeeps
  <2>6. CASE finalizeIfComplete(k)
    BY <2>6, FinalizeKeeps
  <2>7. CASE AttemptFails(k) \/ onFailed(k)
    BY <2>7, UncleanKeeps
  <2>8. CASE handleFanOut(k)
    BY <2>8, FanOutKeeps
  <2>9. CASE FanOutToNobody(k)
    BY <2>9, NobodyKeeps
  <2> QED
    BY <1>1, <2>1, <2>2, <2>3, <2>4, <2>5, <2>6, <2>7, <2>8, <2>9 DEF Work
<1>2. ASSUME NEW k \in DOMAIN jobs, Throw(k) \/ Stall(k) \/ LoseJob(k) \/ retryAllFailed(k)
      PROVE FanOutInv'
  <2>1. CASE Throw(k)
    BY <2>1, UncleanKeeps
  <2>2. CASE Stall(k)
    BY <2>2, UncleanKeeps
  <2>3. CASE LoseJob(k)
    BY <2>3, LoseKeeps
  <2>4. CASE retryAllFailed(k)
    BY <2>4, RetryKeeps
  <2> QED
    BY <1>2, <2>1, <2>2, <2>3, <2>4
<1>3. ASSUME NEW n \in Notes, NEW people \in SUBSET People, send(n, people) PROVE FanOutInv'
  BY <1>3, SendKeeps
<1>4. ASSUME NEW n \in Notes, enqueueNotification(n) \/ recoverStuckQueued(n) PROVE FanOutInv'
  BY <1>4, EnqueueKeeps
<1>5. ASSUME NEW n \in Notes, dispatchExisting(n) PROVE FanOutInv'
  BY <1>5, DispatchKeeps
<1>6. ASSUME DeviceRequests \/ (\E n \in Notes : RequestDies(n) \/ HalfHourPasses(n) \/ DaysPass(n)) \/ UNCHANGED vars
      PROVE FanOutInv'
  <2>1. Quiet
    <3>1. ASSUME DeviceRequests PROVE Quiet
      <4>1. PICK p \in People :
               \/ \E d \in Devices : registerToken(p, d) \/ unregisterTokens(p, {d})
               \/ unregisterTokens(p, {d \in Devices : owner[d] = p})
        BY <3>1 DEF DeviceRequests
      <4>2. CASE \E d \in Devices : registerToken(p, d)
        BY <4>2 DEF Quiet
      <4>3. CASE \E d \in Devices : unregisterTokens(p, {d})
        <5>1. PICK d \in Devices : unregisterTokens(p, {d})
          BY <4>3
        <5>2. {d} \in SUBSET Devices
          OBVIOUS
        <5> QED
          BY <5>1, <5>2 DEF Quiet
      <4>4. CASE unregisterTokens(p, {d \in Devices : owner[d] = p})
        <5>1. {d \in Devices : owner[d] = p} \in SUBSET Devices
          OBVIOUS
        <5> QED
          BY <4>4, <5>1 DEF Quiet
      <4> QED
        BY <4>1, <4>2, <4>3, <4>4
    <3> QED
      BY <1>6, <3>1 DEF Quiet
  <2> QED
    BY <2>1, QuietKeeps
<1>7. \/ \E k \in DOMAIN jobs : Work(k)
      \/ \E k \in DOMAIN jobs : Throw(k) \/ Stall(k) \/ LoseJob(k) \/ retryAllFailed(k)
      \/ \E n \in Notes, people \in SUBSET People : send(n, people)
      \/ \E n \in Notes : enqueueNotification(n) \/ recoverStuckQueued(n)
      \/ \E n \in Notes : dispatchExisting(n)
      \/ DeviceRequests \/ (\E n \in Notes : RequestDies(n) \/ HalfHourPasses(n) \/ DaysPass(n)) \/ UNCHANGED vars
  BY DEF NotificationsNext
<1> QED
  BY <1>1, <1>2, <1>3, <1>4, <1>5, <1>6, <1>7

\* Every row whose jobs were not interrupted and whose providers are configured
\* is untouched, not yet fanned out, or has no device in two jobs or counted
\* twice, with counters that say how many are counted; and the store, the queue
\* and the history are well typed.  An Expo device whose answer had no ticket is
\* in no job and counted nowhere, so its row stays short of its total.
THEOREM NotificationsInvariant == NotificationsSpec => []FanOutInv
BY InitInv, StepInv, PTL DEF NotificationsSpec

-----------------------------------------------------------------------------
(* What the invariant says *)

LEMMA InvPushedOnce == FanOutInv => PushedOnce
<1> SUFFICES ASSUME FanOutInv, NEW k \in DOMAIN jobs, At(k, "send"), k.note \notin repeated,
                    Served(k.note), NEW d \in jobs[k].devices
             PROVE  fate[k.note][d].is = "aimed" /\ ~TriedInEveryWave(k.note, d)
  BY DEF PushedOnce
<1>1. JobKnows(k) /\ k.gen \in Nat
  BY JobPhase, JobParts DEF FanOutInv, TypeOK, At, Clean
<1>2. /\ fate[k.note][d].is = "aimed" /\ fate[k.note][d].tries = k.gen
      /\ k.gen <= MAX_TOKEN_RETRY_GENERATIONS
  BY <1>1 DEF JobKnows, Fresh, At
<1> QED
  BY <1>1, <1>2, NotificationsAssumption DEF TriedInEveryWave

LEMMA InvSettledHonestly == FanOutInv => SettledHonestly
<1> SUFFICES ASSUME FanOutInv, NEW n \in Notes \ (repeated \cup old), rows[n] # Null, terminal(n),
                    Served(n)
             PROVE  LET reached == {d \in aimedAt(n) : fate[n][d].is = "reached"}
                    IN /\ rows[n].status = "sent" => reached = aimedAt(n)
                       /\ rows[n].status = "failed" <=> reached = {}
                       /\ \A d \in aimedAt(n) \ reached :
                            \/ fate[n][d].is = "dead" \/ TriedInEveryWave(n, d)
                            \/ rows[n].failure >= MAX_RECORDED_FAILURES_BEFORE_STOP
  BY DEF SettledHonestly, Honest
<1> DEFINE reached == {d \in aimedAt(n) : fate[n][d].is = "reached"}
<1>1. /\ HistoryOK /\ n \notin repeated /\ n \notin old
      /\ rows[n] \in Row /\ (Unstarted(n) \/ Started(n))
  BY DEF FanOutInv, TypeOK, Clean, NoteInv
<1>2. CASE Unstarted(n)
  <2>1. aimedAt(n) = {} /\ rows[n].status = "failed"
    BY <1>2 DEF Unstarted, Untouched, aimedAt, terminal, TERMINAL_NOTIFICATION_STATUSES
  <2> QED
    BY <2>1
<1>3. CASE Started(n)
  <2>1. PICK S \in SUBSET Devices, F \in SUBSET Devices : Counted(n, S, F)
    BY <1>3 DEF Started
  <2>2. /\ rows[n].success + rows[n].failure >= Cardinality(aimedAt(n))
        /\ rows[n].status = Verdict(rows[n])
    BY <1>1, <1>3 DEF Started, Decided
  <2>3. S \cap F = {} /\ S \cup F = aimedAt(n)
    <3>1. rows[n].success + rows[n].failure >= Cardinality(aimedAt(n))
      BY <2>2
    <3> HIDE DEF reached
    <3>2. HistoryOK
      BY <1>1
    <3>4. S \cup F = aimedAt(n)
      BY <2>1, <3>1, <3>2, AllCounted, ZenonT(60)
    <3>3. S \cap F = {}
      BY <2>1 DEF Counted, Is, Excused
    <3> QED
      BY <3>3, <3>4
  <2>4. reached = S
    BY <2>1, <2>3 DEF Counted, Is, Excused
  <2>5. IsFiniteSet(S) /\ IsFiniteSet(F)
    BY FiniteDevices
  <2>6. (rows[n].success = 0 <=> S = {}) /\ (rows[n].failure = 0 <=> F = {}) /\ rows[n].failure \in Nat
    BY <1>1, <2>1, <2>5, FS_EmptySet DEF Counted, Row
  <2>7. rows[n].status = "sent" => F = {}
    BY <2>2, <2>6 DEF Verdict
  <2>8. rows[n].status = "failed" <=> S = {}
    BY <2>2, <2>6 DEF Verdict
  <2>9. \A d \in F : \/ fate[n][d].is = "dead" \/ TriedInEveryWave(n, d)
                     \/ rows[n].failure >= MAX_RECORDED_FAILURES_BEFORE_STOP
    BY <2>1 DEF Counted, Excused, Stopped
  <2> QED
    BY <2>3, <2>4, <2>7, <2>8, <2>9
<1> QED
  BY <1>1, <1>2, <1>3

\* No job ever holds a device that already has the push, has refused it or
\* has been tried in every wave, for a row whose jobs were not interrupted and
\* whose devices have a configured provider.  Without the last, a job reports
\* the missing configuration as its own failure and is repeated with all its
\* devices: TriedOnceWithoutProvider is what the code does not keep.
THEOREM NobodyIsPushedTwice == NotificationsSpec => []PushedOnce
BY NotificationsInvariant, InvPushedOnce, PTL

\* The status of a finished row says what became of it at every device the
\* fan-out has chosen, for a row finished in time, without interruption and
\* with its providers configured, whatever these answer or leave unanswered.
THEOREM RowsTellTheTruth == NotificationsSpec => []SettledHonestly
BY NotificationsInvariant, InvSettledHonestly, PTL
=============================================================================
