---------------------------- MODULE OutboxProofs ----------------------------
(***************************************************************************)
(* Theorems about Outbox, for any tasks, batch size and number of attempts. *)
(***************************************************************************)
EXTENDS Outbox, TLAPS

-----------------------------------------------------------------------------
\* Any number of workers.

\* The invariant holds initially.
LEMMA InitInv == Init => IInv
BY LimitsAssumption
   DEF Init, IInv, TypeOK, Row, TaskStatus, Unfinished, Terminal, TaskPCs,
       FinishedIsPublished, AttemptsMatchStatus, WorkerConsistent

\* An update of a row by a worker: what it writes must fit the two invariants on
\* rows.
LEMMA UpdateInv ==
    ASSUME IInv, NEW t \in Tasks, NEW status \in TaskStatus, NEW attempt \in 0..MaxAttempts,
           NEW due \in BOOLEAN, UpdateTask(t, status, attempt, due), UNCHANGED topic,
           status = "FINISHED" => topic[t] > 0,
           status \in Unfinished => attempt < MaxAttempts,
           status = "NO_ATTEMPTS_LEFT" <=> attempt = MaxAttempts
    PROVE  table' \in [Tasks -> Row] /\ FinishedIsPublished' /\ AttemptsMatchStatus'
<1>1. table' \in [Tasks -> Row]
  BY DEF UpdateTask, IInv, TypeOK, Row
<1>2. \A u \in Tasks : table'[u] = IF u = t
                                   THEN [status |-> status, attempt |-> attempt, due |-> due]
                                   ELSE table[u]
  BY DEF UpdateTask, IInv, TypeOK
<1>3. FinishedIsPublished'
  BY <1>2 DEF FinishedIsPublished, IInv
<1>4. AttemptsMatchStatus'
  BY <1>2 DEF AttemptsMatchStatus, IInv
<1> QED
  BY <1>1, <1>3, <1>4

\* Going on to the next task keeps the workers consistent.
LEMMA NextTaskInv ==
    ASSUME IInv, NEW w \in Workers, NEW t \in Tasks, NextTask(w, t), UNCHANGED topic
    PROVE  /\ pc'   \in [Workers -> {"ready", "fetching"} \cup TaskPCs]
           /\ todo' \in [Workers -> SUBSET Tasks]
           /\ cur'  \in [Workers -> Tasks \cup {NoTask}]
           /\ snap' \in [Workers -> [Tasks -> 0..MaxAttempts]]
           /\ \A v \in Workers : WorkerConsistent(v)'
<1> USE DEF NextTask
<1>1. /\ pc'   \in [Workers -> {"ready", "fetching"} \cup TaskPCs]
      /\ todo' \in [Workers -> SUBSET Tasks]
      /\ cur'  \in [Workers -> Tasks \cup {NoTask}]
  BY DEF IInv, TypeOK
<1>2. snap' \in [Workers -> [Tasks -> 0..MaxAttempts]]
  BY LimitsAssumption DEF IInv, TypeOK
<1>3. ASSUME NEW v \in Workers
      PROVE  WorkerConsistent(v)'
  <2>1. CASE v = w
    <3>1. pc'[w] = "ready" /\ cur'[w] = NoTask /\ todo'[w] = todo[w] \ {t}
      BY DEF IInv, TypeOK
    <3>2. \A u \in todo'[w] : snap'[w][u] = snap[w][u]
      BY <3>1 DEF IInv, TypeOK
    <3> QED
      BY <2>1, <3>1, <3>2 DEF IInv, WorkerConsistent, TaskPCs
  <2>2. CASE v # w
    <3>1. pc'[v] = pc[v] /\ cur'[v] = cur[v] /\ todo'[v] = todo[v] /\ snap'[v] = snap[v]
      BY <2>2 DEF IInv, TypeOK
    <3> QED
      BY <3>1 DEF IInv, WorkerConsistent
  <2> QED
    BY <2>1, <2>2
<1> QED
  BY <1>1, <1>2, <1>3

\* Starting over with nothing fetched keeps the invariant.
LEMMA ForgetInv ==
    ASSUME IInv, NEW w \in Workers, Forget(w)
    PROVE  IInv'
<1> USE DEF Forget
<1>1. TypeOK'
  BY LimitsAssumption DEF IInv, TypeOK
<1>2. FinishedIsPublished' /\ AttemptsMatchStatus'
  BY DEF IInv, FinishedIsPublished, AttemptsMatchStatus
<1>3. ASSUME NEW v \in Workers
      PROVE  WorkerConsistent(v)'
  BY DEF IInv, TypeOK, WorkerConsistent, TaskPCs
<1> QED
  BY <1>1, <1>2, <1>3 DEF IInv

\* So does marking a row as being processed.
LEMMA MarkInv ==
    ASSUME IInv, NEW t \in Tasks, NEW attempt \in 0..MaxAttempts, attempt < MaxAttempts,
           UpdateTask(t, "PROCESSING", attempt, TRUE), UNCHANGED topic
    PROVE  table' \in [Tasks -> Row] /\ FinishedIsPublished' /\ AttemptsMatchStatus'
<1>1. /\ "PROCESSING" \in TaskStatus /\ "PROCESSING" \notin Unfinished
      /\ TRUE \in BOOLEAN /\ attempt # MaxAttempts
  BY LimitsAssumption DEF TaskStatus, Unfinished
<1> QED
  BY <1>1, UpdateInv

\* Every step keeps the invariant.
LEMMA NextInv == IInv /\ [Next]_vars => IInv'
<1> SUFFICES ASSUME IInv, [Next]_vars PROVE IInv'
  OBVIOUS
<1>1. ASSUME NEW t \in Tasks, SaveLog(t) \/ RetryDue(t)
      PROVE  IInv'
  <2>1. CASE SaveLog(t)
    <3>1. UpdateTask(t, "CREATED", 0, TRUE) /\ UNCHANGED topic
      BY <2>1 DEF SaveLog
    <3>2. /\ "CREATED" \in TaskStatus /\ TRUE \in BOOLEAN
          /\ 0 \in 0..MaxAttempts /\ 0 < MaxAttempts /\ 0 # MaxAttempts
      BY LimitsAssumption DEF TaskStatus, Unfinished
    <3>3. table' \in [Tasks -> Row] /\ FinishedIsPublished' /\ AttemptsMatchStatus'
      BY <3>1, <3>2, UpdateInv
    <3> QED
      BY <2>1, <3>3 DEF SaveLog, IInv, TypeOK, WorkerConsistent
  <2>2. CASE RetryDue(t)
    <3>1. UpdateTask(t, table[t].status, table[t].attempt, TRUE) /\ UNCHANGED topic
      BY <2>2 DEF RetryDue
    <3>2. /\ table[t].status \in TaskStatus /\ table[t].attempt \in 0..MaxAttempts
          /\ TRUE \in BOOLEAN
      BY DEF IInv, TypeOK, Row
    <3>3. /\ table[t].status = "FINISHED" => topic[t] > 0
          /\ table[t].status \in Unfinished => table[t].attempt < MaxAttempts
          /\ table[t].status = "NO_ATTEMPTS_LEFT" <=> table[t].attempt = MaxAttempts
      BY DEF IInv, FinishedIsPublished, AttemptsMatchStatus
    <3>4. table' \in [Tasks -> Row] /\ FinishedIsPublished' /\ AttemptsMatchStatus'
      BY <3>1, <3>2, <3>3, UpdateInv
    <3> QED
      BY <2>2, <3>4 DEF RetryDue, IInv, TypeOK, WorkerConsistent
  <2> QED
    BY <1>1, <2>1, <2>2
<1>2. ASSUME NEW w \in Workers, FetchPendingTasks(w)
      PROVE  IInv'
  <2>1. PICK batch \in SUBSET Tasks :
            /\ batch \subseteq {t \in Tasks : Pending(t) /\ ~Locked(w, t)}
            /\ todo' = [todo EXCEPT ![w] = batch]
            /\ snap' = [snap EXCEPT ![w] = [t \in Tasks |-> IF t \in batch
                                                            THEN table[t].attempt ELSE 0]]
    BY <1>2 DEF FetchPendingTasks, IsOldest
  <2>2. /\ pc[w] = "ready" /\ pc' = [pc EXCEPT ![w] = "fetching"]
        /\ UNCHANGED <<table, topic, cur>>
    BY <1>2 DEF FetchPendingTasks
  <2>3. \A t \in batch : table[t].attempt < MaxAttempts
    BY <2>1 DEF Pending
  <2>4. [t \in Tasks |-> IF t \in batch THEN table[t].attempt ELSE 0]
            \in [Tasks -> 0..MaxAttempts]
    BY LimitsAssumption DEF IInv, TypeOK, Row
  <2>5. TypeOK'
    BY <2>1, <2>2, <2>4 DEF IInv, TypeOK
  <2>6. ASSUME NEW v \in Workers
        PROVE  WorkerConsistent(v)'
    <3>1. CASE v = w
      <4>1. pc'[w] = "fetching" /\ cur'[w] = NoTask /\ todo'[w] = batch
        BY <2>1, <2>2 DEF IInv, TypeOK, WorkerConsistent, TaskPCs
      <4>2. \A t \in batch : snap'[w][t] = table[t].attempt
        BY <2>1 DEF IInv, TypeOK
      <4> QED
        BY <2>3, <3>1, <4>1, <4>2 DEF WorkerConsistent, TaskPCs
    <3>2. CASE v # w
      <4>1. pc'[v] = pc[v] /\ cur'[v] = cur[v] /\ todo'[v] = todo[v] /\ snap'[v] = snap[v]
        BY <2>1, <2>2, <3>2 DEF IInv, TypeOK
      <4> QED
        BY <2>2, <4>1 DEF IInv, WorkerConsistent
    <3> QED
      BY <3>1, <3>2
  <2> QED
    BY <2>2, <2>5, <2>6 DEF IInv, FinishedIsPublished, AttemptsMatchStatus
<1>3. ASSUME NEW w \in Workers, CommitFetch(w)
      PROVE  IInv'
  BY <1>3 DEF CommitFetch, IInv, TypeOK, FinishedIsPublished, AttemptsMatchStatus,
              WorkerConsistent, TaskPCs
<1>4. ASSUME NEW w \in Workers, NEW t \in Tasks, MarkProcessing(w, t)
      PROVE  IInv'
  <2>1. /\ t \in todo[w] /\ snap[w][t] \in 0..MaxAttempts /\ snap[w][t] < MaxAttempts
    BY <1>4 DEF MarkProcessing, First, IInv, TypeOK, WorkerConsistent
  <2>2. table' \in [Tasks -> Row] /\ FinishedIsPublished' /\ AttemptsMatchStatus'
    BY <1>4, <2>1, MarkInv DEF MarkProcessing
  <2>3. TypeOK'
    BY <1>4, <2>2 DEF MarkProcessing, IInv, TypeOK, TaskPCs
  <2>4. ASSUME NEW v \in Workers
        PROVE  WorkerConsistent(v)'
    BY <1>4, <2>1 DEF MarkProcessing, IInv, TypeOK, WorkerConsistent, TaskPCs
  <2> QED
    BY <2>2, <2>3, <2>4 DEF IInv
<1>5. ASSUME NEW w \in Workers, NEW t \in Tasks, MarkFails(w, t)
      PROVE  IInv'
  <2>1. /\ t \in todo[w] /\ snap[w][t] \in 0..MaxAttempts /\ snap[w][t] < MaxAttempts
    BY <1>5 DEF MarkFails, First, IInv, TypeOK, WorkerConsistent
  <2>2. table' \in [Tasks -> Row] /\ FinishedIsPublished' /\ AttemptsMatchStatus'
    <3>1. CASE UNCHANGED table
      BY <1>5, <3>1 DEF MarkFails, IInv, TypeOK, FinishedIsPublished, AttemptsMatchStatus
    <3>2. CASE UpdateTask(t, "PROCESSING", snap[w][t], TRUE)
      BY <1>5, <2>1, <3>2, MarkInv DEF MarkFails
    <3> QED
      BY <1>5, <3>1, <3>2 DEF MarkFails
  <2> QED
    BY <1>5, <2>2, NextTaskInv DEF MarkFails, IInv, TypeOK
<1>6. ASSUME NEW w \in Workers, SendTransactional(w)
      PROVE  IInv'
  <2>1. cur[w] \in Tasks
    BY <1>6 DEF SendTransactional, IInv, TypeOK, WorkerConsistent, TaskPCs
  <2>2. /\ topic' \in [Tasks -> Nat]
        /\ \A t \in Tasks : topic'[t] >= topic[t]
        /\ pc'[w] = "sent" => topic'[cur[w]] > 0
    <3>1. topic \in [Tasks -> Nat]
      BY DEF IInv, TypeOK
    <3>2. /\ Published(cur[w]) \in [Tasks -> Nat]
          /\ Published(cur[w])[cur[w]] > 0
          /\ \A t \in Tasks : Published(cur[w])[t] >= topic[t]
      BY <2>1, <3>1 DEF Published
    <3>3. \A t \in Tasks : topic[t] >= topic[t]
      BY <3>1
    <3>4. pc'[w] = "sent" => topic' = Published(cur[w])
      BY <1>6 DEF SendTransactional, IInv, TypeOK
    <3>5. topic' \in {topic, Published(cur[w])}
      BY <1>6 DEF SendTransactional
    <3> QED
      BY <3>1, <3>2, <3>3, <3>4, <3>5
  <2>3. TypeOK'
    BY <1>6, <2>2 DEF SendTransactional, IInv, TypeOK, TaskPCs
  <2>4. FinishedIsPublished' /\ AttemptsMatchStatus'
    BY <1>6, <2>2 DEF SendTransactional, IInv, TypeOK, FinishedIsPublished, AttemptsMatchStatus
  <2>5. ASSUME NEW v \in Workers
        PROVE  WorkerConsistent(v)'
    <3>1. CASE v = w
      BY <1>6, <2>2, <3>1 DEF SendTransactional, IInv, TypeOK, WorkerConsistent, TaskPCs
    <3>2. CASE v # w
      <4>1. pc'[v] = pc[v] /\ cur'[v] = cur[v] /\ todo'[v] = todo[v] /\ snap'[v] = snap[v]
        BY <1>6, <3>2 DEF SendTransactional, IInv, TypeOK
      <4>2. pc[v] = "sent" => cur[v] \in Tasks /\ topic[cur[v]] \in Nat
        BY DEF IInv, TypeOK, WorkerConsistent, TaskPCs
      <4> QED
        BY <2>2, <4>1, <4>2 DEF IInv, TypeOK, WorkerConsistent
    <3> QED
      BY <3>1, <3>2
  <2> QED
    BY <2>3, <2>4, <2>5 DEF IInv
<1>7. ASSUME NEW w \in Workers, RecordFinished(w) \/ RecordFailed(w) \/ RecordFails(w)
      PROVE  IInv'
  <2>1. /\ cur[w] \in Tasks /\ cur[w] \in todo[w]
        /\ snap[w][cur[w]] \in 0..MaxAttempts /\ snap[w][cur[w]] < MaxAttempts
        /\ pc[w] = "sent" => topic[cur[w]] > 0
    BY <1>7 DEF RecordFinished, RecordFailed, RecordAttempt, RecordFails, IInv, TypeOK,
                WorkerConsistent, TaskPCs
  <2>2. NextTask(w, cur[w]) /\ UNCHANGED topic
    BY <1>7 DEF RecordFinished, RecordFailed, RecordAttempt, RecordFails
  <2>3. table' \in [Tasks -> Row] /\ FinishedIsPublished' /\ AttemptsMatchStatus'
    <3>1. CASE RecordFinished(w)
      <4>1. /\ "FINISHED" \in TaskStatus /\ "FINISHED" \notin Unfinished
            /\ TRUE \in BOOLEAN /\ snap[w][cur[w]] # MaxAttempts
        BY <2>1, LimitsAssumption DEF TaskStatus, Terminal, Unfinished
      <4>2. UpdateTask(cur[w], "FINISHED", snap[w][cur[w]], TRUE) /\ pc[w] = "sent"
        BY <3>1 DEF RecordFinished
      <4> QED
        BY <2>1, <2>2, <4>1, <4>2, UpdateInv
    <3>2. CASE RecordFailed(w)
      <4> DEFINE attempt == snap[w][cur[w]] + 1
                 status  == IF attempt >= MaxAttempts THEN "NO_ATTEMPTS_LEFT" ELSE "FAILED"
      <4>1. attempt \in 0..MaxAttempts /\ (status = "NO_ATTEMPTS_LEFT" <=> attempt = MaxAttempts)
        BY <2>1, LimitsAssumption
      <4>2. /\ status \in TaskStatus /\ status # "FINISHED"
            /\ status \in Unfinished => attempt < MaxAttempts
        BY <4>1, LimitsAssumption DEF TaskStatus, Terminal, Unfinished
      <4>3. UpdateTask(cur[w], status, attempt, FALSE)
        BY <3>2 DEF RecordFailed, RecordAttempt
      <4> HIDE DEF attempt, status
      <4> QED
        BY <2>1, <2>2, <4>1, <4>2, <4>3, UpdateInv
    <3>3. CASE RecordFails(w)
      BY <3>3 DEF RecordFails, IInv, TypeOK, FinishedIsPublished, AttemptsMatchStatus
    <3> QED
      BY <1>7, <3>1, <3>2, <3>3
  <2> QED
    BY <2>1, <2>2, <2>3, NextTaskInv DEF IInv, TypeOK
<1>8. ASSUME NEW w \in Workers, FetchFails(w) \/ Restart(w)
      PROVE  IInv'
  BY <1>8, ForgetInv DEF FetchFails, Restart
<1>9. CASE UNCHANGED vars
  BY <1>9 DEF vars, IInv, TypeOK, FinishedIsPublished, AttemptsMatchStatus, WorkerConsistent
<1> QED
  BY <1>1, <1>2, <1>3, <1>4, <1>5, <1>6, <1>7, <1>8, <1>9 DEF Next

\* IInv is an invariant, for any number of workers.
THEOREM OutboxInvariant == Spec => []IInv
BY InitInv, NextInv, PTL DEF Spec

\* A task reported finished has reached the topic, however many workers overwrite
\* each other's rows and wherever they die.
THEOREM FinishedTasksArePublished == Spec => []FinishedIsPublished
<1>1. IInv => FinishedIsPublished
  BY DEF IInv
<1> QED
  BY <1>1, OutboxInvariant, PTL

\* The status and the attempt_number of a row never contradict each other: no task
\* is in limbo, waiting for a fetch that skips it.
THEOREM NoTaskInLimbo == Spec => []AttemptsMatchStatus
<1>1. IInv => AttemptsMatchStatus
  BY DEF IInv
<1> QED
  BY <1>1, OutboxInvariant, PTL

-----------------------------------------------------------------------------
\* A single worker.

\* The invariant for a single worker holds initially.
LEMMA SingleInit == Init => SingleIInv
<1>1. Init => CopiesCounted /\ NotTriedUnsaved
  BY DEF Init, CopiesCounted, NotTriedUnsaved
<1>2. Init => \A w \in Workers : CopyCurrent(w)
  BY DEF Init, CopyCurrent
<1> QED
  BY <1>1, <1>2, InitInv DEF SingleIInv

\* An update changes one row.
LEMMA UpdateOne ==
    ASSUME IInv, NEW t \in Tasks, NEW status, NEW attempt, NEW due,
           UpdateTask(t, status, attempt, due)
    PROVE  /\ table'[t].status = status /\ table'[t].attempt = attempt
           /\ \A u \in Tasks : u # t => table'[u] = table[u]
BY DEF UpdateTask, IInv, TypeOK

\* Going on to the next task, the worker keeps current copies of the others.
LEMMA NextTaskSingle ==
    ASSUME SingleIInv, SingleWorker, NEW w \in Workers, NEW t \in Tasks, NextTask(w, t),
           cur[w] \in {t, NoTask}, \A u \in Tasks : u # t => table'[u] = table[u]
    PROVE  \A v \in Workers : CopyCurrent(v)'
<1>1. pc'[w] = "ready" /\ cur'[w] = NoTask /\ todo'[w] = todo[w] \ {t} /\ todo[w] \subseteq Tasks
  BY DEF NextTask, SingleIInv, IInv, TypeOK
<1>2. \A u \in todo'[w] : snap'[w][u] = snap[w][u]
  BY <1>1 DEF NextTask, SingleIInv, IInv, TypeOK
<1>3. \A u \in todo'[w] : u # t /\ u # cur[w] /\ u # NoTask /\ table'[u] = table[u]
  BY <1>1, TasksAssumption
<1>4. CopyCurrent(w)'
  BY <1>1, <1>2, <1>3 DEF CopyCurrent, SingleIInv
<1> QED
  BY <1>4 DEF SingleWorker

\* What a worker in processTask knows of its task.
LEMMA CurrentTask ==
    ASSUME SingleIInv, NEW w \in Workers, pc[w] \in TaskPCs
    PROVE  /\ cur[w] \in Tasks /\ cur[w] \in todo[w]
           /\ table[cur[w]].status = "PROCESSING"
           /\ table[cur[w]].attempt = snap[w][cur[w]]
           /\ snap[w][cur[w]] \in Nat
           /\ topic[cur[w]] \in Nat /\ topic[cur[w]] <= snap[w][cur[w]] + 1
<1>1. cur[w] \in Tasks /\ cur[w] \in todo[w]
  BY DEF SingleIInv, IInv, WorkerConsistent, TypeOK
<1>2. table[cur[w]].status = "PROCESSING" /\ table[cur[w]].attempt = snap[w][cur[w]]
  BY <1>1 DEF SingleIInv, CopyCurrent
<1>3. snap[w][cur[w]] \in Nat /\ topic[cur[w]] \in Nat
  BY <1>1, LimitsAssumption DEF SingleIInv, IInv, TypeOK
<1>4. topic[cur[w]] <= snap[w][cur[w]] + 1
  BY <1>1, <1>2 DEF SingleIInv, CopiesCounted
<1> QED
  BY <1>1, <1>2, <1>3, <1>4

\* What a worker knows of a task it is about to process.
LEMMA FirstTask ==
    ASSUME SingleIInv, NEW w \in Workers, NEW t \in Tasks, First(w, t)
    PROVE  /\ t \in todo[w] /\ pc[w] = "ready" /\ cur[w] = NoTask
           /\ table[t].status \in Unfinished
           /\ table[t].attempt = snap[w][t]
           /\ snap[w][t] \in Nat
           /\ topic[t] \in Nat /\ topic[t] <= snap[w][t] /\ topic[t] <= snap[w][t] + 1
<1>1. t \in todo[w] /\ pc[w] = "ready" /\ cur[w] = NoTask
  BY DEF First, SingleIInv, IInv, WorkerConsistent, TaskPCs
<1>2. table[t].status \in Unfinished /\ table[t].attempt = snap[w][t]
  BY <1>1, TasksAssumption DEF SingleIInv, CopyCurrent
<1>3. snap[w][t] \in Nat /\ topic[t] \in Nat
  BY <1>1, LimitsAssumption DEF SingleIInv, IInv, TypeOK
<1>4. topic[t] <= snap[w][t]
  BY <1>2 DEF SingleIInv, CopiesCounted, Unfinished
<1> QED
  BY <1>1, <1>2, <1>3, <1>4

\* An update keeps the copies counted if the row it writes does.
LEMMA UpdateCounted ==
    ASSUME SingleIInv, NEW t \in Tasks, NEW status, NEW attempt, NEW due,
           UpdateTask(t, status, attempt, due), UNCHANGED topic,
           topic[t] <= IF status \in {"PROCESSING", "FINISHED"} THEN attempt + 1 ELSE attempt,
           status = "NONE" => attempt = 0
    PROVE  CopiesCounted' /\ NotTriedUnsaved'
<1>1. /\ table'[t].status = status /\ table'[t].attempt = attempt
      /\ \A u \in Tasks : u # t => table'[u] = table[u]
  BY UpdateOne DEF SingleIInv
<1> QED
  BY <1>1 DEF CopiesCounted, NotTriedUnsaved, SingleIInv

\* Every step of a system with a single worker keeps the invariant.
LEMMA SingleNext ==
    ASSUME SingleWorker
    PROVE  SingleIInv /\ [Next]_vars => SingleIInv'
<1> SUFFICES ASSUME SingleIInv, [Next]_vars
             PROVE  CopiesCounted' /\ NotTriedUnsaved' /\ \A v \in Workers : CopyCurrent(v)'
  BY NextInv DEF SingleIInv
<1> DEFINE Goal == CopiesCounted' /\ NotTriedUnsaved' /\ \A v \in Workers : CopyCurrent(v)'
<1>1. ASSUME NEW t \in Tasks, SaveLog(t) PROVE Goal
  <2>1. /\ UpdateTask(t, "CREATED", 0, TRUE) /\ table[t].status = "NONE"
        /\ UNCHANGED <<topic, pc, todo, cur, snap>>
    BY <1>1 DEF SaveLog
  <2>2. topic[t] <= 0
    BY <2>1 DEF SingleIInv, CopiesCounted, NotTriedUnsaved
  <2>3. CopiesCounted' /\ NotTriedUnsaved'
    BY <2>1, <2>2, UpdateCounted
  <2>4. \A u \in Tasks : u # t => table'[u] = table[u]
    BY <2>1, UpdateOne DEF SingleIInv
  <2>5. ASSUME NEW v \in Workers PROVE CopyCurrent(v)'
    <3>1. t \notin todo[v] /\ todo[v] \subseteq Tasks
      BY <2>1 DEF SingleIInv, IInv, TypeOK, CopyCurrent, Unfinished
    <3> QED
      BY <2>1, <2>4, <3>1 DEF SingleIInv, CopyCurrent
  <2> QED
    BY <2>3, <2>5
<1>2. ASSUME NEW t \in Tasks, RetryDue(t) PROVE Goal
  <2>1. /\ UpdateTask(t, table[t].status, table[t].attempt, TRUE)
        /\ UNCHANGED <<topic, pc, todo, cur, snap>>
    BY <1>2 DEF RetryDue
  <2>2. \A u \in Tasks : table'[u].status = table[u].status /\ table'[u].attempt = table[u].attempt
    BY <2>1, UpdateOne DEF SingleIInv
  <2>3. CopiesCounted' /\ NotTriedUnsaved'
    BY <2>1, <2>2 DEF SingleIInv, CopiesCounted, NotTriedUnsaved
  <2>4. ASSUME NEW v \in Workers PROVE CopyCurrent(v)'
    <3>1. todo[v] \subseteq Tasks
      BY DEF SingleIInv, IInv, TypeOK
    <3> QED
      BY <2>1, <2>2, <3>1 DEF SingleIInv, CopyCurrent
  <2> QED
    BY <2>3, <2>4
<1>3. ASSUME NEW w \in Workers, FetchPendingTasks(w) PROVE Goal
  <2>1. PICK batch \in SUBSET Tasks :
            /\ batch \subseteq {t \in Tasks : Pending(t) /\ ~Locked(w, t)}
            /\ todo' = [todo EXCEPT ![w] = batch]
            /\ snap' = [snap EXCEPT ![w] = [t \in Tasks |-> IF t \in batch
                                                            THEN table[t].attempt ELSE 0]]
    BY <1>3 DEF FetchPendingTasks, IsOldest
  <2>2. /\ pc[w] = "ready" /\ pc' = [pc EXCEPT ![w] = "fetching"]
        /\ UNCHANGED <<table, topic, cur>>
    BY <1>3 DEF FetchPendingTasks
  <2>3. /\ pc'[w] = "fetching" /\ cur'[w] = NoTask /\ todo'[w] = batch
        /\ \A t \in batch : snap'[w][t] = table[t].attempt
    BY <2>1, <2>2 DEF SingleIInv, IInv, TypeOK, WorkerConsistent, TaskPCs
  <2>4. \A t \in batch : table[t].status \in Unfinished /\ t # NoTask
    BY <2>1, TasksAssumption DEF Pending
  <2>5. CopyCurrent(w)'
    BY <2>2, <2>3, <2>4 DEF CopyCurrent
  <2> QED
    BY <2>2, <2>5 DEF SingleWorker, SingleIInv, CopiesCounted, NotTriedUnsaved
<1>4. ASSUME NEW w \in Workers, CommitFetch(w) PROVE Goal
  BY <1>4 DEF CommitFetch, SingleWorker, SingleIInv, IInv, TypeOK, CopiesCounted, NotTriedUnsaved,
              CopyCurrent
<1>5. ASSUME NEW w \in Workers, Forget(w) PROVE Goal
  <2>1. pc'[w] = "ready" /\ todo'[w] = {}
    BY <1>5 DEF Forget, SingleIInv, IInv, TypeOK
  <2>2. CopyCurrent(w)'
    BY <2>1 DEF CopyCurrent
  <2> QED
    BY <1>5, <2>2 DEF Forget, SingleWorker, SingleIInv, CopiesCounted, NotTriedUnsaved
<1>6. ASSUME NEW w \in Workers, NEW t \in Tasks, MarkProcessing(w, t) PROVE Goal
  <2>1. /\ UpdateTask(t, "PROCESSING", snap[w][t], TRUE) /\ First(w, t)
        /\ pc' = [pc EXCEPT ![w] = "send"] /\ cur' = [cur EXCEPT ![w] = t]
        /\ UNCHANGED <<topic, todo, snap>>
    BY <1>6 DEF MarkProcessing
  <2>2. /\ t \in todo[w] /\ cur[w] = NoTask /\ snap[w][t] \in Nat
        /\ topic[t] <= snap[w][t] /\ topic[t] <= snap[w][t] + 1
    BY <2>1, FirstTask
  <2>3. CopiesCounted' /\ NotTriedUnsaved'
    BY <2>1, <2>2, UpdateCounted
  <2>4. /\ table'[t].status = "PROCESSING" /\ table'[t].attempt = snap[w][t]
        /\ \A u \in Tasks : u # t => table'[u] = table[u]
    BY <2>1, UpdateOne DEF SingleIInv
  <2>5. pc'[w] = "send" /\ cur'[w] = t /\ todo[w] \subseteq Tasks
    BY <2>1 DEF SingleIInv, IInv, TypeOK
  <2>6. \A u \in todo[w] : u # NoTask
    BY <2>5, TasksAssumption
  <2>7. CopyCurrent(w)'
    BY <2>1, <2>2, <2>4, <2>5, <2>6 DEF SingleIInv, CopyCurrent
  <2> QED
    BY <2>3, <2>7 DEF SingleWorker
<1>7. ASSUME NEW w \in Workers, NEW t \in Tasks, MarkFails(w, t) PROVE Goal
  <2>1. /\ First(w, t) /\ NextTask(w, t) /\ UNCHANGED topic
        /\ UNCHANGED table \/ UpdateTask(t, "PROCESSING", snap[w][t], TRUE)
    BY <1>7 DEF MarkFails
  <2>2. cur[w] = NoTask /\ topic[t] <= snap[w][t] + 1
    BY <2>1, FirstTask
  <2>3. CopiesCounted' /\ NotTriedUnsaved'
    <3>1. CASE UNCHANGED table
      BY <2>1, <3>1 DEF SingleIInv, CopiesCounted, NotTriedUnsaved
    <3>2. CASE UpdateTask(t, "PROCESSING", snap[w][t], TRUE)
      BY <2>1, <2>2, <3>2, UpdateCounted
    <3> QED
      BY <2>1, <3>1, <3>2
  <2>4. \A u \in Tasks : u # t => table'[u] = table[u]
    BY <2>1, UpdateOne DEF SingleIInv
  <2> QED
    BY <2>1, <2>2, <2>3, <2>4, NextTaskSingle
<1>8. ASSUME NEW w \in Workers, SendTransactional(w) PROVE Goal
  <2>1. /\ pc[w] = "send" /\ topic' \in {topic, Published(cur[w])}
        /\ UNCHANGED <<table, todo, cur, snap>>
    BY <1>8 DEF SendTransactional
  <2>2. pc'[w] # "send"
    BY <1>8 DEF SendTransactional, SingleIInv, IInv, TypeOK
  <2>3. /\ cur[w] \in Tasks /\ table[cur[w]].status = "PROCESSING"
        /\ table[cur[w]].attempt = snap[w][cur[w]]
        /\ snap[w][cur[w]] \in Nat /\ topic[cur[w]] \in Nat
    BY <2>1, CurrentTask DEF TaskPCs
  <2>4. topic[cur[w]] <= snap[w][cur[w]]
    BY <2>1 DEF SingleIInv, CopyCurrent
  <2>5. \A u \in Tasks : topic'[u] = topic[u] \/ (u = cur[w] /\ topic'[u] = topic[u] + 1)
    <3>1. topic \in [Tasks -> Nat]
      BY DEF SingleIInv, IInv, TypeOK
    <3>2. \A u \in Tasks : Published(cur[w])[u] = IF u = cur[w] THEN topic[u] + 1 ELSE topic[u]
      BY <2>3, <3>1 DEF Published
    <3>3. CASE topic' = topic
      BY <3>3
    <3>4. CASE topic' = Published(cur[w])
      BY <3>2, <3>4
    <3> QED
      BY <2>1, <3>3, <3>4
  <2>6. CopiesCounted' /\ NotTriedUnsaved'
    BY <2>1, <2>3, <2>4, <2>5 DEF SingleIInv, CopiesCounted, NotTriedUnsaved
  <2>7. CopyCurrent(w)'
    BY <2>1, <2>2 DEF SingleIInv, CopyCurrent
  <2> QED
    BY <2>6, <2>7 DEF SingleWorker
<1>9. ASSUME NEW w \in Workers, RecordFinished(w) \/ RecordFailed(w) \/ RecordFails(w) PROVE Goal
  <2>1. pc[w] \in TaskPCs /\ NextTask(w, cur[w]) /\ UNCHANGED topic
    BY <1>9 DEF RecordFinished, RecordFailed, RecordAttempt, RecordFails, TaskPCs
  <2>2. /\ cur[w] \in Tasks /\ snap[w][cur[w]] \in Nat
        /\ topic[cur[w]] \in Nat /\ topic[cur[w]] <= snap[w][cur[w]] + 1
    BY <2>1, CurrentTask
  <2>3. (CopiesCounted' /\ NotTriedUnsaved') /\ \A u \in Tasks : u # cur[w] => table'[u] = table[u]
    <3>1. CASE RecordFinished(w)
      <4>1. UpdateTask(cur[w], "FINISHED", snap[w][cur[w]], TRUE)
        BY <3>1 DEF RecordFinished
      <4> QED
        BY <2>1, <2>2, <4>1, UpdateCounted, UpdateOne DEF SingleIInv
    <3>2. CASE RecordFailed(w)
      <4> DEFINE attempt == snap[w][cur[w]] + 1
                 status  == IF attempt >= MaxAttempts THEN "NO_ATTEMPTS_LEFT" ELSE "FAILED"
      <4>1. UpdateTask(cur[w], status, attempt, FALSE)
        BY <3>2 DEF RecordFailed, RecordAttempt
      <4>2. status \notin {"PROCESSING", "FINISHED", "NONE"} /\ topic[cur[w]] <= attempt
        BY <2>2
      <4> HIDE DEF attempt, status
      <4> QED
        BY <2>1, <2>2, <4>1, <4>2, UpdateCounted, UpdateOne DEF SingleIInv
    <3>3. CASE RecordFails(w)
      BY <3>3 DEF RecordFails, SingleIInv, CopiesCounted, NotTriedUnsaved
    <3> QED
      BY <1>9, <3>1, <3>2, <3>3
  <2> QED
    BY <2>1, <2>2, <2>3, NextTaskSingle
<1>10. CASE UNCHANGED vars
  BY <1>10 DEF vars, SingleIInv, CopiesCounted, NotTriedUnsaved, CopyCurrent
<1> QED
  BY <1>1, <1>2, <1>3, <1>4, <1>5, <1>6, <1>7, <1>8, <1>9, <1>10
  DEF Next, FetchFails, Restart

\* The invariant of a single worker.
THEOREM SingleInvariant == SingleWorker => (Spec => []SingleIInv)
<1> SUFFICES ASSUME SingleWorker PROVE Spec => []SingleIInv
  OBVIOUS
<1>1. SingleIInv /\ [Next]_vars => SingleIInv'
  BY SingleNext
<1> QED
  BY <1>1, SingleInit, PTL DEF Spec

\* A single worker publishes a task at most once per counted attempt, although a
\* send that reports an error may have been committed.
THEOREM CopiesAreCounted == SingleWorker => (Spec => []CopiesCounted)
<1> SUFFICES ASSUME SingleWorker PROVE Spec => []CopiesCounted
  OBVIOUS
<1>1. SingleIInv => CopiesCounted
  BY DEF SingleIInv
<1> QED
  BY <1>1, SingleInvariant, PTL

\* What a step of a single worker does to the rows: those it changes were waiting
\* for it or being processed by it, and no attempt is uncounted.
LEMMA StepEffect ==
    ASSUME SingleWorker, SingleIInv, [Next]_vars, NEW u \in Tasks
    PROVE  /\ \/ table'[u].status = table[u].status
              \/ table[u].status \notin Terminal /\ ~Abandoned(u)
           /\ table'[u].attempt >= table[u].attempt
           /\ \A v \in Workers : cur'[v] = u => cur[v] = u \/ table[u].status \in Unfinished
<1> DEFINE Rows == /\ \/ table'[u].status = table[u].status
                      \/ table[u].status \notin Terminal /\ ~Abandoned(u)
                   /\ table'[u].attempt >= table[u].attempt
           Curs == \A v \in Workers : cur'[v] = u => cur[v] = u \/ table[u].status \in Unfinished
<1>0. u # NoTask /\ table[u].attempt \in Nat /\ table[u].attempt >= table[u].attempt
  BY TasksAssumption, LimitsAssumption DEF SingleIInv, IInv, TypeOK, Row
<1>1. ASSUME UNCHANGED table PROVE Rows
  BY <1>0, <1>1
<1>2. ASSUME UNCHANGED cur PROVE Curs
  BY <1>2
<1>3. ASSUME NEW w \in Workers, cur' = [cur EXCEPT ![w] = NoTask] PROVE Curs
  BY <1>0, <1>3 DEF SingleIInv, IInv, TypeOK
<1>4. ASSUME NEW t \in Tasks, SaveLog(t) PROVE Rows /\ Curs
  <2>1. /\ UpdateTask(t, "CREATED", 0, TRUE) /\ table[t].status = "NONE" /\ UNCHANGED cur
    BY <1>4 DEF SaveLog
  <2>2. table[t].attempt = 0 /\ table[t].status \notin Terminal /\ ~Abandoned(t)
    BY <2>1 DEF SingleIInv, NotTriedUnsaved, Terminal, Abandoned
  <2>3. table'[t].attempt = 0 /\ (u # t => table'[u] = table[u])
    BY <2>1, UpdateOne DEF SingleIInv
  <2> QED
    BY <1>0, <1>2, <2>1, <2>2, <2>3
<1>5. ASSUME NEW t \in Tasks, RetryDue(t) PROVE Rows /\ Curs
  <2>1. UpdateTask(t, table[t].status, table[t].attempt, TRUE) /\ UNCHANGED cur
    BY <1>5 DEF RetryDue
  <2>2. table'[u].status = table[u].status /\ table'[u].attempt = table[u].attempt
    BY <2>1, UpdateOne DEF SingleIInv
  <2> QED
    BY <1>0, <1>2, <2>1, <2>2
<1>6. ASSUME NEW w \in Workers, FetchPendingTasks(w) \/ CommitFetch(w) PROVE Rows /\ Curs
  BY <1>1, <1>2, <1>6 DEF FetchPendingTasks, CommitFetch
<1>7. ASSUME NEW w \in Workers, Forget(w) PROVE Rows /\ Curs
  BY <1>1, <1>3, <1>7 DEF Forget
<1>8. ASSUME NEW w \in Workers, SendTransactional(w) PROVE Rows /\ Curs
  BY <1>1, <1>2, <1>8 DEF SendTransactional
<1>9. ASSUME NEW w \in Workers, NEW t \in Tasks, MarkProcessing(w, t) \/ MarkFails(w, t)
      PROVE  Rows /\ Curs
  <2>1. /\ First(w, t)
        /\ UNCHANGED table \/ UpdateTask(t, "PROCESSING", snap[w][t], TRUE)
        /\ cur' = [cur EXCEPT ![w] = t] \/ cur' = [cur EXCEPT ![w] = NoTask]
    BY <1>9 DEF MarkProcessing, MarkFails, NextTask
  <2>2. /\ table[t].status \in Unfinished /\ table[t].attempt = snap[w][t]
    BY <2>1, FirstTask
  <2>3. table[t].status \notin Terminal /\ ~Abandoned(t)
    BY <2>2 DEF Abandoned, Terminal, Unfinished
  <2>4. CASE UpdateTask(t, "PROCESSING", snap[w][t], TRUE)
    <3>1. table'[t].attempt = snap[w][t] /\ (u # t => table'[u] = table[u])
      BY <2>4, UpdateOne DEF SingleIInv
    <3> QED
      BY <1>0, <1>3, <2>1, <2>2, <2>3, <3>1 DEF SingleIInv, IInv, TypeOK
  <2>5. CASE UNCHANGED table
    BY <1>1, <1>3, <2>1, <2>2, <2>5 DEF SingleIInv, IInv, TypeOK
  <2> QED
    BY <2>1, <2>4, <2>5
<1>10. ASSUME NEW w \in Workers, RecordFinished(w) \/ RecordFailed(w) \/ RecordFails(w)
       PROVE  Rows /\ Curs
  <2>1. pc[w] \in TaskPCs /\ cur' = [cur EXCEPT ![w] = NoTask]
    BY <1>10 DEF RecordFinished, RecordFailed, RecordAttempt, RecordFails, NextTask, TaskPCs
  <2>2. /\ cur[w] \in Tasks /\ table[cur[w]].status = "PROCESSING"
        /\ table[cur[w]].attempt = snap[w][cur[w]] /\ snap[w][cur[w]] \in Nat
    BY <2>1, CurrentTask
  <2>3. table[cur[w]].status \notin Terminal /\ ~Abandoned(cur[w])
    BY <2>2 DEF Abandoned, Terminal
  <2>4. \/ UNCHANGED table
        \/ \E status, due : \E attempt \in {snap[w][cur[w]], snap[w][cur[w]] + 1} :
               UpdateTask(cur[w], status, attempt, due)
    BY <1>10 DEF RecordFinished, RecordFailed, RecordAttempt, RecordFails
  <2>5. ASSUME NEW status, NEW due, NEW attempt \in {snap[w][cur[w]], snap[w][cur[w]] + 1},
               UpdateTask(cur[w], status, attempt, due)
        PROVE  Rows
    <3>1. table'[cur[w]].attempt = attempt /\ (u # cur[w] => table'[u] = table[u])
      BY <2>2, <2>5, UpdateOne DEF SingleIInv
    <3>2. attempt >= snap[w][cur[w]]
      BY <2>2
    <3> QED
      BY <1>0, <2>2, <2>3, <3>1, <3>2
  <2> QED
    BY <1>1, <1>3, <2>1, <2>4, <2>5
<1>11. CASE UNCHANGED vars
  BY <1>1, <1>2, <1>11 DEF vars
<1> QED
  BY <1>4, <1>5, <1>6, <1>7, <1>8, <1>9, <1>10, <1>11 DEF Next, FetchFails, Restart

\* With a single worker, a task that is finished or given up is never taken up
\* again, and its attempts are never uncounted.
THEOREM TasksAreNeverReopened == SingleWorker => (Spec => NeverReopened)
<1> SUFFICES ASSUME SingleWorker PROVE Spec => NeverReopened
  OBVIOUS
<1>1. SingleIInv /\ [Next]_vars =>
        [\A t \in Tasks : /\ table[t].status \in Terminal => table'[t].status = table[t].status
                          /\ table'[t].attempt >= table[t].attempt]_vars
  BY StepEffect
<1> QED
  BY <1>1, SingleInvariant, PTL DEF Spec, NeverReopened

\* With a single worker, a task left in PROCESSING by a crash or a failed update
\* stays there: nothing in the code takes it up again.
THEOREM AbandonedTasksStay == SingleWorker => (Spec => AbandonedForever)
<1> SUFFICES ASSUME SingleWorker PROVE Spec => AbandonedForever
  OBVIOUS
<1>1. SingleIInv /\ [Next]_vars => [\A t \in Tasks : Abandoned(t) => Abandoned(t)']_vars
  <2> SUFFICES ASSUME SingleIInv, [Next]_vars, NEW t \in Tasks, Abandoned(t)
               PROVE  Abandoned(t)'
    OBVIOUS
  <2>1. /\ table'[t].status = table[t].status
        /\ \A v \in Workers : cur'[v] = t => cur[v] = t \/ table[t].status \in Unfinished
    BY StepEffect
  <2> QED
    BY <2>1 DEF Abandoned, Unfinished
<1> QED
  BY <1>1, SingleInvariant, PTL DEF Spec, AbandonedForever

-----------------------------------------------------------------------------
\* The refinement.

\* A step of a single worker on one task, which it may be done with afterwards.
LEMMA TaskStep ==
    ASSUME SingleWorker, SingleIInv, NEW w \in Workers, NEW t \in Tasks,
           table[t].status \in Unfinished \/ (table[t].status = "PROCESSING" /\ cur[w] = t),
           cur[w] \in {t, NoTask}, cur'[w] \in {t, NoTask},
           \/ UNCHANGED table
           \/ \E status, attempt, due : /\ status \in TaskStatus \ {"NONE"}
                                        /\ UpdateTask(t, status, attempt, due),
           UNCHANGED topic
    PROVE  [Promise!Next]_(Promise!vars)
<1>0. \A u \in Tasks : u # NoTask
  BY TasksAssumption
<1>1. \A u \in Tasks \ {t} : table'[u] = table[u]
  BY UpdateOne DEF SingleIInv
<1>2. table'[t].status # "NONE" /\ table[t].status # "NONE"
  BY UpdateOne DEF SingleIInv, Unfinished
<1>3. \A v \in Workers : v = w
  BY DEF SingleWorker
<1>4. \A u \in Tasks \ {t} : cur[w] # u /\ cur'[w] # u
  BY <1>0
<1>5. \A u \in Tasks \ {t} : Abandoned(u)' <=> Abandoned(u)
  BY <1>1, <1>3, <1>4 DEF Abandoned
<1>6. Saved' = Saved
  BY <1>1, <1>2 DEF Saved
<1>7. t \in Saved /\ t \notin Closed
  <2>1. ~Abandoned(t)
    BY DEF Abandoned, Unfinished
  <2> QED
    BY <1>2, <2>1 DEF Saved, Closed, Unfinished, Terminal
<1>8. \A u \in Tasks \ {t} : u \in Closed' <=> u \in Closed
  BY <1>1, <1>5 DEF Closed
<1>9. Closed \subseteq Tasks /\ Closed' \subseteq Tasks
  BY DEF Closed
<1>10. CASE t \in Closed'
  <2>1. Closed' = Closed \cup {t}
    BY <1>8, <1>9, <1>10
  <2> QED
    BY <1>6, <1>7, <2>1 DEF Promise!Next, Promise!Close
<1>11. CASE t \notin Closed'
  <2>1. Closed' = Closed
    BY <1>7, <1>8, <1>9, <1>11
  <2> QED
    BY <1>6, <2>1 DEF Promise!vars
<1> QED
  BY <1>10, <1>11

\* Nothing happens to any task.
LEMMA NoTaskStep ==
    ASSUME \A u \in Tasks : table'[u].status = table[u].status, UNCHANGED <<cur, topic>>
    PROVE  [Promise!Next]_(Promise!vars)
<1>1. \A u \in Tasks : Abandoned(u)' <=> Abandoned(u)
  BY DEF Abandoned
<1>2. Saved' = Saved /\ Closed' = Closed
  BY <1>1 DEF Saved, Closed
<1> QED
  BY <1>2 DEF Promise!vars

\* Every step of a single worker is a step of the promise.
LEMMA PromiseStep ==
    ASSUME SingleWorker, SingleIInv, [Next]_vars
    PROVE  [Promise!Next]_(Promise!vars)
<1>0. \A u \in Tasks : u # NoTask
  BY TasksAssumption
<1>1. ASSUME NEW t \in Tasks, SaveLog(t) PROVE [Promise!Next]_(Promise!vars)
  <2>1. /\ UpdateTask(t, "CREATED", 0, TRUE) /\ table[t].status = "NONE"
        /\ UNCHANGED <<cur, topic>>
    BY <1>1 DEF SaveLog
  <2>2. table'[t].status = "CREATED" /\ \A u \in Tasks \ {t} : table'[u] = table[u]
    BY <2>1, UpdateOne DEF SingleIInv
  <2>3. t \notin Saved /\ Saved' = Saved \cup {t}
    BY <2>1, <2>2 DEF Saved
  <2>4. \A u \in Tasks : Abandoned(u)' <=> Abandoned(u)
    BY <2>1, <2>2 DEF Abandoned
  <2>5. Closed' = Closed
    BY <2>1, <2>2, <2>4 DEF Closed, Terminal
  <2> QED
    BY <2>1, <2>3, <2>5 DEF Promise!Next, Promise!Save
<1>2. ASSUME NEW t \in Tasks, RetryDue(t) PROVE [Promise!Next]_(Promise!vars)
  <2>1. UpdateTask(t, table[t].status, table[t].attempt, TRUE) /\ UNCHANGED <<cur, topic>>
    BY <1>2 DEF RetryDue
  <2>2. \A u \in Tasks : table'[u].status = table[u].status
    BY <2>1, UpdateOne DEF SingleIInv
  <2> QED
    BY <2>1, <2>2, NoTaskStep
<1>3. ASSUME NEW w \in Workers, FetchPendingTasks(w) \/ CommitFetch(w)
      PROVE  [Promise!Next]_(Promise!vars)
  BY <1>3, NoTaskStep DEF FetchPendingTasks, CommitFetch
<1>4. ASSUME NEW w \in Workers, Forget(w) PROVE [Promise!Next]_(Promise!vars)
  <2>1. UNCHANGED <<table, topic>> /\ cur' = [cur EXCEPT ![w] = NoTask]
    BY <1>4 DEF Forget
  <2>2. cur \in [Workers -> Tasks \cup {NoTask}] /\ cur'[w] = NoTask
    BY <2>1 DEF SingleIInv, IInv, TypeOK
  <2>3. CASE pc[w] \in TaskPCs
    <3>1. cur[w] \in Tasks /\ table[cur[w]].status = "PROCESSING"
      BY <2>3, CurrentTask
    <3> QED
      BY <2>1, <2>2, <3>1, TaskStep
  <2>4. CASE pc[w] \notin TaskPCs
    <3>1. cur[w] = NoTask
      BY <2>4 DEF SingleIInv, IInv, WorkerConsistent
    <3>2. cur' = cur
      BY <2>1, <2>2, <3>1
    <3> QED
      BY <2>1, <3>2, NoTaskStep
  <2> QED
    BY <2>3, <2>4
<1>5. ASSUME NEW w \in Workers, SendTransactional(w) PROVE [Promise!Next]_(Promise!vars)
  <2>1. /\ pc[w] \in TaskPCs /\ UNCHANGED <<table, cur>>
        /\ topic' = topic \/ topic' = Published(cur[w])
    BY <1>5 DEF SendTransactional, TaskPCs
  <2>2. cur[w] \in Tasks /\ table[cur[w]].status = "PROCESSING"
    BY <2>1, CurrentTask
  <2>3. cur[w] \in Saved /\ cur[w] \notin Closed
    BY <2>2 DEF Saved, Closed, Abandoned, Terminal
  <2>4. Saved' = Saved /\ Closed' = Closed
    BY <2>1 DEF Saved, Closed, Abandoned
  <2>5. CASE topic' = topic
    BY <2>4, <2>5 DEF Promise!vars
  <2>6. CASE topic' = Published(cur[w])
    BY <2>2, <2>3, <2>4, <2>6 DEF Promise!Next, Promise!Send, Published
  <2> QED
    BY <2>1, <2>5, <2>6
<1>6. ASSUME NEW w \in Workers, NEW t \in Tasks, MarkProcessing(w, t) \/ MarkFails(w, t)
      PROVE  [Promise!Next]_(Promise!vars)
  <2>1. /\ First(w, t) /\ UNCHANGED topic
        /\ UNCHANGED table \/ UpdateTask(t, "PROCESSING", snap[w][t], TRUE)
        /\ cur' = [cur EXCEPT ![w] = t] \/ cur' = [cur EXCEPT ![w] = NoTask]
    BY <1>6 DEF MarkProcessing, MarkFails, NextTask
  <2>2. table[t].status \in Unfinished
    BY <2>1, FirstTask
  <2>3. cur[w] = NoTask
    BY <2>1 DEF First, SingleIInv, IInv, WorkerConsistent, TaskPCs
  <2>4. cur'[w] \in {t, NoTask}
    BY <2>1 DEF SingleIInv, IInv, TypeOK
  <2>5. \/ UNCHANGED table
        \/ \E status, attempt, due : /\ status \in TaskStatus \ {"NONE"}
                                     /\ UpdateTask(t, status, attempt, due)
    BY <2>1 DEF TaskStatus
  <2> QED
    BY <2>1, <2>2, <2>3, <2>4, <2>5, TaskStep
<1>7. ASSUME NEW w \in Workers, RecordFinished(w) \/ RecordFailed(w) \/ RecordFails(w)
      PROVE  [Promise!Next]_(Promise!vars)
  <2>1. pc[w] \in TaskPCs /\ cur' = [cur EXCEPT ![w] = NoTask] /\ UNCHANGED topic
    BY <1>7 DEF RecordFinished, RecordFailed, RecordAttempt, RecordFails, NextTask, TaskPCs
  <2>2. cur[w] \in Tasks /\ table[cur[w]].status = "PROCESSING"
    BY <2>1, CurrentTask
  <2>3. cur'[w] = NoTask
    BY <2>1 DEF SingleIInv, IInv, TypeOK
  <2>4. \/ UNCHANGED table
        \/ \E status, attempt, due : /\ status \in TaskStatus \ {"NONE"}
                                     /\ UpdateTask(cur[w], status, attempt, due)
    BY <1>7 DEF RecordFinished, RecordFailed, RecordAttempt, RecordFails, TaskStatus, Unfinished, Terminal
  <2> QED
    BY <2>1, <2>2, <2>3, <2>4, TaskStep
<1>8. CASE UNCHANGED vars
  BY <1>8, NoTaskStep DEF vars
<1> QED
  BY <1>1, <1>2, <1>3, <1>4, <1>5, <1>6, <1>7, <1>8 DEF Next, FetchFails, Restart

\* A single worker implements the promise of the outbox: a task that is finished,
\* given up or abandoned is not sent again.
THEOREM WorkerKeepsPromise == SingleWorker => (Spec => KeepsPromise)
<1> SUFFICES ASSUME SingleWorker PROVE Spec => KeepsPromise
  OBVIOUS
<1>1. Init => Promise!Init
  <2> SUFFICES ASSUME Init PROVE Promise!Init
    OBVIOUS
  <2>1. Saved = {} /\ Closed = {}
    BY DEF Init, Saved, Closed, Abandoned, Terminal
  <2> QED
    BY <2>1 DEF Init, Promise!Init
<1>2. SingleIInv /\ [Next]_vars => [Promise!Next]_(Promise!vars)
  BY PromiseStep
<1> QED
  BY <1>1, <1>2, SingleInvariant, PTL DEF Spec, KeepsPromise, Promise!Spec

=============================================================================
