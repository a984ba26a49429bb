------------------------------- MODULE Outbox -------------------------------
(***************************************************************************)
(* The outbox: the table "audit_tasks" and the workers that move its rows   *)
(* to the Kafka topic "audit_logs" (internal/audit/outbox_worker.go and the *)
(* SQL of internal/storage/postgres/auditlogstorage).                       *)
(*                                                                         *)
(* Every API process runs one worker.  A worker works on a copy of the rows *)
(* it has fetched: the row locks of the fetch are gone before the first of  *)
(* them is processed.                                                       *)
(*                                                                         *)
(* A task is named by its created_at, which orders the fetch; the clock is  *)
(* abstracted to whether next_retry has passed.                             *)
(***************************************************************************)
EXTENDS Naturals, FiniteSets

CONSTANTS
    Tasks,         \* the tasks that may be saved, by created_at
    Workers,
    BatchSize,     \* batchSize, LIMIT of the fetch
    MaxAttempts,   \* maxAttempts of the worker, and the 3 in the fetch's WHERE
    NoTask         \* the worker is between two tasks

ASSUME TasksAssumption == Tasks \subseteq Nat /\ NoTask \notin Tasks
ASSUME LimitsAssumption == BatchSize \in Nat \ {0} /\ MaxAttempts \in Nat \ {0}

VARIABLES
    table,   \* task -> its row
    topic,   \* task -> number of committed records that carry it
    pc,      \* worker -> its next step
    todo,    \* worker -> the fetched tasks it still has to process
    cur,     \* worker -> the task it is processing
    snap     \* worker -> task -> attempt_number, as fetched

vars == <<table, topic, pc, todo, cur, snap>>

\* "NONE" is the status of a task that is not in the table (yet).
Unfinished == {"CREATED", "FAILED"}
Terminal   == {"FINISHED", "NO_ATTEMPTS_LEFT"}
TaskStatus == {"NONE", "PROCESSING"} \cup Unfinished \cup Terminal

Row == [status : TaskStatus, attempt : 0..MaxAttempts, due : BOOLEAN]

\* Steps at which a worker is in the middle of processTask.
TaskPCs == {"send", "sent", "failed"}

TypeOK ==
    /\ table \in [Tasks -> Row]
    /\ topic \in [Tasks -> Nat]
    /\ pc    \in [Workers -> {"ready", "fetching"} \cup TaskPCs]
    /\ todo  \in [Workers -> SUBSET Tasks]
    /\ cur   \in [Workers -> Tasks \cup {NoTask}]
    /\ snap  \in [Workers -> [Tasks -> 0..MaxAttempts]]

Init ==
    /\ table = [t \in Tasks |-> [status |-> "NONE", attempt |-> 0, due |-> TRUE]]
    /\ topic = [t \in Tasks |-> 0]
    /\ pc    = [w \in Workers |-> "ready"]
    /\ todo  = [w \in Workers |-> {}]
    /\ cur   = [w \in Workers |-> NoTask]
    /\ snap  = [w \in Workers |-> [t \in Tasks |-> 0]]

-----------------------------------------------------------------------------
\* The rows of the table.

\* Writes a row as a whole, whatever it is by now.
UpdateTask(t, status, attempt, due) ==
    table' = [table EXCEPT ![t] = [status |-> status, attempt |-> attempt, due |-> due]]

\* The audit pipeline saves an event, in whatever order its goroutines run.
SaveLog(t) ==
    /\ table[t].status = "NONE"
    /\ UpdateTask(t, "CREATED", 0, TRUE)
    /\ UNCHANGED <<topic, pc, todo, cur, snap>>

\* next_retry passes.
RetryDue(t) ==
    /\ ~table[t].due
    /\ UpdateTask(t, table[t].status, table[t].attempt, TRUE)
    /\ UNCHANGED <<topic, pc, todo, cur, snap>>

-----------------------------------------------------------------------------
\* processBatch: fetch.

\* FOR UPDATE: another worker's fetch has the row.  A fetch skips it, an update waits.
Locked(w, t) == \E v \in Workers \ {w} : pc[v] = "fetching" /\ t \in todo[v]

\* Mutant: the status is not part of the WHERE clause.
PendingAnyStatus(t) == /\ table[t].status # "NONE"
                       /\ table[t].due
                       /\ table[t].attempt < MaxAttempts

\* Mutant: the last attempt is not made.
PendingButLast(t) == /\ table[t].status \in Unfinished
                     /\ table[t].due
                     /\ table[t].attempt + 1 < MaxAttempts

\* The WHERE clause of the fetch.
Pending(t) == /\ table[t].status \in Unfinished
              /\ table[t].due
              /\ table[t].attempt < MaxAttempts

\* ORDER BY created_at LIMIT BatchSize.
IsOldest(batch, tasks) ==
    /\ batch \subseteq tasks
    /\ \A t \in batch, u \in tasks \ batch : t < u
    /\ IF Cardinality(tasks) < BatchSize THEN batch = tasks
                                         ELSE Cardinality(batch) = BatchSize

\* The ticker fires and the transaction selects its rows, past the locked ones.
FetchPendingTasks(w) ==
    /\ pc[w] = "ready" /\ todo[w] = {}
    /\ \E batch \in (SUBSET Tasks) \ {{}} :
           /\ IsOldest(batch, {t \in Tasks : Pending(t) /\ ~Locked(w, t)})
           /\ todo' = [todo EXCEPT ![w] = batch]
           /\ snap' = [snap EXCEPT ![w] = [t \in Tasks |-> IF t \in batch
                                                           THEN table[t].attempt ELSE 0]]
    /\ pc' = [pc EXCEPT ![w] = "fetching"]
    /\ UNCHANGED <<table, topic, cur>>

\* The transaction is committed at once, which unlocks the rows.
CommitFetch(w) ==
    /\ pc[w] = "fetching"
    /\ pc' = [pc EXCEPT ![w] = "ready"]
    /\ UNCHANGED <<table, topic, todo, cur, snap>>

\* The worker starts over with nothing fetched.
Forget(w) ==
    /\ pc'   = [pc EXCEPT ![w] = "ready"]
    /\ todo' = [todo EXCEPT ![w] = {}]
    /\ cur'  = [cur EXCEPT ![w] = NoTask]
    /\ snap' = [snap EXCEPT ![w] = [t \in Tasks |-> 0]]
    /\ UNCHANGED <<table, topic>>

FetchFails(w) == pc[w] = "fetching" /\ Forget(w)

-----------------------------------------------------------------------------
\* processTask, for one task after the other.

\* Errors are logged, and the loop goes on with the next task.
NextTask(w, t) ==
    /\ pc'   = [pc EXCEPT ![w] = "ready"]
    /\ todo' = [todo EXCEPT ![w] = todo[w] \ {t}]
    /\ cur'  = [cur EXCEPT ![w] = NoTask]
    /\ snap' = [snap EXCEPT ![w][t] = 0]

First(w, t) == /\ pc[w] = "ready"
               /\ t \in todo[w]
               /\ \A u \in todo[w] : t <= u
               /\ ~Locked(w, t)

MarkProcessing(w, t) ==
    /\ First(w, t)
    /\ UpdateTask(t, "PROCESSING", snap[w][t], TRUE)
    /\ pc'  = [pc EXCEPT ![w] = "send"]
    /\ cur' = [cur EXCEPT ![w] = t]
    /\ UNCHANGED <<topic, todo, snap>>

\* The update fails, or only its acknowledgement is lost.
MarkFails(w, t) ==
    /\ First(w, t)
    /\ UNCHANGED table \/ UpdateTask(t, "PROCESSING", snap[w][t], TRUE)
    /\ NextTask(w, t)
    /\ UNCHANGED topic

Published(t) == [topic EXCEPT ![t] = topic[t] + 1]

\* Mutant: the error of the commit is not returned.
SendUnchecked(w) ==
    /\ pc[w] = "send"
    /\ topic' \in {topic, Published(cur[w])}
    /\ pc' = [pc EXCEPT ![w] = "sent"]
    /\ UNCHANGED <<table, todo, cur, snap>>

\* One record in a Kafka transaction of its own.  A send that reports an error may
\* have been committed: the answer to the commit came after the 2 seconds.
SendTransactional(w) ==
    /\ pc[w] = "send"
    /\ \/ /\ topic' = Published(cur[w])
          /\ pc' = [pc EXCEPT ![w] = "sent"]
       \/ /\ topic' \in {topic, Published(cur[w])}
          /\ pc' = [pc EXCEPT ![w] = "failed"]
    /\ UNCHANGED <<table, todo, cur, snap>>

RecordFinished(w) ==
    /\ pc[w] = "sent"
    /\ ~Locked(w, cur[w])
    /\ UpdateTask(cur[w], "FINISHED", snap[w][cur[w]], TRUE)
    /\ NextTask(w, cur[w])
    /\ UNCHANGED topic

\* A failed attempt: the task is tried again later, up to the limit.
RecordAttempt(w, attempt, limit) ==
    /\ pc[w] = "failed"
    /\ ~Locked(w, cur[w])
    /\ UpdateTask(cur[w], IF attempt >= limit THEN "NO_ATTEMPTS_LEFT" ELSE "FAILED",
                  attempt, FALSE)
    /\ NextTask(w, cur[w])
    /\ UNCHANGED topic

\* Mutants: the attempt is not counted, or one more is allowed.
AttemptUncounted(w) == RecordAttempt(w, snap[w][cur[w]], MaxAttempts)
AttemptTooMany(w)   == RecordAttempt(w, snap[w][cur[w]] + 1, MaxAttempts + 1)

RecordFailed(w) == RecordAttempt(w, snap[w][cur[w]] + 1, MaxAttempts)

\* The outcome is not written, and the row stays as it is: PROCESSING.
RecordFails(w) ==
    /\ pc[w] \in {"sent", "failed"}
    /\ NextTask(w, cur[w])
    /\ UNCHANGED <<table, topic>>

\* The process dies or shuts down, and comes back.
Restart(w) ==
    /\ pc[w] # "ready" \/ todo[w] # {}
    /\ Forget(w)

-----------------------------------------------------------------------------

Next ==
    \/ \E t \in Tasks : SaveLog(t) \/ RetryDue(t)
    \/ \E w \in Workers : \/ FetchPendingTasks(w) \/ CommitFetch(w) \/ FetchFails(w)
                          \/ \E t \in Tasks : MarkProcessing(w, t) \/ MarkFails(w, t)
                          \/ SendTransactional(w)
                          \/ RecordFinished(w) \/ RecordFailed(w) \/ RecordFails(w)
                          \/ Restart(w)

Spec == Init /\ [][Next]_vars

(***************************************************************************)
(* Fairness: time passes, the ticker fires, Kafka answers or times out, and *)
(* a fetch or an update that is tried again and again succeeds at last: the *)
(* database is not down forever and the process is not killed at the same   *)
(* point forever.                                                           *)
(***************************************************************************)
Fairness ==
    /\ \A t \in Tasks : WF_vars(RetryDue(t))
    /\ \A w \in Workers :
           /\ SF_vars(FetchPendingTasks(w))
           /\ SF_vars(CommitFetch(w))
           /\ \A t \in Tasks : SF_vars(MarkProcessing(w, t))
           /\ WF_vars(SendTransactional(w))
           /\ WF_vars(RecordFinished(w) \/ RecordFailed(w) \/ RecordFails(w))

FairSpec == Spec /\ Fairness

-----------------------------------------------------------------------------
(***************************************************************************)
(* Properties of any number of workers.                                     *)
(***************************************************************************)

\* A finished task is in the topic, whatever crashed, failed or overlapped.
FinishedIsPublished ==
    \A t \in Tasks : table[t].status = "FINISHED" => topic[t] > 0

\* No row is left in a status that says it is to be sent and with an attempt_number
\* that keeps the fetch from ever finding it, nor given up before its attempts are
\* used up.
AttemptsMatchStatus ==
    \A t \in Tasks : /\ table[t].status \in Unfinished => table[t].attempt < MaxAttempts
                     /\ table[t].status = "NO_ATTEMPTS_LEFT" <=> table[t].attempt = MaxAttempts

(***************************************************************************)
(* Properties of a single worker.                                           *)
(***************************************************************************)

\* The topic never holds more copies of a task than attempts were made, and
\* attempts are counted: an uncounted one is only the one in progress, or the
\* last.  In particular a task is never published more than MaxAttempts times.
CopiesCounted ==
    \A t \in Tasks :
        topic[t] <= IF table[t].status \in {"PROCESSING", "FINISHED"}
                    THEN table[t].attempt + 1
                    ELSE table[t].attempt

\* A task that is finished or given up is never touched again, and attempts are
\* never uncounted.
NeverReopened ==
    [][\A t \in Tasks : /\ table[t].status \in Terminal => table'[t].status = table[t].status
                        /\ table'[t].attempt >= table[t].attempt]_vars

\* A row is PROCESSING, and nobody processes it.
Abandoned(t) ==
    /\ table[t].status = "PROCESSING"
    /\ \A w \in Workers : cur[w] # t

\* An abandoned task stays abandoned: no fetch finds it, no worker has a copy.
AbandonedForever == [][\A t \in Tasks : Abandoned(t) => Abandoned(t)']_vars

\* Every saved task is finished, is given up after MaxAttempts, or is abandoned by
\* a worker that died or lost the database between its two updates.
Settled ==
    \A t \in Tasks : (table[t].status # "NONE") ~>
                     (table[t].status \in Terminal \/ Abandoned(t))

Saved  == {t \in Tasks : table[t].status # "NONE"}
Closed == {t \in Tasks : table[t].status \in Terminal \/ Abandoned(t)}

Promise == INSTANCE OutboxPromise WITH stored <- Saved, copies <- topic, closed <- Closed

\* A worker alone keeps the promise of the outbox: by none of its retries, failed
\* updates and restarts is a task sent that was finished, given up or abandoned.
KeepsPromise == Promise!Spec

(***************************************************************************)
(* Inductive invariants.                                                    *)
(***************************************************************************)

\* A worker in processTask has its task, only tasks with an attempt left are
\* fetched, and a send that succeeded is in the topic.
WorkerConsistent(w) ==
    /\ IF pc[w] \in TaskPCs THEN cur[w] \in todo[w] ELSE cur[w] = NoTask
    /\ \A t \in todo[w] : snap[w][t] < MaxAttempts
    /\ pc[w] = "sent" => topic[cur[w]] > 0

\* For any number of workers.
IInv ==
    /\ TypeOK
    /\ FinishedIsPublished
    /\ AttemptsMatchStatus
    /\ \A w \in Workers : WorkerConsistent(w)

\* What a worker alone can rely on: the rows it has fetched are as it fetched them,
\* and the one it is processing says so.
CopyCurrent(w) ==
    /\ \A t \in todo[w] :
           /\ table[t].attempt = snap[w][t]
           /\ IF t = cur[w] THEN table[t].status = "PROCESSING"
                            ELSE table[t].status \in Unfinished
    /\ pc[w] = "send" => topic[cur[w]] <= snap[w][cur[w]]

\* A task that is not saved yet has no attempts.
NotTriedUnsaved == \A t \in Tasks : table[t].status = "NONE" => table[t].attempt = 0

SingleWorker == \A v, w \in Workers : v = w

\* For a single worker.
SingleIInv ==
    /\ IInv
    /\ CopiesCounted
    /\ NotTriedUnsaved
    /\ \A w \in Workers : CopyCurrent(w)

=============================================================================
