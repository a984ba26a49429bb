-------------------------- MODULE OrderCacheProofs --------------------------
(***************************************************************************)
(* Theorems about OrderCache, for any orders, users and tasks, with and     *)
(* without failures.                                                        *)
(***************************************************************************)
EXTENDS OrderCache, TLAPS

-----------------------------------------------------------------------------
\* Jobs.

\* An order that was never accepted is an order.
LEMMA NoOrderType ==
    NoOrder \in Order /\ NoOrder.gen = 0 /\ NoOrder.dates = {} /\ ~NoOrder.early
<1>1. (CHOOSE u \in Users : TRUE) \in Users
  BY IdsAssumption
<1> QED
  BY <1>1 DEF NoOrder, Order

\* The job of an idle task is a job that holds no order.
LEMMA NoJobType ==
    /\ NoJob \in Job /\ NoJob.todo = {} /\ NoJob.got = [id \in OrderIDs |-> NoOrder]
    /\ NoJob.got \in [OrderIDs -> Order]
    /\ \A id \in OrderIDs : NoJob.got[id].gen = 0 /\ NoJob.got[id].dates = {}
<1>1. (CHOOSE id \in OrderIDs : TRUE) \in OrderIDs
  BY IdsAssumption
<1> QED
  BY <1>1, NoOrderType DEF NoJob, Job, Keys

\* The parts of a job, and jobs that differ in one of them.
LEMMA JobWith ==
    ASSUME NEW j \in Job
    PROVE  /\ j.id \in OrderIDs /\ j.key \in Keys /\ j.ids \in SUBSET OrderIDs
           /\ j.todo \in SUBSET OrderIDs /\ j.got \in [OrderIDs -> Order]
           /\ \A id \in OrderIDs : [j EXCEPT !.id = id] \in Job /\ [j EXCEPT !.id = id].got = j.got
           /\ \A ids \in SUBSET OrderIDs :
                  /\ [j EXCEPT !.ids = ids] \in Job /\ [j EXCEPT !.ids = ids].got = j.got
                  /\ [j EXCEPT !.todo = ids] \in Job /\ [j EXCEPT !.todo = ids].got = j.got
                  /\ [j EXCEPT !.todo = ids, !.ids = {}] \in Job
                  /\ [j EXCEPT !.todo = ids, !.ids = {}].got = j.got
BY DEF Job

\* What a call starts with.
LEMMA JobFor ==
    /\ \A op \in {"read", "refresh", "init"}, k \in Keys :
           /\ [NoJob EXCEPT !.op = op, !.key = k] \in Job
           /\ [NoJob EXCEPT !.op = op, !.key = k].got = NoJob.got
    /\ \A op \in {"issue", "refund"}, ids \in SUBSET OrderIDs :
           /\ [NoJob EXCEPT !.op = op, !.todo = ids] \in Job
           /\ [NoJob EXCEPT !.op = op, !.todo = ids].got = NoJob.got
           /\ [NoJob EXCEPT !.op = op, !.todo = ids].todo = ids
    /\ \A op \in {"return"}, id \in OrderIDs, k \in Keys :
           /\ [NoJob EXCEPT !.op = op, !.id = id, !.key = k] \in Job
           /\ [NoJob EXCEPT !.op = op, !.id = id, !.key = k].got = NoJob.got
<1> DEFINE n == NoJob
<1>1. n \in Job
  BY NoJobType
<1> HIDE DEF n
<1>2. /\ \A op \in {"read", "refresh", "init"}, k \in Keys :
             /\ [n EXCEPT !.op = op, !.key = k] \in Job
             /\ [n EXCEPT !.op = op, !.key = k].got = n.got
      /\ \A op \in {"issue", "refund"}, ids \in SUBSET OrderIDs :
             /\ [n EXCEPT !.op = op, !.todo = ids] \in Job
             /\ [n EXCEPT !.op = op, !.todo = ids].got = n.got
             /\ [n EXCEPT !.op = op, !.todo = ids].todo = ids
      /\ \A op \in {"return"}, id \in OrderIDs, k \in Keys :
             /\ [n EXCEPT !.op = op, !.id = id, !.key = k] \in Job
             /\ [n EXCEPT !.op = op, !.id = id, !.key = k].got = n.got
  BY <1>1 DEF Job
<1> QED
  BY <1>2 DEF n

-----------------------------------------------------------------------------
\* What a step changes.

\* A task goes on, with a job that the table allows.
GoesOn(t) == \E l \in TaskPCs, j \in Job : Goto(t, l, j) /\ JobConsistent(l, j)

\* The parts of the table are typed.
TableOK ==
    /\ row      \in [OrderIDs -> Order]
    /\ \A id \in OrderIDs : row[id].dates \in {{}, {"stored_at"}, {"stored_at", "issued_at"}, Dates}
    /\ \A id \in OrderIDs : row[id].early => "issued_at" \in row[id].dates
    /\ past     \in SUBSET (OrderIDs \X Nat \X Deadlines)
    /\ issued   \in [OrderIDs -> Nat]
    /\ refunded \in [OrderIDs -> Nat]
    /\ torn     \in SUBSET OrderIDs

\* The tasks are typed and hold nothing that is ahead of the table.
TasksOK ==
    /\ pc  \in [Tasks -> TaskPCs]
    /\ job \in [Tasks -> Job]
    /\ \A t \in Tasks : JobConsistent(pc[t], job[t])

\* The cache is typed and holds nothing that is ahead of the table, and without a TTL
\* only what is over.
EntriesOK == entry \in [OrderIDs -> Entry \cup {NoEntry}] /\ NeverAhead /\ KeptIsOver

\* The invariant, by the parts of the state.
LEMMA InvParts ==
    IInv <=> /\ TableOK /\ \A id \in OrderIDs : RowConsistent(id)
             /\ EntriesOK
             /\ index \in [Keys -> SUBSET OrderIDs]
             /\ TasksOK
BY DEF IInv, TypeOK, TableOK, EntriesOK, TasksOK

\* The same after a step.
LEMMA InvPartsNext ==
    IInv' <=> /\ TableOK' /\ \A id \in OrderIDs : RowConsistent(id)'
              /\ EntriesOK'
              /\ index' \in [Keys -> SUBSET OrderIDs]
              /\ TasksOK'
BY DEF IInv, TypeOK, TableOK, EntriesOK, TasksOK

\* Nothing has changed in the table.
LEMMA TableKept ==
    ASSUME UNCHANGED db
    PROVE  /\ TableOK => TableOK'
           /\ \A id \in OrderIDs : RowConsistent(id) => RowConsistent(id)'
           /\ \A id, o : Reached(id, o)' <=> Reached(id, o)
           /\ \A l, j : JobConsistent(l, j)' <=> JobConsistent(l, j)
<1> USE DEF db
<1>1. \A id, o : Reached(id, o)' <=> Reached(id, o)
  BY DEF Reached
<1>2. \A id : WasIssued(id)' <=> WasIssued(id)
  BY DEF WasIssued
<1>3. \A l, j : JobConsistent(l, j)' <=> JobConsistent(l, j)
  BY <1>1, <1>2 DEF JobConsistent
<1>4. \A id \in OrderIDs : RowConsistent(id) => RowConsistent(id)'
  BY DEF RowConsistent
<1>5. TableOK => TableOK'
  BY DEF TableOK
<1> QED
  BY <1>1, <1>3, <1>4, <1>5

\* A task goes on.
LEMMA TaskGoesOn ==
    ASSUME TasksOK, UNCHANGED db, NEW t \in Tasks, GoesOn(t)
    PROVE  TasksOK'
<1>1. PICK l \in TaskPCs, j \in Job : Goto(t, l, j) /\ JobConsistent(l, j)
  BY DEF GoesOn
<1>2. /\ pc' \in [Tasks -> TaskPCs] /\ job' \in [Tasks -> Job]
      /\ pc'[t] = l /\ job'[t] = j
      /\ \A x \in Tasks \ {t} : pc'[x] = pc[x] /\ job'[x] = job[x]
  BY <1>1 DEF Goto, TasksOK
<1>3. \A x \in Tasks : JobConsistent(pc'[x], job'[x])
  BY <1>1, <1>2 DEF TasksOK
<1>4. \A x \in Tasks : JobConsistent(pc[x], job[x])'
  BY <1>3 DEF JobConsistent, Reached, WasIssued, db
<1> QED
  BY <1>2, <1>4 DEF TasksOK

\* Tasks that do not move.
LEMMA TasksRest ==
    ASSUME TasksOK, UNCHANGED <<db, pc, job>>
    PROVE  TasksOK'
<1>1. \A x \in Tasks : JobConsistent(pc[x], job[x])'
  BY DEF TasksOK, JobConsistent, Reached, WasIssued, db
<1> QED
  BY <1>1 DEF TasksOK

\* Entries that do not change.
LEMMA EntriesRest ==
    ASSUME EntriesOK, UNCHANGED <<db, entry>>
    PROVE  EntriesOK'
BY DEF EntriesOK, NeverAhead, KeptIsOver, Reached, db

\* Cache entries go, or are replaced by an order that the table has reached.
LEMMA EntryChanges ==
    ASSUME EntriesOK, UNCHANGED db, NEW id \in OrderIDs,
           \/ entry' = [entry EXCEPT ![id] = NoEntry]
           \/ \E o \in Order, kept \in BOOLEAN :
                  /\ entry' = [entry EXCEPT ![id] = Cached(o, kept)]
                  /\ Reached(id, o)
                  /\ kept => o.gen <= refunded[id] \/ <<id, o.gen, Deadline(o)>> \in past
    PROVE  EntriesOK'
<1>1. CASE entry' = [entry EXCEPT ![id] = NoEntry]
  <2>1. entry' \in [OrderIDs -> Entry \cup {NoEntry}] /\ entry'[id] = NoEntry
        /\ \A x \in OrderIDs \ {id} : entry'[x] = entry[x]
    BY <1>1 DEF EntriesOK
  <2> QED
    BY <2>1 DEF EntriesOK, NeverAhead, KeptIsOver, Reached, db
<1>2. ASSUME NEW o \in Order, NEW kept \in BOOLEAN,
             entry' = [entry EXCEPT ![id] = Cached(o, kept)], Reached(id, o),
             kept => o.gen <= refunded[id] \/ <<id, o.gen, Deadline(o)>> \in past
      PROVE  EntriesOK'
  <2>1. /\ Cached(o, kept) \in Entry
        /\ Cached(o, kept).gen = o.gen /\ Cached(o, kept).dates = o.dates /\ Cached(o, kept).kept = kept
        /\ Cached(o, kept).owner = o.owner /\ Cached(o, kept).early = o.early
    BY DEF Cached, Entry, Order
  <2>2. /\ entry' \in [OrderIDs -> Entry \cup {NoEntry}] /\ entry'[id] = Cached(o, kept)
        /\ \A x \in OrderIDs \ {id} : entry'[x] = entry[x]
    BY <1>2, <2>1 DEF EntriesOK
  <2>3. Deadline(Cached(o, kept)) = Deadline(o)
    BY <2>1 DEF Deadline
  <2>4. NeverAhead'
    BY <1>2, <2>1, <2>2 DEF EntriesOK, NeverAhead, Reached, db
  <2>5. KeptIsOver'
    BY <1>2, <2>1, <2>2, <2>3 DEF EntriesOK, KeptIsOver, db
  <2> QED
    BY <2>2, <2>4, <2>5 DEF EntriesOK
<1> QED
  BY <1>1, <1>2

\* A task goes on and the cached orders are as before.
LEMMA QuietInv ==
    ASSUME IInv, UNCHANGED <<db, entry>>, index' \in [Keys -> SUBSET OrderIDs],
           NEW t \in Tasks, GoesOn(t)
    PROVE  IInv'
BY InvParts, InvPartsNext, TableKept, EntriesRest, TaskGoesOn

\* A task goes on and changes what is cached of an order.
LEMMA EntryInv ==
    ASSUME IInv, UNCHANGED <<db, index>>, NEW t \in Tasks, GoesOn(t), EntriesOK'
    PROVE  IInv'
BY InvParts, InvPartsNext, TableKept, TaskGoesOn

-----------------------------------------------------------------------------
\* How tasks go on.

\* The steps other than those of the loop of IssueOrders.
Quiet == TaskPCs \ {"issue_get", "issue_set"}

\* The empty hands of a task.
LEMMA NothingGot ==
    ASSUME TableOK
    PROVE  \A id \in OrderIDs : Reached(id, NoJob.got[id])
<1>1. \A id \in OrderIDs : row[id].gen \in Nat
  BY DEF TableOK, Order
<1> QED
  BY <1>1, NoJobType DEF Reached

\* A task goes on with the orders it has, or with none.
LEMMA GoOn ==
    ASSUME IInv, NEW t \in Tasks, NEW l \in Quiet, NEW j \in Job, Goto(t, l, j),
           j.got = NoJob.got \/ j.got = job[t].got
    PROVE  GoesOn(t)
<1>1. TableOK /\ TasksOK
  BY InvParts
<1>2. \A id \in OrderIDs : Reached(id, j.got[id])
  BY <1>1, NothingGot DEF TasksOK, JobConsistent
<1> QED
  BY <1>2 DEF GoesOn, JobConsistent, Quiet

\* A task has an order more.
LEMMA GoOnWith ==
    ASSUME IInv, NEW t \in Tasks, NEW l \in Quiet, NEW j \in Job, Goto(t, l, j),
           NEW id \in OrderIDs, Reached(id, j.got[id]),
           \A x \in OrderIDs \ {id} : j.got[x] = job[t].got[x]
    PROVE  GoesOn(t)
<1>1. \A x \in OrderIDs : Reached(x, j.got[x])
  BY InvParts DEF TasksOK, JobConsistent
<1> QED
  BY <1>1 DEF GoesOn, JobConsistent, Quiet

\* A task ends.
LEMMA FinishGoesOn ==
    ASSUME IInv, NEW t \in Tasks, Finish(t)
    PROVE  GoesOn(t)
BY GoOn, NoJobType DEF Finish, Quiet, TaskPCs

\* The rest of a loop.
LEMMA DoneGoesOn ==
    ASSUME IInv, NEW t \in Tasks, NEW id, NEW l \in {"issue_get", "refund_evict", "read_get"},
           Done(t, id, l), l = "issue_get" => pc[t] \in {"issue_get", "issue_set"}
    PROVE  GoesOn(t)
<1> DEFINE rest == job[t].todo \ {id}
           j    == [job[t] EXCEPT !.todo = rest, !.got = NoJob.got]
<1>1. TableOK /\ TasksOK /\ job[t] \in Job
  BY InvParts DEF TasksOK
<1>2. rest \in SUBSET OrderIDs /\ rest \subseteq job[t].todo
  BY <1>1, JobWith
<1>3. j \in Job /\ j.got = NoJob.got /\ j.todo = rest
  <2> DEFINE none == NoJob.got
  <2>1. none \in [OrderIDs -> Order]
    BY NoJobType
  <2> HIDE DEF none
  <2>2. \A ids \in SUBSET OrderIDs : /\ [job[t] EXCEPT !.todo = ids, !.got = none] \in Job
                                    /\ [job[t] EXCEPT !.todo = ids, !.got = none].got = none
                                    /\ [job[t] EXCEPT !.todo = ids, !.got = none].todo = ids
    BY <1>1, <2>1 DEF Job
  <2> QED
    BY <1>2, <2>2, Zenon DEF none
<1>4. rest = {} => GoesOn(t)
  BY FinishGoesOn DEF Done
<1>5. rest # {} => Goto(t, l, j)
  BY DEF Done
<1> HIDE DEF rest, j
<1>6. \A x \in OrderIDs : Reached(x, j.got[x])
  BY <1>1, <1>3, NothingGot
<1>7. l = "issue_get" => \A x \in j.todo : WasIssued(x)
  BY <1>1, <1>2, <1>3 DEF TasksOK, JobConsistent
<1> QED
  BY <1>3, <1>4, <1>5, <1>6, <1>7 DEF GoesOn, JobConsistent, TaskPCs

\* After the commands for an index.
LEMMA AfterUpdateGoesOn ==
    ASSUME IInv, NEW t \in Tasks, AfterUpdate(t)
    PROVE  GoesOn(t)
<1>1. job[t] \in Job
  BY InvParts DEF TasksOK
<1>2. CASE Goto(t, "read_get", [job[t] EXCEPT !.todo = job[t].ids, !.ids = {}])
  BY <1>1, <1>2, JobWith, GoOn DEF Quiet, TaskPCs
<1>3. CASE Goto(t, "init_find", [job[t] EXCEPT !.ids = {}])
  BY <1>1, <1>3, JobWith, GoOn DEF Quiet, TaskPCs
<1>4. CASE Finish(t)
  BY <1>4, FinishGoesOn
<1> QED
  BY <1>2, <1>3, <1>4 DEF AfterUpdate

\* InitCache goes on to the history, or ends.
LEMMA InitNextGoesOn ==
    ASSUME IInv, NEW t \in Tasks, InitNext(t)
    PROVE  GoesOn(t)
<1>1. CASE Goto(t, "init_query", [NoJob EXCEPT !.op = "init", !.key = History])
  BY <1>1, JobFor, GoOn DEF Quiet, TaskPCs, Keys
<1> QED
  BY <1>1, FinishGoesOn DEF InitNext

-----------------------------------------------------------------------------
\* Calls that only read, and the work on indexes.

\* Calls that do not touch the table start with an empty job.
LEMMA ReadCallInv ==
    ASSUME IInv, NEW t \in Tasks,
           \/ \E id \in OrderIDs : ReturnOrder(t, id)
           \/ \E k \in Keys : GetActiveOrders(t, k)
           \/ GetOrderHistoryV2(t)
           \/ InitCache(t)
           \/ t = Refresher /\ \E k \in {AllActive, History} : CacheRefresh(k)
    PROVE  IInv'
<1>1. index \in [Keys -> SUBSET OrderIDs]
  BY InvParts
<1>2. ASSUME NEW id \in OrderIDs, ReturnOrder(t, id) PROVE IInv'
  <2>1. row[id].owner \in Keys
    BY DEF IInv, TypeOK, Order, Keys
  <2>2. GoesOn(t)
    BY <1>2, <2>1, JobFor, GoOn DEF ReturnOrder, Quiet, TaskPCs
  <2> QED
    BY <1>1, <1>2, <2>2, QuietInv DEF ReturnOrder, redis
<1>3. ASSUME NEW k \in Keys, GetActiveOrders(t, k) PROVE IInv'
  <2>1. GoesOn(t)
    BY <1>3, JobFor, GoOn DEF GetActiveOrders, Quiet, TaskPCs
  <2> QED
    BY <1>1, <1>3, <2>1, QuietInv DEF GetActiveOrders, redis
<1>4. CASE GetOrderHistoryV2(t)
  <2>1. GoesOn(t)
    BY <1>4, JobFor, GoOn DEF GetOrderHistoryV2, Quiet, TaskPCs, Keys
  <2> QED
    BY <1>1, <1>4, <2>1, QuietInv DEF GetOrderHistoryV2, redis
<1>5. CASE InitCache(t)
  <2>1. GoesOn(t)
    BY <1>5, JobFor, GoOn DEF InitCache, Quiet, TaskPCs, Keys
  <2> QED
    BY <1>1, <1>5, <2>1, QuietInv DEF InitCache, redis
<1>6. ASSUME t = Refresher, NEW k \in {AllActive, History}, CacheRefresh(k) PROVE IInv'
  <2>1. GoesOn(t)
    BY <1>6, JobFor, GoOn DEF CacheRefresh, Quiet, TaskPCs, Keys
  <2> QED
    BY <1>1, <1>6, <2>1, QuietInv DEF CacheRefresh, redis
<1> QED
  BY <1>2, <1>3, <1>4, <1>5, <1>6

\* The steps that change an index, and no cached order.
LEMMA IndexInv ==
    ASSUME IInv, NEW t \in Tasks,
           \/ AddToHistory(t) \/ IndexRead(t) \/ IndexDel(t) \/ IndexAdd(t) \/ UpdateFails(t)
           \/ RefundHistory(t)
    PROVE  IInv'
<1>1. index \in [Keys -> SUBSET OrderIDs] /\ job[t] \in Job /\ History \in Keys
  BY InvParts DEF TasksOK, Keys
<1>2. job[t].id \in OrderIDs /\ job[t].key \in Keys /\ job[t].ids \in SUBSET OrderIDs
  BY <1>1, JobWith
<1>3. CASE AddToHistory(t)
  <2>1. GoesOn(t)
    BY <1>1, <1>3, GoOn DEF AddToHistory, Quiet, TaskPCs
  <2>2. index' \in [Keys -> SUBSET OrderIDs]
    BY <1>1, <1>2, <1>3 DEF AddToHistory, ChangeIndex
  <2> QED
    BY <1>3, <2>1, <2>2, QuietInv DEF AddToHistory, ChangeIndex
<1>4. CASE IndexRead(t)
  <2>1. PICK ids \in SUBSET OrderIDs : Goto(t, "index_del", [job[t] EXCEPT !.ids = ids])
    <3>1. PICK ids \in {index[job[t].key]} \cup (IF Faults THEN {{}} ELSE {}) :
              Goto(t, "index_del", [job[t] EXCEPT
                 !.ids = IF job[t].op = "accept" THEN ids \cup {job[t].id} ELSE ids \ {job[t].id}])
      BY <1>4 DEF IndexRead
    <3>2. ids \in SUBSET OrderIDs
      BY <1>1, <1>2
    <3> QED
      BY <1>2, <3>1, <3>2
  <2>2. [job[t] EXCEPT !.ids = ids] \in Job /\ [job[t] EXCEPT !.ids = ids].got = job[t].got
    BY <1>1, JobWith, Zenon
  <2>3. GoesOn(t)
    BY <2>1, <2>2, GoOn DEF Quiet, TaskPCs
  <2> QED
    BY <1>1, <1>4, <2>3, QuietInv DEF IndexRead, redis
<1>5. CASE IndexDel(t)
  <2>1. GoesOn(t)
    BY <1>1, <1>5, GoOn, AfterUpdateGoesOn DEF IndexDel, Quiet, TaskPCs
  <2>2. index' \in [Keys -> SUBSET OrderIDs]
    BY <1>1, <1>2, <1>5 DEF IndexDel
  <2> QED
    BY <1>5, <2>1, <2>2, QuietInv DEF IndexDel
<1>6. CASE IndexAdd(t)
  <2>1. GoesOn(t)
    BY <1>6, AfterUpdateGoesOn DEF IndexAdd
  <2>2. index' \in [Keys -> SUBSET OrderIDs]
    BY <1>1, <1>2, <1>6 DEF IndexAdd
  <2> QED
    BY <1>6, <2>1, <2>2, QuietInv DEF IndexAdd
<1>7. CASE UpdateFails(t)
  <2>1. GoesOn(t)
    BY <1>7, AfterUpdateGoesOn DEF UpdateFails
  <2> QED
    BY <1>1, <1>7, <2>1, QuietInv DEF UpdateFails, redis
<1>8. CASE RefundHistory(t)
  <2>1. GoesOn(t)
    BY <1>8, DoneGoesOn DEF RefundHistory
  <2>2. index' \in [Keys -> SUBSET OrderIDs]
    BY <1>1, <1>2, <1>8 DEF RefundHistory, ChangeIndex
  <2> QED
    BY <1>8, <2>1, <2>2, QuietInv DEF RefundHistory, ChangeIndex
<1> QED
  BY <1>3, <1>4, <1>5, <1>6, <1>7, <1>8

-----------------------------------------------------------------------------
\* Reading the table and the cache.

\* Queries return ids.
LEMMA QueryType ==
    /\ Existing \subseteq OrderIDs
    /\ \A k : Query(k) \in SUBSET OrderIDs /\ QueryResults(k) \subseteq SUBSET OrderIDs
BY DEF Existing, Query, QueryResults

\* A row of the table is an order that the table has reached.
LEMMA RowReached ==
    ASSUME IInv, NEW id \in OrderIDs
    PROVE  row[id] \in Order /\ Reached(id, row[id])
<1>1. /\ row[id] \in Order /\ row[id].gen \in Nat /\ issued[id] \in Nat /\ refunded[id] \in Nat
  BY InvParts DEF TableOK, Order
<1>2. /\ "issued_at" \in row[id].dates => issued[id] = row[id].gen
      /\ "refunded_at" \in row[id].dates => refunded[id] = row[id].gen
  BY InvParts DEF RowConsistent
<1> QED
  BY <1>1, <1>2 DEF Reached

\* What a task has got is an order that the table has reached.
LEMMA GotReached ==
    ASSUME IInv, NEW t \in Tasks, NEW id \in OrderIDs
    PROVE  job[t].got[id] \in Order /\ Reached(id, job[t].got[id])
<1>1. job[t] \in Job /\ JobConsistent(pc[t], job[t])
  BY InvParts DEF TasksOK
<1> QED
  BY <1>1 DEF Job, JobConsistent

\* The steps between the commands that change something.
LEMMA ReadingInv ==
    ASSUME IInv, NEW t \in Tasks,
           \/ ReadDB(t) \/ ReadDBFails(t) \/ ReturnCheck(t)
           \/ ReadIndex(t) \/ ReadGet(t) \/ ReadFind(t)
           \/ HistoryIndex(t) \/ HistoryBatch(t) \/ HistoryDB(t) \/ HistoryAnswered(t) \/ Die(t)
    PROVE  IInv'
<1>1. /\ index \in [Keys -> SUBSET OrderIDs] /\ job[t] \in Job /\ History \in Keys
      /\ job[t].id \in OrderIDs /\ job[t].key \in Keys /\ job[t].ids \in SUBSET OrderIDs
      /\ job[t].todo \in SUBSET OrderIDs
  BY InvParts, JobWith DEF TasksOK, Keys
<1>2. \A ids \in SUBSET OrderIDs :
          /\ [job[t] EXCEPT !.ids = ids] \in Job /\ [job[t] EXCEPT !.ids = ids].got = job[t].got
          /\ [job[t] EXCEPT !.todo = ids] \in Job /\ [job[t] EXCEPT !.todo = ids].got = job[t].got
  BY <1>1, JobWith, Zenon
<1>3. \A id \in OrderIDs : [job[t] EXCEPT !.id = id] \in Job /\ [job[t] EXCEPT !.id = id].got = job[t].got
  BY <1>1, JobWith, Zenon
<1>4. ASSUME UNCHANGED <<db, redis>>, GoesOn(t) PROVE IInv'
  BY <1>1, <1>4, QuietInv DEF redis
<1>5. ASSUME NEW ids \in SUBSET OrderIDs, NEW l \in Quiet, Goto(t, l, [job[t] EXCEPT !.ids = ids])
      PROVE  GoesOn(t)
  BY <1>2, <1>5, GoOn
<1>6. ASSUME NEW l \in Quiet, Goto(t, l, job[t])
      PROVE  GoesOn(t)
  BY <1>1, <1>6, GoOn
<1>7. CASE ReadDB(t)
  BY <1>4, <1>5, <1>7, QueryType DEF ReadDB, Quiet, TaskPCs
<1>8. CASE ReadDBFails(t)
  BY <1>4, <1>6, <1>8, FinishGoesOn DEF ReadDBFails, Quiet, TaskPCs
<1>9. CASE ReturnCheck(t)
  BY <1>4, <1>6, <1>9, FinishGoesOn DEF ReturnCheck, Quiet, TaskPCs
<1>10. CASE ReadIndex(t)
  <2>1. CASE Goto(t, "read_get", [job[t] EXCEPT !.todo = index[job[t].key]])
    <3>1. index[job[t].key] \in SUBSET OrderIDs
      BY <1>1
    <3>2. GoesOn(t)
      BY <1>2, <2>1, <3>1, GoOn DEF Quiet, TaskPCs
    <3> QED
      BY <1>4, <1>10, <3>2 DEF ReadIndex
  <2>2. CASE Goto(t, "read_db", job[t])
    BY <1>4, <1>6, <1>10, <2>2 DEF ReadIndex, Quiet, TaskPCs
  <2> QED
    BY <1>10, <2>1, <2>2 DEF ReadIndex
<1>11. CASE ReadGet(t)
  <2>1. PICK id \in job[t].todo : \/ Done(t, id, "read_get")
                                  \/ Goto(t, "read_find", [job[t] EXCEPT !.id = id])
    BY <1>11 DEF ReadGet
  <2>2. GoesOn(t)
    BY <1>1, <1>3, <2>1, GoOn, DoneGoesOn DEF Quiet, TaskPCs
  <2> QED
    BY <1>4, <1>11, <2>2 DEF ReadGet
<1>12. CASE ReadFind(t)
  <2> DEFINE id == job[t].id
             j  == [job[t] EXCEPT !.got[id] = row[id]]
  <2>1. row[id] \in Order /\ Reached(id, row[id])
    BY <1>1, RowReached
  <2>2. j \in Job /\ \A x \in OrderIDs : j.got[x] = IF x = id THEN row[id] ELSE job[t].got[x]
    <3> DEFINE i == job[t].id
               o == row[i]
    <3>1. i \in OrderIDs /\ o \in Order
      BY <1>1, <2>1
    <3> HIDE DEF i, o
    <3>2. /\ [job[t] EXCEPT !.got[i] = o] \in Job
          /\ \A x \in OrderIDs : [job[t] EXCEPT !.got[i] = o].got[x] = IF x = i THEN o ELSE job[t].got[x]
      BY <1>1, <3>1 DEF Job
    <3> QED
      BY <3>2, Zenon DEF i, o
  <2>3. CASE Goto(t, "read_set", j)
    <3> HIDE DEF j
    <3>1. GoesOn(t)
      BY <1>1, <2>1, <2>2, <2>3, GoOnWith DEF Quiet, TaskPCs
    <3> QED
      BY <1>4, <1>12, <3>1 DEF ReadFind
  <2>4. CASE Done(t, id, "read_get")
    BY <1>4, <1>12, <2>4, DoneGoesOn DEF ReadFind
  <2> QED
    BY <1>12, <2>3, <2>4 DEF ReadFind
<1>13. CASE HistoryIndex(t)
  <2>1. PICK ids \in {index[History]} \cup (IF Faults THEN {{}} ELSE {}) :
            Goto(t, "history_batch", [job[t] EXCEPT !.ids = ids])
    BY <1>13 DEF HistoryIndex
  <2>2. ids \in SUBSET OrderIDs
    BY <1>1
  <2> QED
    BY <1>4, <1>5, <1>13, <2>1, <2>2 DEF HistoryIndex, Quiet, TaskPCs
<1>14. CASE HistoryBatch(t)
  <2>1. PICK ids \in SUBSET OrderIDs, l \in {"answered", "history_db"} : Goto(t, l, [job[t] EXCEPT !.ids = ids])
    BY <1>1, <1>14 DEF HistoryBatch
  <2> QED
    BY <1>4, <1>5, <1>14, <2>1 DEF HistoryBatch, Quiet, TaskPCs
<1>15. CASE HistoryDB(t)
  <2>1. ASSUME NEW p \in Page(Existing, 0), Goto(t, "answered", [job[t] EXCEPT !.ids = p]) PROVE GoesOn(t)
    <3>1. p \in SUBSET OrderIDs
      BY QueryType DEF Page
    <3> QED
      BY <1>5, <2>1, <3>1 DEF Quiet, TaskPCs
  <2> QED
    BY <1>4, <1>15, <2>1, FinishGoesOn DEF HistoryDB
<1>16. CASE HistoryAnswered(t) \/ Die(t)
  BY <1>4, <1>16, FinishGoesOn DEF HistoryAnswered, Die
<1> QED
  BY <1>7, <1>8, <1>9, <1>10, <1>11, <1>12, <1>13, <1>14, <1>15, <1>16

\* The queries of InitCache: all orders that are found are read at once.
LEMMA InitQueriesInv ==
    ASSUME IInv, NEW t \in Tasks, InitQuery(t) \/ InitFind(t)
    PROVE  IInv'
<1>1. index \in [Keys -> SUBSET OrderIDs] /\ job[t] \in Job /\ job[t].todo \in SUBSET OrderIDs
  BY InvParts, JobWith DEF TasksOK
<1>2. ASSUME UNCHANGED <<db, redis>>, GoesOn(t) PROVE IInv'
  BY <1>1, <1>2, QuietInv DEF redis
<1>3. CASE InitQuery(t)
  <2>1. PICK ids \in SUBSET OrderIDs :
            \/ Goto(t, "index_del", [job[t] EXCEPT !.ids = ids, !.todo = ids])
            \/ Goto(t, "read_db", [job[t] EXCEPT !.todo = ids])
            \/ InitNext(t)
    BY <1>3, QueryType DEF InitQuery
  <2>2. /\ [job[t] EXCEPT !.ids = ids, !.todo = ids] \in Job
        /\ [job[t] EXCEPT !.ids = ids, !.todo = ids].got = job[t].got
        /\ [job[t] EXCEPT !.todo = ids] \in Job
        /\ [job[t] EXCEPT !.todo = ids].got = job[t].got
    BY <1>1 DEF Job
  <2>3. GoesOn(t)
    BY <2>1, <2>2, GoOn, InitNextGoesOn DEF Quiet, TaskPCs
  <2> QED
    BY <1>2, <1>3, <2>3 DEF InitQuery
<1>4. CASE InitFind(t)
  <2> DEFINE found == job[t].todo \cap Existing
             got   == [id \in OrderIDs |-> IF id \in found THEN row[id] ELSE NoOrder]
             j     == [job[t] EXCEPT !.todo = found, !.got = got]
  <2>1. \A id \in OrderIDs : got[id] \in Order /\ Reached(id, got[id])
    <3>1. ASSUME NEW id \in OrderIDs PROVE NoOrder \in Order /\ Reached(id, NoOrder)
      BY InvParts, NothingGot, NoJobType, NoOrderType
    <3> QED
      BY <3>1, RowReached
  <2>2. got \in [OrderIDs -> Order] /\ found \in SUBSET OrderIDs
    BY <1>1, <2>1
  <2>3. CASE Goto(t, "init_set", j)
    <3> HIDE DEF found, got
    <3>1. \A g \in [OrderIDs -> Order], ids \in SUBSET OrderIDs :
              /\ [job[t] EXCEPT !.todo = ids, !.got = g] \in Job
              /\ [job[t] EXCEPT !.todo = ids, !.got = g].got = g
      BY <1>1 DEF Job
    <3>2. j \in Job /\ j.got = got
      BY <2>2, <3>1, Zenon
    <3> HIDE DEF j
    <3>3. GoesOn(t)
      BY <2>1, <2>3, <3>2 DEF GoesOn, JobConsistent, TaskPCs
    <3> QED
      BY <1>2, <1>4, <3>3 DEF InitFind
  <2>4. CASE InitNext(t)
    BY <1>2, <1>4, <2>4, InitNextGoesOn DEF InitFind
  <2> QED
    BY <1>4, <2>3, <2>4 DEF InitFind
<1> QED
  BY <1>3, <1>4

\* IssueOrders takes a cached order and marks it: the order may be an old one, but the
\* table has reached the mark.
LEMMA IssueGetInv ==
    ASSUME IInv, NEW t \in Tasks, IssueGet(t)
    PROVE  IInv'
<1>1. /\ index \in [Keys -> SUBSET OrderIDs] /\ job[t] \in Job /\ job[t].todo \in SUBSET OrderIDs
      /\ pc[t] = "issue_get" /\ JobConsistent(pc[t], job[t])
  BY InvParts, JobWith DEF TasksOK, IssueGet
<1>2. ASSUME UNCHANGED <<db, redis>>, GoesOn(t) PROVE IInv'
  BY <1>1, <1>2, QuietInv DEF redis
<1>3. PICK id \in job[t].todo :
          \/ /\ entry[id] # NoEntry
             /\ Goto(t, "issue_set", [job[t] EXCEPT !.id = id, !.got[id] =
                    [gen |-> entry[id].gen, owner |-> entry[id].owner,
                     dates |-> entry[id].dates \cup {"issued_at"},
                     early |-> "refunded_at" \in entry[id].dates]])
          \/ Done(t, id, "issue_get")
  BY DEF IssueGet
<1>4. id \in OrderIDs /\ WasIssued(id)
  BY <1>1 DEF JobConsistent
<1>5. CASE Done(t, id, "issue_get")
  BY <1>1, <1>2, <1>5, DoneGoesOn DEF IssueGet
<1>6. CASE entry[id] # NoEntry
  <2> DEFINE o == [gen |-> entry[id].gen, owner |-> entry[id].owner,
                   dates |-> entry[id].dates \cup {"issued_at"},
                   early |-> "refunded_at" \in entry[id].dates]
             j == [job[t] EXCEPT !.id = id, !.got[id] = o]
  <2>1. entry[id] \in Entry /\ Reached(id, entry[id])
    BY <1>4, <1>6, InvParts DEF EntriesOK, NeverAhead
  <2>2. /\ o \in Order /\ o.gen = entry[id].gen /\ o.owner = entry[id].owner
        /\ o.dates = entry[id].dates \cup {"issued_at"}
    BY <2>1 DEF Entry, Order, Dates
  <2>3. Reached(id, o)
    BY <1>4, <2>1, <2>2 DEF Reached, WasIssued
  <2> HIDE DEF o
  <2>4. /\ j \in Job /\ j.todo = job[t].todo
        /\ \A x \in OrderIDs : j.got[x] = IF x = id THEN o ELSE job[t].got[x]
    BY <1>1, <1>4, <2>2 DEF Job
  <2>5. CASE Goto(t, "issue_set", j)
    <3> HIDE DEF j
    <3>1. JobConsistent("issue_set", j)
      BY <1>1, <2>3, <2>4 DEF JobConsistent
    <3>2. GoesOn(t)
      BY <2>4, <2>5, <3>1 DEF GoesOn, TaskPCs
    <3> QED
      BY <1>2, <3>2 DEF IssueGet
  <2> QED
    BY <1>3, <1>5, <2>5 DEF o
<1> QED
  BY <1>3, <1>5, <1>6

-----------------------------------------------------------------------------
\* Changing what is cached.

\* SetOrder with an order that the table has reached.
LEMMA SetOrderOK ==
    ASSUME IInv, NEW id \in OrderIDs, NEW o \in Order, Reached(id, o), NEW kept \in BOOLEAN,
           kept => o.gen <= refunded[id] \/ <<id, o.gen, Deadline(o)>> \in past,
           SetOrder(id, o, kept)
    PROVE  EntriesOK' /\ UNCHANGED <<db, index>>
<1>1. EntriesOK /\ UNCHANGED <<db, index>>
  BY InvParts DEF SetOrder
<1>2. CASE entry' = [entry EXCEPT ![id] = Cached(o, kept)]
  BY <1>1, <1>2, EntryChanges
<1>3. CASE entry' = entry
  BY <1>1, <1>3, EntriesRest
<1> QED
  BY <1>1, <1>2, <1>3 DEF SetOrder

\* A refunded order, or one past its deadline, may stay.
LEMMA NoTTL ==
    ASSUME NEW id, NEW o, Reached(id, o), ~HasTTL(id, o)
    PROVE  o.gen <= refunded[id] \/ <<id, o.gen, Deadline(o)>> \in past
BY DEF HasTTL, Reached

\* SetOrder with the TTL that calculateOrderTTL finds.
LEMMA SetWithTTL ==
    ASSUME IInv, NEW id \in OrderIDs, NEW o \in Order, Reached(id, o), SetOrder(id, o, ~HasTTL(id, o))
    PROVE  EntriesOK' /\ UNCHANGED <<db, index>>
<1> DEFINE kept == ~HasTTL(id, o)
<1>1. kept \in BOOLEAN /\ (kept => o.gen <= refunded[id] \/ <<id, o.gen, Deadline(o)>> \in past)
  BY NoTTL DEF HasTTL
<1>2. SetOrder(id, o, kept)
  OBVIOUS
<1> HIDE DEF kept
<1> QED
  BY <1>1, <1>2, SetOrderOK

\* DeleteOrder.
LEMMA DeleteOrderOK ==
    ASSUME IInv, NEW id \in OrderIDs, DeleteOrder(id)
    PROVE  EntriesOK' /\ UNCHANGED <<db, index>>
<1>1. EntriesOK /\ UNCHANGED <<db, index>>
  BY InvParts DEF DeleteOrder
<1>2. CASE entry' = [entry EXCEPT ![id] = NoEntry]
  BY <1>1, <1>2, EntryChanges
<1>3. CASE entry' = entry
  BY <1>1, <1>3, EntriesRest
<1> QED
  BY <1>1, <1>2, <1>3 DEF DeleteOrder

\* The steps that write or delete a cached order.
LEMMA WritingInv ==
    ASSUME IInv, NEW t \in Tasks,
           \/ AcceptSet(t) \/ ReadSet(t) \/ IssueSet(t) \/ InitSet(t) \/ ReturnEvict(t) \/ RefundEvict(t)
    PROVE  IInv'
<1>1. job[t] \in Job /\ job[t].id \in OrderIDs /\ job[t].todo \in SUBSET OrderIDs
  BY InvParts, JobWith DEF TasksOK
<1>2. \A id \in OrderIDs : job[t].got[id] \in Order /\ Reached(id, job[t].got[id])
  BY GotReached
<1>3. CASE AcceptSet(t)
  <2>1. EntriesOK' /\ UNCHANGED <<db, index>>
    BY <1>1, <1>2, <1>3, SetWithTTL DEF AcceptSet
  <2>2. [job[t] EXCEPT !.got = NoJob.got] \in Job /\ [job[t] EXCEPT !.got = NoJob.got].got = NoJob.got
    <3> DEFINE none == NoJob.got
    <3>1. none \in [OrderIDs -> Order]
      BY NoJobType
    <3> HIDE DEF none
    <3>2. [job[t] EXCEPT !.got = none] \in Job /\ [job[t] EXCEPT !.got = none].got = none
      BY <1>1, <3>1 DEF Job
    <3> QED
      BY <3>2 DEF none
  <2>3. GoesOn(t)
    BY <1>3, <2>2, GoOn DEF AcceptSet, Quiet, TaskPCs
  <2> QED
    BY <2>1, <2>3, EntryInv
<1>4. CASE ReadSet(t)
  <2>1. EntriesOK' /\ UNCHANGED <<db, index>>
    BY <1>1, <1>2, <1>4, SetWithTTL DEF ReadSet
  <2>2. GoesOn(t)
    BY <1>4, DoneGoesOn DEF ReadSet
  <2> QED
    BY <2>1, <2>2, EntryInv
<1>5. CASE IssueSet(t)
  <2> DEFINE id == job[t].id
             o  == job[t].got[id]
             kept == "refunded_at" \in o.dates
  <2>1. kept \in BOOLEAN /\ (kept => o.gen <= refunded[id])
    BY <1>1, <1>2 DEF Reached
  <2>2. SetOrder(id, o, kept)
    BY <1>5 DEF IssueSet
  <2> HIDE DEF kept
  <2>3. EntriesOK' /\ UNCHANGED <<db, index>>
    BY <1>1, <1>2, <2>1, <2>2, SetOrderOK
  <2>4. GoesOn(t)
    BY <1>5, DoneGoesOn DEF IssueSet
  <2> QED
    BY <2>3, <2>4, EntryInv
<1>6. CASE InitSet(t)
  <2>1. PICK id \in job[t].todo :
            /\ SetOrder(id, job[t].got[id], ~HasTTL(id, job[t].got[id]))
            /\ \/ InitNext(t)
               \/ Goto(t, "init_set", [job[t] EXCEPT !.todo = @ \ {id}, !.got[id] = NoOrder])
    BY <1>6 DEF InitSet
  <2>2. EntriesOK' /\ UNCHANGED <<db, index>>
    BY <1>1, <1>2, <2>1, SetWithTTL
  <2> DEFINE j == [job[t] EXCEPT !.todo = @ \ {id}, !.got[id] = NoOrder]
  <2>3. j \in Job /\ \A x \in OrderIDs : j.got[x] = IF x = id THEN NoOrder ELSE job[t].got[x]
    BY <1>1, NoOrderType DEF Job
  <2>4. Reached(id, NoOrder)
    BY <1>1, InvParts, NothingGot, NoJobType
  <2>5. CASE Goto(t, "init_set", j)
    <3> HIDE DEF j
    <3> QED
      BY <1>1, <2>3, <2>4, <2>5, GoOnWith, <2>2, EntryInv DEF Quiet, TaskPCs
  <2> QED
    BY <2>1, <2>2, <2>5, InitNextGoesOn, EntryInv
<1>7. CASE ReturnEvict(t)
  <2>1. EntriesOK' /\ UNCHANGED <<db, index>>
    BY <1>1, <1>7, DeleteOrderOK DEF ReturnEvict
  <2>2. GoesOn(t)
    BY <1>1, <1>7, GoOn DEF ReturnEvict, Quiet, TaskPCs
  <2> QED
    BY <2>1, <2>2, EntryInv
<1>8. CASE RefundEvict(t)
  <2>1. PICK id \in job[t].todo : DeleteOrder(id) /\ Goto(t, "refund_history", [job[t] EXCEPT !.id = id])
    BY <1>8 DEF RefundEvict
  <2>2. EntriesOK' /\ UNCHANGED <<db, index>>
    BY <1>1, <2>1, DeleteOrderOK
  <2>3. [job[t] EXCEPT !.id = id] \in Job /\ [job[t] EXCEPT !.id = id].got = job[t].got
    BY <1>1 DEF Job
  <2>4. GoesOn(t)
    BY <2>1, <2>3, GoOn DEF Quiet, TaskPCs
  <2> QED
    BY <2>2, <2>4, EntryInv
<1> QED
  BY <1>3, <1>4, <1>5, <1>6, <1>7, <1>8

\* Entries and indexes expire.
LEMMA ExpiryInv ==
    ASSUME IInv,
           \/ \E id \in OrderIDs : EntryExpires(id)
           \/ \E k \in Keys : IndexExpires(k)
    PROVE  IInv'
<1>1. TableOK /\ EntriesOK /\ TasksOK /\ index \in [Keys -> SUBSET OrderIDs]
  BY InvParts
<1>2. UNCHANGED <<db, pc, job>>
  BY DEF EntryExpires, IndexExpires
<1>3. EntriesOK' /\ index' \in [Keys -> SUBSET OrderIDs]
  <2>1. ASSUME NEW id \in OrderIDs, EntryExpires(id) PROVE EntriesOK' /\ index' \in [Keys -> SUBSET OrderIDs]
    BY <1>1, <2>1, EntryChanges DEF EntryExpires
  <2>2. ASSUME NEW k \in Keys, IndexExpires(k) PROVE EntriesOK' /\ index' \in [Keys -> SUBSET OrderIDs]
    BY <1>1, <2>2, EntriesRest DEF IndexExpires
  <2> QED
    BY <2>1, <2>2
<1> QED
  BY <1>1, <1>2, <1>3, InvParts, InvPartsNext, TableKept, TasksRest

-----------------------------------------------------------------------------
\* The table changes.

\* Nothing that has happened is undone.
Grows ==
    /\ \A id \in OrderIDs : /\ row[id].gen <= row'[id].gen
                            /\ issued[id] <= issued'[id]
                            /\ refunded[id] <= refunded'[id]
                            /\ WasIssued(id) => WasIssued(id)'
                            /\ row'[id].gen = row[id].gen => row'[id].owner = row[id].owner
    /\ torn \subseteq torn' /\ past \subseteq past'

\* What the table had reached it has reached.
LEMMA ReachedGrows ==
    ASSUME TableOK, TableOK', Grows, NEW id \in OrderIDs, NEW o, o.gen \in Nat, Reached(id, o)
    PROVE  Reached(id, o)'
<1>1. /\ row[id].gen \in Nat /\ row'[id].gen \in Nat /\ issued[id] \in Nat /\ issued'[id] \in Nat
      /\ refunded[id] \in Nat /\ refunded'[id] \in Nat
  BY DEF TableOK, Order
<1>2. /\ row[id].gen <= row'[id].gen /\ issued[id] <= issued'[id] /\ refunded[id] <= refunded'[id]
      /\ id \in torn => id \in torn'
      /\ row'[id].gen = row[id].gen => row'[id].owner = row[id].owner
  BY DEF Grows
<1> QED
  BY <1>1, <1>2 DEF Reached

\* The cache and the tasks stay behind the table when it goes on.
LEMMA GrowsInv ==
    ASSUME IInv, TableOK', \A id \in OrderIDs : RowConsistent(id)', Grows, UNCHANGED redis,
           \/ UNCHANGED <<pc, job>>
           \/ \E t \in Tasks, l \in TaskPCs, j \in Job : Goto(t, l, j) /\ JobConsistent(l, j)'
    PROVE  IInv'
<1>1. TableOK /\ EntriesOK /\ TasksOK /\ index \in [Keys -> SUBSET OrderIDs]
  BY InvParts
<1>2. EntriesOK'
  <2>1. entry' = entry /\ entry \in [OrderIDs -> Entry \cup {NoEntry}]
    BY <1>1 DEF EntriesOK, redis
  <2>2. NeverAhead'
    <3> SUFFICES ASSUME NEW id \in OrderIDs, entry[id] # NoEntry PROVE Reached(id, entry[id])'
      BY <2>1 DEF NeverAhead
    <3>1. PICK o \in Entry : o = entry[id]
      BY <2>1
    <3>2. o.gen \in Nat /\ Reached(id, o)
      BY <1>1, <3>1 DEF Entry, EntriesOK, NeverAhead
    <3>3. Reached(id, o)'
      BY <1>1, <3>2, ReachedGrows
    <3> QED
      BY <2>1, <3>1, <3>3 DEF Reached
  <2>3. KeptIsOver'
    <3> SUFFICES ASSUME NEW id \in OrderIDs, entry[id] # NoEntry, entry[id].kept = TRUE
                 PROVE  \/ entry[id].gen <= refunded'[id]
                        \/ <<id, entry[id].gen, Deadline(entry[id])>> \in past'
      BY <2>1 DEF KeptIsOver, Deadline
    <3>1. entry[id].gen \in Nat /\ refunded[id] \in Nat /\ refunded'[id] \in Nat
      BY <1>1, <2>1 DEF Entry, TableOK
    <3>2. refunded[id] <= refunded'[id] /\ past \subseteq past'
      BY DEF Grows
    <3>3. \/ entry[id].gen <= refunded[id]
          \/ <<id, entry[id].gen, Deadline(entry[id])>> \in past
      BY <1>1 DEF EntriesOK, KeptIsOver
    <3> QED
      BY <3>1, <3>2, <3>3
  <2> QED
    BY <2>1, <2>2, <2>3 DEF EntriesOK
<1>3. ASSUME NEW l, NEW j \in Job, JobConsistent(l, j) PROVE JobConsistent(l, j)'
  <2>1. \A id \in OrderIDs : Reached(id, j.got[id])'
    <3> SUFFICES ASSUME NEW id \in OrderIDs PROVE Reached(id, j.got[id])'
      OBVIOUS
    <3>1. j.got[id].gen \in Nat /\ Reached(id, j.got[id])
      BY <1>3 DEF Job, Order, JobConsistent
    <3> QED
      BY <1>1, <3>1, ReachedGrows
  <2>2. j.todo \subseteq OrderIDs
    BY JobWith
  <2>3. l \in {"issue_get", "issue_set"} => \A id \in j.todo : WasIssued(id)'
    BY <1>3, <2>2 DEF JobConsistent, Grows
  <2> QED
    BY <2>1, <2>3 DEF JobConsistent
<1>4. ASSUME NEW x \in Tasks, pc'[x] = pc[x], job'[x] = job[x] PROVE JobConsistent(pc[x], job[x])'
  <2>1. PICK l \in TaskPCs, j \in Job : l = pc[x] /\ j = job[x]
    BY <1>1 DEF TasksOK
  <2>2. JobConsistent(l, j)'
    BY <1>1, <1>3, <2>1 DEF TasksOK
  <2> QED
    BY <1>4, <2>1, <2>2 DEF JobConsistent
<1>5. ASSUME UNCHANGED <<pc, job>> PROVE TasksOK'
  BY <1>1, <1>4, <1>5 DEF TasksOK
<1>6. ASSUME NEW t \in Tasks, NEW l \in TaskPCs, NEW j \in Job, Goto(t, l, j), JobConsistent(l, j)'
      PROVE  TasksOK'
  <2>1. /\ pc' \in [Tasks -> TaskPCs] /\ job' \in [Tasks -> Job]
        /\ pc'[t] = l /\ job'[t] = j
        /\ \A x \in Tasks \ {t} : pc'[x] = pc[x] /\ job'[x] = job[x]
    BY <1>1, <1>6 DEF Goto, TasksOK
  <2>2. JobConsistent(pc[t], job[t])'
    BY <1>6, <2>1 DEF JobConsistent
  <2> QED
    BY <1>4, <2>1, <2>2 DEF TasksOK
<1>7. index' \in [Keys -> SUBSET OrderIDs]
  BY <1>1 DEF redis
<1> QED
  BY <1>2, <1>5, <1>6, <1>7, InvPartsNext

\* A deadline passes.
LEMMA DeadlineInv ==
    ASSUME IInv, NEW id \in OrderIDs, DeadlinePasses(id)
    PROVE  IInv'
<1>1. TableOK /\ \A x \in OrderIDs : RowConsistent(x) /\ row[x].gen \in Nat
  BY InvParts DEF TableOK, Order
<1>2. UNCHANGED <<row, issued, refunded, torn, redis, pc, job>>
  BY DEF DeadlinePasses
<1>3. past' \in SUBSET (OrderIDs \X Nat \X Deadlines) /\ past \subseteq past'
  <2>1. PICK d \in Deadlines :
            \E gen \in 1..(IF d = "expiry" THEN row[id].gen ELSE issued[id]) :
                past' = past \cup {<<id, gen, d>>}
    BY Zenon DEF DeadlinePasses
  <2>2. row[id].gen \in Nat /\ issued[id] \in Nat
    BY <1>1 DEF TableOK
  <2>3. PICK gen \in Nat : past' = past \cup {<<id, gen, d>>}
    BY <2>1, <2>2
  <2> QED
    BY <1>1, <2>3 DEF TableOK
<1>4. TableOK' /\ \A x \in OrderIDs : RowConsistent(x)'
  BY <1>1, <1>2, <1>3 DEF TableOK, RowConsistent
<1>5. Grows
  BY <1>1, <1>2, <1>3 DEF Grows, WasIssued, TableOK
<1> QED
  BY <1>2, <1>4, <1>5, GrowsInv

\* An id is accepted again: the new generation is not issued, whatever was issued before.
LEMMA AcceptOrderInv ==
    ASSUME IInv, NEW t \in Tasks, NEW id \in OrderIDs, NEW u \in Users, AcceptOrder(t, id, u)
    PROVE  IInv'
<1>1. /\ TableOK /\ RowConsistent(id) /\ (\A x \in OrderIDs : RowConsistent(x))
      /\ row[id].gen \in Nat /\ issued[id] \in Nat /\ refunded[id] \in Nat
  BY InvParts DEF TableOK, Order
<1>2. PICK o \in Order : /\ o.gen = row[id].gen + 1 /\ o.dates = {"stored_at"} /\ ~o.early
                         /\ o = [gen |-> row[id].gen + 1, owner |-> u, dates |-> {"stored_at"},
                                 early |-> FALSE]
  <2>1. [gen |-> row[id].gen + 1, owner |-> u, dates |-> {"stored_at"}, early |-> FALSE] \in Order
    BY <1>1 DEF Order, Dates
  <2> QED
    BY <2>1
<1>3. /\ row[id].dates = {}
      /\ row' = [row EXCEPT ![id] = o]
      /\ Goto(t, "set", [NoJob EXCEPT !.op = "accept", !.id = id, !.key = u, !.got[id] = o])
      /\ UNCHANGED <<past, issued, refunded, torn, redis>>
  BY <1>2 DEF AcceptOrder
<1>4. /\ row' \in [OrderIDs -> Order] /\ row'[id] = o
      /\ \A x \in OrderIDs \ {id} : row'[x] = row[x]
  BY <1>1, <1>3 DEF TableOK
<1>5. TableOK'
  BY <1>1, <1>2, <1>3, <1>4 DEF TableOK
<1>6. issued[id] <= row[id].gen /\ refunded[id] <= row[id].gen
      /\ (issued[id] = row[id].gen /\ row[id].gen > 0 => id \in torn)
  BY <1>1, <1>3 DEF RowConsistent
<1>7. ASSUME NEW x \in OrderIDs PROVE RowConsistent(x)'
  <2>1. CASE x = id
    BY <1>1, <1>2, <1>3, <1>4, <1>6, <2>1 DEF RowConsistent
  <2>2. CASE x # id
    BY <1>1, <1>3, <1>4, <2>2 DEF RowConsistent
  <2> QED
    BY <2>1, <2>2
<1>8. Grows
  <2>1. ASSUME NEW x \in OrderIDs
        PROVE  /\ row[x].gen <= row'[x].gen /\ issued[x] <= issued'[x] /\ refunded[x] <= refunded'[x]
               /\ WasIssued(x) => WasIssued(x)'
               /\ row'[x].gen = row[x].gen => row'[x].owner = row[x].owner
    <3>1. row[x].gen \in Nat /\ issued[x] \in Nat /\ refunded[x] \in Nat
      BY <1>1 DEF TableOK, Order
    <3>2. CASE x = id
      BY <1>1, <1>2, <1>3, <1>4, <1>6, <3>1, <3>2 DEF WasIssued
    <3>3. CASE x # id
      BY <1>3, <1>4, <3>1, <3>3 DEF WasIssued
    <3> QED
      BY <3>2, <3>3
  <2> QED
    BY <1>3, <2>1 DEF Grows
<1>9. PICK j \in Job : /\ Goto(t, "set", j)
                       /\ \A x \in OrderIDs : j.got[x] = IF x = id THEN o ELSE NoJob.got[x]
  <2> DEFINE n == NoJob
  <2>1. n \in Job /\ u \in Keys
    BY NoJobType DEF Keys
  <2> HIDE DEF n
  <2>2. /\ [n EXCEPT !.op = "accept", !.id = id, !.key = u, !.got[id] = o] \in Job
        /\ \A x \in OrderIDs : [n EXCEPT !.op = "accept", !.id = id, !.key = u, !.got[id] = o].got[x]
                                   = IF x = id THEN o ELSE n.got[x]
    BY <2>1 DEF Job
  <2> QED
    BY <1>3, <2>2 DEF n
<1>10. JobConsistent("set", j)'
  <2>1. Reached(id, o)'
    <3>1. row'[id].gen = row[id].gen + 1 /\ o.gen <= row'[id].gen /\ o.owner = row'[id].owner
      BY <1>1, <1>2, <1>4
    <3> QED
      BY <1>2, <3>1 DEF Reached
  <2>2. \A x \in OrderIDs : NoJob.got[x].gen \in Nat /\ Reached(x, NoJob.got[x])
    BY <1>1, NothingGot, NoJobType
  <2>3. ASSUME NEW x \in OrderIDs PROVE Reached(x, j.got[x])'
    <3>1. CASE x = id
      BY <1>9, <2>1, <3>1
    <3>2. CASE x # id
      BY <1>1, <1>5, <1>8, <1>9, <2>2, <3>2, ReachedGrows
    <3> QED
      BY <3>1, <3>2
  <2> QED
    BY <2>3 DEF JobConsistent
<1> QED
  BY <1>3, <1>5, <1>7, <1>8, <1>9, <1>10, GrowsInv DEF TaskPCs

\* A task that starts or goes on with nothing but a list of ids.
LEMMA EmptyHanded ==
    ASSUME TableOK', NEW j \in Job, NEW l,
           \/ j.got = NoJob.got
           \/ TableOK /\ Grows /\ \A id \in OrderIDs : Reached(id, j.got[id]),
           l \in {"issue_get", "issue_set"} => \A id \in j.todo : WasIssued(id)'
    PROVE  JobConsistent(l, j)'
<1>1. ASSUME j.got = NoJob.got, NEW id \in OrderIDs PROVE Reached(id, j.got[id])'
  <2>1. row'[id].gen \in Nat /\ j.got[id].gen = 0 /\ j.got[id].dates = {} /\ ~(j.got[id].gen > 0)
    BY <1>1, NoJobType DEF TableOK, Order
  <2> QED
    BY <2>1 DEF Reached
<1>2. ASSUME TableOK, Grows, NEW id \in OrderIDs, Reached(id, j.got[id]) PROVE Reached(id, j.got[id])'
  <2>1. j.got[id].gen \in Nat
    BY DEF Job, Order
  <2> QED
    BY <1>2, <2>1, ReachedGrows
<1>3. \A id \in OrderIDs : Reached(id, j.got[id])'
  BY <1>1, <1>2
<1> QED
  BY <1>3 DEF JobConsistent

\* The row is deleted, whatever it is; if it was issued the id is torn.
LEMMA ReturnDeleteInv ==
    ASSUME IInv, NEW t \in Tasks, ReturnDelete(t)
    PROVE  IInv'
<1>1. /\ TableOK /\ TasksOK /\ (\A x \in OrderIDs : RowConsistent(x))
      /\ job[t] \in Job /\ job[t].id \in OrderIDs
  BY InvParts, JobWith DEF TasksOK
<1>2. PICK id \in OrderIDs : id = job[t].id
  BY <1>1
<1>3. /\ row' = [row EXCEPT ![id].dates = {}, ![id].early = FALSE]
      /\ torn' = IF "issued_at" \in row[id].dates THEN torn \cup {id} ELSE torn
      /\ Goto(t, "evict", job[t])
      /\ UNCHANGED <<past, issued, refunded, redis>>
  BY <1>2 DEF ReturnDelete
<1>4. /\ row' \in [OrderIDs -> Order] /\ row'[id].gen = row[id].gen /\ row'[id].dates = {}
      /\ row'[id].owner = row[id].owner /\ ~row'[id].early
      /\ \A x \in OrderIDs \ {id} : row'[x] = row[x]
  BY <1>1, <1>3 DEF TableOK, Order
<1>5. TableOK'
  BY <1>1, <1>3, <1>4 DEF TableOK
<1>6. ASSUME NEW x \in OrderIDs PROVE RowConsistent(x)'
  <2>1. CASE x = id
    BY <1>1, <1>3, <1>4, <2>1 DEF RowConsistent
  <2>2. CASE x # id
    BY <1>1, <1>3, <1>4, <2>2 DEF RowConsistent
  <2> QED
    BY <2>1, <2>2
<1>7. Grows
  <2>1. ASSUME NEW x \in OrderIDs
        PROVE  /\ row[x].gen <= row'[x].gen /\ issued[x] <= issued'[x] /\ refunded[x] <= refunded'[x]
               /\ WasIssued(x) => WasIssued(x)'
               /\ row'[x].gen = row[x].gen => row'[x].owner = row[x].owner
    <3>1. row[x].gen \in Nat /\ issued[x] \in Nat /\ refunded[x] \in Nat
      BY <1>1 DEF TableOK, Order
    <3>2. row'[x].gen = row[x].gen /\ row'[x].owner = row[x].owner /\ issued'[x] = issued[x] /\ refunded'[x] = refunded[x]
      BY <1>3, <1>4
    <3> QED
      BY <1>3, <3>1, <3>2 DEF WasIssued
  <2> QED
    BY <1>3, <2>1 DEF Grows
<1>8. PICK j \in Job : j = job[t]
  BY <1>1
<1>9. JobConsistent("evict", j)'
  <2>1. \A x \in OrderIDs : Reached(x, j.got[x])
    BY <1>1, <1>8 DEF TasksOK, JobConsistent
  <2> QED
    BY <1>1, <1>5, <1>7, <2>1, EmptyHanded
<1> QED
  BY <1>3, <1>5, <1>6, <1>7, <1>8, <1>9, GrowsInv DEF TaskPCs

\* What the status of a row says of its dates.
LEMMA StatusDates ==
    ASSUME TableOK, NEW x \in OrderIDs
    PROVE  /\ Status(row[x]) = "stored" =>
                  /\ row[x].dates # {} /\ "refunded_at" \notin row[x].dates
                  /\ row[x].dates \cup {"issued_at"} = {"stored_at", "issued_at"}
           /\ Status(row[x]) = "issued" =>
                  /\ row[x].dates # {} /\ "issued_at" \in row[x].dates
                  /\ row[x].dates \cup {"refunded_at"} = Dates
<1>1. row[x].dates \in {{}, {"stored_at"}, {"stored_at", "issued_at"}, Dates}
  BY DEF TableOK
<1> QED
  BY <1>1 DEF Status, Dates

\* A batch changes the dates of its orders, and nothing else.
LEMMA DatedRow ==
    ASSUME TableOK, NEW ids \in SUBSET OrderIDs, NEW date \in Dates, NEW early \in SUBSET ids,
           Dated(ids, date, early)
    PROVE  /\ \A x \in ids : /\ row'[x] \in Order
                              /\ row'[x].gen = row[x].gen /\ row'[x].owner = row[x].owner
                              /\ row'[x].dates = row[x].dates \cup {date}
           /\ \A x \in OrderIDs \ ids : row'[x] = row[x]
           /\ row' = [x \in OrderIDs |-> row'[x]]
<1>1. ASSUME NEW x \in ids
      PROVE  /\ row'[x] \in Order
             /\ row'[x].gen = row[x].gen /\ row'[x].owner = row[x].owner
             /\ row'[x].dates = row[x].dates \cup {date}
  <2>1. row[x] \in Order /\ (x \in early) \in BOOLEAN
    BY DEF TableOK
  <2>2. row'[x] = [row[x] EXCEPT !.dates = row[x].dates \cup {date}, !.early = (x \in early)]
    BY DEF Dated
  <2> QED
    BY <2>1, <2>2 DEF Order
<1> QED
  BY <1>1 DEF Dated

\* The orders of a batch are issued.
LEMMA IssueOrdersInv ==
    ASSUME IInv, NEW t \in Tasks, NEW ids \in SUBSET OrderIDs, NEW early \in SUBSET ids,
           IssueOrders(t, ids, early)
    PROVE  IInv'
<1>1. TableOK /\ \A x \in OrderIDs : RowConsistent(x)
  BY InvParts
<1>2. /\ \A x \in ids : Status(row[x]) = "stored"
      /\ Dated(ids, "issued_at", early)
      /\ issued' = [x \in OrderIDs |-> IF x \in ids THEN row[x].gen ELSE issued[x]]
      /\ Goto(t, "issue_get", [NoJob EXCEPT !.op = "issue", !.todo = ids])
      /\ UNCHANGED <<past, refunded, torn, redis>>
  BY DEF IssueOrders, Batch
<1>3. \A x \in ids : /\ row'[x] \in Order /\ row'[x].gen = row[x].gen /\ row'[x].owner = row[x].owner
                     /\ row'[x].dates = {"stored_at", "issued_at"} /\ issued'[x] = row[x].gen
  <2> SUFFICES ASSUME NEW x \in ids
               PROVE  /\ row'[x] \in Order /\ row'[x].gen = row[x].gen /\ row'[x].owner = row[x].owner
                      /\ row'[x].dates = {"stored_at", "issued_at"} /\ issued'[x] = row[x].gen
    OBVIOUS
  <2>1. /\ row'[x] \in Order /\ row'[x].gen = row[x].gen /\ row'[x].owner = row[x].owner
        /\ row'[x].dates = row[x].dates \cup {"issued_at"}
    BY <1>1, <1>2, DatedRow DEF Dates
  <2>2. row[x].dates \cup {"issued_at"} = {"stored_at", "issued_at"}
    BY <1>1, <1>2, StatusDates
  <2>3. issued'[x] = row[x].gen
    BY <1>2
  <2> QED
    BY <2>1, <2>2, <2>3
<1>4. \A x \in OrderIDs \ ids : row'[x] = row[x] /\ issued'[x] = issued[x]
  BY <1>1, <1>2, DatedRow DEF Dates
<1>5. TableOK'
  <2>1. row' \in [OrderIDs -> Order] /\ issued' \in [OrderIDs -> Nat]
    <3>1. \A x \in OrderIDs : row'[x] \in Order /\ issued'[x] \in Nat
      BY <1>1, <1>3, <1>4 DEF TableOK, Order
    <3> QED
      BY <1>1, <1>2, <3>1, DatedRow DEF Dates
  <2>2. \A x \in OrderIDs : row'[x].dates \in {{}, {"stored_at"}, {"stored_at", "issued_at"}, Dates}
    BY <1>1, <1>3, <1>4 DEF TableOK
  <2>3. \A x \in OrderIDs : row'[x].early => "issued_at" \in row'[x].dates
    BY <1>1, <1>3, <1>4 DEF TableOK, Dates
  <2> QED
    BY <1>1, <1>2, <2>1, <2>2, <2>3 DEF TableOK
<1>6. \A x \in OrderIDs : /\ row[x].gen \in Nat /\ issued[x] \in Nat /\ refunded[x] \in Nat
                          /\ issued[x] <= row[x].gen /\ refunded[x] <= row[x].gen
  BY <1>1 DEF TableOK, Order, RowConsistent
<1>7. ASSUME NEW x \in OrderIDs PROVE RowConsistent(x)'
  <2>1. CASE x \in ids
    <3>1. row[x].gen > 0 /\ refunded'[x] = refunded[x] /\ refunded[x] # row[x].gen
      <4>1. row[x].dates # {} /\ "refunded_at" \notin row[x].dates /\ RowConsistent(x)
        BY <1>1, <1>2, <2>1, StatusDates
      <4> QED
        BY <1>2, <4>1 DEF RowConsistent
    <3> QED
      BY <1>3, <1>6, <2>1, <3>1 DEF RowConsistent
  <2>2. CASE x \notin ids
    BY <1>1, <1>2, <1>4, <2>2 DEF RowConsistent
  <2> QED
    BY <2>1, <2>2
<1>8. \A x \in ids : WasIssued(x)'
  <2> SUFFICES ASSUME NEW x \in ids PROVE row'[x].gen > 0 /\ issued'[x] = row'[x].gen
    BY DEF WasIssued
  <2>1. row[x].dates # {} /\ RowConsistent(x)
    BY <1>1, <1>2, StatusDates
  <2>2. row[x].gen > 0
    BY <2>1 DEF RowConsistent
  <2> QED
    BY <1>3, <2>2
<1>9. Grows
  <2>1. ASSUME NEW x \in OrderIDs
        PROVE  /\ row[x].gen <= row'[x].gen /\ issued[x] <= issued'[x] /\ refunded[x] <= refunded'[x]
               /\ WasIssued(x) => WasIssued(x)'
               /\ row'[x].gen = row[x].gen => row'[x].owner = row[x].owner
    <3>1. CASE x \in ids
      <4>1. row'[x].gen = row[x].gen /\ row'[x].owner = row[x].owner /\ issued'[x] = row[x].gen /\ refunded'[x] = refunded[x]
        BY <1>2, <1>3, <3>1
      <4> QED
        BY <1>6, <1>8, <3>1, <4>1
    <3>2. CASE x \notin ids
      BY <1>2, <1>4, <1>6, <3>2 DEF WasIssued
    <3> QED
      BY <3>1, <3>2
  <2> QED
    BY <1>2, <2>1 DEF Grows
<1>10. PICK j \in Job : Goto(t, "issue_get", j) /\ j.got = NoJob.got /\ j.todo = ids
  <2>1. /\ [NoJob EXCEPT !.op = "issue", !.todo = ids] \in Job
        /\ [NoJob EXCEPT !.op = "issue", !.todo = ids].got = NoJob.got
        /\ [NoJob EXCEPT !.op = "issue", !.todo = ids].todo = ids
    BY JobFor
  <2> QED
    BY <1>2, <2>1
<1>11. JobConsistent("issue_get", j)'
  BY <1>5, <1>8, <1>10, EmptyHanded
<1> QED
  BY <1>2, <1>5, <1>7, <1>9, <1>10, <1>11, GrowsInv DEF TaskPCs

\* The orders of a batch are refunded.
LEMMA RefundOrdersInv ==
    ASSUME IInv, NEW t \in Tasks, NEW ids \in SUBSET OrderIDs, NEW early \in SUBSET ids,
           RefundOrders(t, ids, early)
    PROVE  IInv'
<1>1. TableOK /\ \A x \in OrderIDs : RowConsistent(x)
  BY InvParts
<1>2. /\ \A x \in ids : Status(row[x]) = "issued"
      /\ Dated(ids, "refunded_at", early)
      /\ refunded' = [x \in OrderIDs |-> IF x \in ids THEN row[x].gen ELSE refunded[x]]
      /\ Goto(t, "refund_evict", [NoJob EXCEPT !.op = "refund", !.todo = ids])
      /\ UNCHANGED <<past, issued, torn, redis>>
  BY DEF RefundOrders, Batch
<1>3. \A x \in ids : /\ row'[x] \in Order /\ row'[x].gen = row[x].gen /\ row'[x].owner = row[x].owner
                     /\ row'[x].dates = Dates /\ refunded'[x] = row[x].gen
  <2> SUFFICES ASSUME NEW x \in ids
               PROVE  /\ row'[x] \in Order /\ row'[x].gen = row[x].gen /\ row'[x].owner = row[x].owner
                      /\ row'[x].dates = Dates /\ refunded'[x] = row[x].gen
    OBVIOUS
  <2>1. /\ row'[x] \in Order /\ row'[x].gen = row[x].gen /\ row'[x].owner = row[x].owner
        /\ row'[x].dates = row[x].dates \cup {"refunded_at"}
    BY <1>1, <1>2, DatedRow DEF Dates
  <2>2. row[x].dates \cup {"refunded_at"} = Dates
    BY <1>1, <1>2, StatusDates
  <2>3. refunded'[x] = row[x].gen
    BY <1>2
  <2> QED
    BY <2>1, <2>2, <2>3
<1>4. \A x \in OrderIDs \ ids : row'[x] = row[x] /\ refunded'[x] = refunded[x]
  BY <1>1, <1>2, DatedRow DEF Dates
<1>5. TableOK'
  <2>1. row' \in [OrderIDs -> Order] /\ refunded' \in [OrderIDs -> Nat]
    <3>1. \A x \in OrderIDs : row'[x] \in Order /\ refunded'[x] \in Nat
      BY <1>1, <1>3, <1>4 DEF TableOK, Order
    <3> QED
      BY <1>1, <1>2, <3>1, DatedRow DEF Dates
  <2>2. \A x \in OrderIDs : row'[x].dates \in {{}, {"stored_at"}, {"stored_at", "issued_at"}, Dates}
    BY <1>1, <1>3, <1>4 DEF TableOK
  <2>3. \A x \in OrderIDs : row'[x].early => "issued_at" \in row'[x].dates
    BY <1>1, <1>3, <1>4 DEF TableOK, Dates
  <2> QED
    BY <1>1, <1>2, <2>1, <2>2, <2>3 DEF TableOK
<1>6. \A x \in OrderIDs : /\ row[x].gen \in Nat /\ issued[x] \in Nat /\ refunded[x] \in Nat
                          /\ issued[x] <= row[x].gen /\ refunded[x] <= row[x].gen
  BY <1>1 DEF TableOK, Order, RowConsistent
<1>7. ASSUME NEW x \in OrderIDs PROVE RowConsistent(x)'
  <2>1. CASE x \in ids
    <3>1. row[x].gen > 0 /\ issued'[x] = row[x].gen
      <4>1. row[x].dates # {} /\ "issued_at" \in row[x].dates /\ RowConsistent(x)
        BY <1>1, <1>2, <2>1, StatusDates
      <4> QED
        BY <1>2, <4>1 DEF RowConsistent
    <3> QED
      BY <1>3, <1>6, <2>1, <3>1 DEF RowConsistent, Dates
  <2>2. CASE x \notin ids
    BY <1>1, <1>2, <1>4, <2>2 DEF RowConsistent
  <2> QED
    BY <2>1, <2>2
<1>8. Grows
  <2>1. ASSUME NEW x \in OrderIDs
        PROVE  /\ row[x].gen <= row'[x].gen /\ issued[x] <= issued'[x] /\ refunded[x] <= refunded'[x]
               /\ WasIssued(x) => WasIssued(x)'
               /\ row'[x].gen = row[x].gen => row'[x].owner = row[x].owner
    <3>1. CASE x \in ids
      <4>1. /\ row'[x].gen = row[x].gen /\ row'[x].owner = row[x].owner
            /\ refunded'[x] = row[x].gen /\ issued'[x] = issued[x] /\ torn' = torn
        BY <1>2, <1>3, <3>1
      <4> QED
        BY <1>6, <4>1 DEF WasIssued
    <3>2. CASE x \notin ids
      BY <1>2, <1>4, <1>6, <3>2 DEF WasIssued
    <3> QED
      BY <3>1, <3>2
  <2> QED
    BY <1>2, <2>1 DEF Grows
<1>9. PICK j \in Job : Goto(t, "refund_evict", j) /\ j.got = NoJob.got
  <2>1. /\ [NoJob EXCEPT !.op = "refund", !.todo = ids] \in Job
        /\ [NoJob EXCEPT !.op = "refund", !.todo = ids].got = NoJob.got
    BY JobFor
  <2> QED
    BY <1>2, <2>1
<1>10. JobConsistent("refund_evict", j)'
  BY <1>5, <1>9, EmptyHanded
<1> QED
  BY <1>2, <1>5, <1>7, <1>8, <1>9, <1>10, GrowsInv DEF TaskPCs

-----------------------------------------------------------------------------

\* The invariant holds initially.
LEMMA InitInv == Init => IInv
<1> SUFFICES ASSUME Init PROVE IInv
  OBVIOUS
<1>1. TableOK
  BY NoOrderType DEF Init, TableOK, Order
<1>2. \A id \in OrderIDs : /\ row[id].gen = 0 /\ row[id].dates = {} /\ issued[id] = 0 /\ refunded[id] = 0
  BY NoOrderType DEF Init
<1>3. \A id \in OrderIDs : RowConsistent(id)
  BY <1>2 DEF RowConsistent
<1>4. EntriesOK
  BY DEF Init, EntriesOK, NeverAhead, KeptIsOver
<1>5. TasksOK
  <2>1. pc \in [Tasks -> TaskPCs] /\ job \in [Tasks -> Job]
    BY NoJobType DEF Init, TaskPCs
  <2>2. \A t \in Tasks : pc[t] = "idle" /\ job[t] = NoJob
    BY DEF Init
  <2>3. \A t \in Tasks : JobConsistent(pc[t], job[t])
    BY <1>1, <2>2, NothingGot DEF JobConsistent
  <2> QED
    BY <2>1, <2>3 DEF TasksOK
<1> QED
  BY <1>1, <1>3, <1>4, <1>5, InvParts DEF Init

\* Every step keeps the invariant.
LEMMA StepInv == IInv /\ [Next]_vars => IInv'
<1> SUFFICES ASSUME IInv, [Next]_vars PROVE IInv'
  OBVIOUS
<1>1. Procs \subseteq Tasks /\ Refresher \in Tasks /\ Users \subseteq Keys /\ AllActive \in Keys
  BY DEF Tasks, Keys
<1>2. ASSUME NEW t \in Procs, Call(t) PROVE IInv'
  BY <1>1, <1>2, ReadCallInv, AcceptOrderInv, IssueOrdersInv, RefundOrdersInv DEF Call
<1>3. ASSUME NEW t \in Procs, Run(t) PROVE IInv'
  BY <1>1, <1>3, ReadingInv, InitQueriesInv, IssueGetInv, WritingInv, IndexInv, ReturnDeleteInv DEF Run
<1>4. ASSUME NEW k \in {AllActive, History}, CacheRefresh(k) PROVE IInv'
  BY <1>1, <1>4, ReadCallInv
<1>5. ASSUME NEW t \in Tasks, Update(t) \/ UpdateFails(t) \/ ReadDBFails(t) \/ Die(t) PROVE IInv'
  BY <1>5, ReadingInv, IndexInv DEF Update
<1>6. CASE UNCHANGED vars
  <2>1. UNCHANGED <<db, entry, index, pc, job>>
    BY <1>6 DEF vars, redis
  <2> QED
    BY <2>1, InvParts, InvPartsNext, TableKept, EntriesRest, TasksRest
<1> QED
  BY <1>2, <1>3, <1>4, <1>5, <1>6, DeadlineInv, ExpiryInv DEF Next

\* The inductive invariant of the cache.
THEOREM CacheInvariant == Spec => []IInv
BY InitInv, StepInv, PTL DEF Spec

\* The variables keep their types.
THEOREM TypeCorrect == Spec => []TypeOK
<1>1. IInv => TypeOK
  BY DEF IInv
<1> QED
  BY <1>1, CacheInvariant, PTL

\* The cache is never ahead of the table.
THEOREM CacheIsNeverAhead == Spec => []NeverAhead
<1>1. IInv => NeverAhead
  BY DEF IInv
<1> QED
  BY <1>1, CacheInvariant, PTL

\* Only what is over stays in the cache without a TTL.
THEOREM OnlyTheOverIsKept == Spec => []KeptIsOver
<1>1. IInv => KeptIsOver
  BY DEF IInv
<1> QED
  BY <1>1, CacheInvariant, PTL

\* A cached order that is still the one in the table shows nothing the table has not.
THEOREM CacheIsTrueToRow == Spec => []TrueToRow
<1>1. IInv => TrueToRow
  <2> SUFFICES ASSUME IInv, NEW id \in OrderIDs, entry[id] # NoEntry, row[id].dates # {},
                      entry[id].gen = row[id].gen
               PROVE  /\ entry[id].owner = row[id].owner
                      /\ id \notin torn => entry[id].dates \subseteq row[id].dates
    BY DEF TrueToRow
  <2>1. /\ Reached(id, entry[id]) /\ RowConsistent(id) /\ entry[id] \in Entry
        /\ row[id].gen \in Nat /\ issued[id] \in Nat /\ refunded[id] \in Nat
        /\ row[id].dates \in {{}, {"stored_at"}, {"stored_at", "issued_at"}, Dates}
    BY DEF IInv, TypeOK, NeverAhead, Order
  <2>2. row[id].gen > 0 /\ issued[id] <= row[id].gen /\ refunded[id] <= row[id].gen
    BY <2>1 DEF RowConsistent
  <2>3. entry[id].owner = row[id].owner
    BY <2>1, <2>2 DEF Reached
  <2>4. ASSUME id \notin torn, "issued_at" \in entry[id].dates PROVE "issued_at" \in row[id].dates
    <3>1. issued[id] = row[id].gen
      BY <2>1, <2>2, <2>4 DEF Reached
    <3> QED
      BY <2>1, <2>2, <2>4, <3>1 DEF RowConsistent
  <2>5. ASSUME "refunded_at" \in entry[id].dates PROVE "refunded_at" \in row[id].dates
    <3>1. refunded[id] = row[id].gen
      BY <2>1, <2>2, <2>5 DEF Reached
    <3> QED
      BY <2>1, <3>1 DEF RowConsistent
  <2>6. "stored_at" \in row[id].dates /\ entry[id].dates \subseteq Dates
    BY <2>1 DEF Dates, Entry
  <2> QED
    BY <2>3, <2>4, <2>5, <2>6 DEF Dates
<1> QED
  BY <1>1, CacheInvariant, PTL

=============================================================================
