----------------------------- MODULE OrderCache -----------------------------
(***************************************************************************)
(* The Redis cache of the order service (internal/cache/cache.go and the    *)
(* callers in internal/service/storage_service.go): cached orders, the      *)
(* index of the active orders of every user, of all active orders, and of   *)
(* the history, kept next to the table "orders".                            *)
(*                                                                         *)
(* The writes to the table are the commits of OrderStore.  An order is      *)
(* known by its id and its generation, because an id can be accepted again  *)
(* after a return.  Of its dates the module keeps which of them are set     *)
(* (none: the order is not in the table), and whether the last one is older *)
(* than the one before it, because its batch read the clock and then waited *)
(* for the row: Order.Status goes by the latest date.  Every Redis command  *)
(* is a step of its own: the pipelines are not transactions.                *)
(***************************************************************************)
EXTENDS Naturals, FiniteSets, FiniteSetsExt

CONSTANTS
    OrderIDs, Users,
    Procs,        \* goroutines of the service: requests and what they leave behind
    Refresher,    \* the goroutine of CacheRefresh
    AllActive,    \* the key "all_active_orders"
    History,      \* the key "order_history"
    MaxGen,       \* bound: how often an id is accepted
    Calls,        \* the operations that are called
    Faults        \* TRUE if Redis, the database and the process may fail

ASSUME ProcsAssumption == Refresher \notin Procs
ASSUME KeysAssumption  == AllActive # History /\ {AllActive, History} \cap Users = {}
ASSUME IdsAssumption   == OrderIDs # {} /\ Users # {}
ASSUME BoundAssumption == MaxGen \in Nat /\ Faults \in BOOLEAN

Keys  == Users \cup {AllActive, History}
Tasks == Procs \cup {Refresher}
Dates == {"stored_at", "issued_at", "refunded_at"}

\* early: the date of its last stage is older than that of the stage before.
Order == [gen : Nat, owner : Users, dates : SUBSET Dates, early : BOOLEAN]

\* What ends the time of an order: its expiry, or 48 hours since its issue.
Deadlines == {"expiry", "early issue", "issue"}

VARIABLES
    row,        \* order_id -> the row of the table; without dates: no row
    past,       \* <<id, gen, deadline>>: the deadlines that have passed
    issued,     \* order_id -> the last generation that got an issued_at (history)
    refunded,   \* order_id -> the last generation that got a refunded_at (history)
    torn,       \* ids under which a return deleted a row with an issued_at (history)
    entry,      \* order_id -> what is cached under "order:<id>"
    index,      \* key -> the ids of the set under the key; {}: no such key
    pc,         \* task -> the command it is about to give
    job         \* task -> its local variables

db    == <<row, past, issued, refunded, torn>>
redis == <<entry, index>>
vars  == <<db, redis, pc, job>>

NoEntry == [kept |-> "none"]

\* kept: the entry has no TTL.
Entry == [gen : Nat, owner : Users, dates : SUBSET Dates, early : BOOLEAN, kept : BOOLEAN]

\* key and ids are the index the task works on, todo the orders it goes through,
\* got the orders it has read.
Job == [op : {"none", "accept", "return", "issue", "refund", "read", "refresh", "init"},
        id : OrderIDs, key : Keys, ids : SUBSET OrderIDs, todo : SUBSET OrderIDs,
        got : [OrderIDs -> Order]]

TaskPCs == {"idle", "set", "history_add", "return_check", "return_delete", "evict",
            "index_read", "index_del", "index_add",
            "issue_get", "issue_set", "refund_evict", "refund_history",
            "read_index", "read_db", "read_get", "read_find", "read_set",
            "init_query", "init_find", "init_set",
            "history_index", "history_batch", "history_db", "answered"}

NoOrder == [gen |-> 0, owner |-> CHOOSE u \in Users : TRUE, dates |-> {}, early |-> FALSE]

NoJob == [op |-> "none", id |-> CHOOSE id \in OrderIDs : TRUE, key |-> AllActive,
          ids |-> {}, todo |-> {}, got |-> [id \in OrderIDs |-> NoOrder]]

TypeOK ==
    /\ row      \in [OrderIDs -> Order]
    /\ \A id \in OrderIDs : row[id].dates \in {{}, {"stored_at"}, {"stored_at", "issued_at"}, Dates}
    /\ \A id \in OrderIDs : row[id].early => "issued_at" \in row[id].dates
    /\ past     \in SUBSET (OrderIDs \X Nat \X Deadlines)
    /\ issued   \in [OrderIDs -> Nat]
    /\ refunded \in [OrderIDs -> Nat]
    /\ torn     \in SUBSET OrderIDs
    /\ entry    \in [OrderIDs -> Entry \cup {NoEntry}]
    /\ index    \in [Keys -> SUBSET OrderIDs]
    /\ pc       \in [Tasks -> TaskPCs]
    /\ job      \in [Tasks -> Job]

Init ==
    /\ row      = [id \in OrderIDs |-> NoOrder]
    /\ past     = {}
    /\ issued   = [id \in OrderIDs |-> 0]
    /\ refunded = [id \in OrderIDs |-> 0]
    /\ torn     = {}
    /\ entry    = [id \in OrderIDs |-> NoEntry]
    /\ index    = [k \in Keys |-> {}]
    /\ pc       = [t \in Tasks |-> "idle"]
    /\ job      = [t \in Tasks |-> NoJob]

-----------------------------------------------------------------------------
\* Tasks.

Goto(t, label, j) ==
    /\ pc'  = [pc EXCEPT ![t] = label]
    /\ job' = [job EXCEPT ![t] = j]

Finish(t) == Goto(t, "idle", NoJob)

\* The rest of a loop over orders.
Done(t, id, label) ==
    LET rest == job[t].todo \ {id}
    IN IF rest = {} THEN Finish(t)
       ELSE Goto(t, label, [job[t] EXCEPT !.todo = rest, !.got = NoJob.got])

\* Order.Status.
Status(o) ==
    CASE o.dates = {}                -> ""
      [] "refunded_at" \in o.dates   -> IF o.early THEN "issued" ELSE "refunded"
      [] o.dates = {"stored_at"}     -> "stored"
      [] OTHER                       -> IF o.early THEN "stored" ELSE "issued"

\* calculateOrderTTL.  A TTL of zero or less makes an entry that does not expire.  The
\* 48 hours of an issue that is repeated because its date was early run from both dates;
\* two early dates of one order are not told apart.
Deadline(o) ==
    IF "issued_at" \notin o.dates THEN "expiry"
    ELSE IF o.early /\ "refunded_at" \notin o.dates THEN "early issue" ELSE "issue"

\* Mutant: the time since the deadline instead of the time until it.
TTLReversed(id, o) == "refunded_at" \notin o.dates /\ <<id, o.gen, Deadline(o)>> \in past

HasTTL(id, o) == "refunded_at" \notin o.dates /\ <<id, o.gen, Deadline(o)>> \notin past

Cached(o, kept) ==
    [gen |-> o.gen, owner |-> o.owner, dates |-> o.dates, early |-> o.early, kept |-> kept]

\* SetOrder: the order as the task has it, which may be older than what is cached.
SetOrder(id, o, kept) ==
    /\ \/ entry' = [entry EXCEPT ![id] = Cached(o, kept)]
       \/ Faults /\ entry' = entry
    /\ UNCHANGED <<db, index>>

DeleteOrder(id) ==
    /\ entry' \in {[entry EXCEPT ![id] = NoEntry]} \cup (IF Faults THEN {entry} ELSE {})
    /\ UNCHANGED <<db, index>>

ChangeIndex(k, ids) ==
    /\ index' \in {[index EXCEPT ![k] = ids]} \cup (IF Faults THEN {index} ELSE {})
    /\ UNCHANGED <<db, entry>>

-----------------------------------------------------------------------------
\* The table.

Existing == {id \in OrderIDs : row[id].dates # {}}

\* GetAllActiveOrderIDs.
Active(id) ==
    LET o == row[id] IN
    /\ o.dates # {} /\ "refunded_at" \notin o.dates
    /\ <<id, o.gen, Deadline(o)>> \notin past

\* What the queries GetUserActiveOrderIDs, GetAllActiveOrderIDs and
\* GetHistoryOrderIDs select.
Query(k) ==
    IF k = History THEN Existing
    ELSE {id \in OrderIDs : Active(id) /\ k \in {AllActive, row[id].owner}}

\* Rows are lost: the queries above do not ask rows.Err when rows.Next returns false.
QueryResults(k) == {Query(k)} \cup (IF Faults THEN SUBSET Query(k) ELSE {})

\* The expiry of an order passes, or 48 hours since its issue, whatever has become of
\* the order since.  Those since an early date pass before those since a later one.
DeadlinePasses(id) ==
    /\ \E d \in Deadlines :
       \E gen \in 1..(IF d = "expiry" THEN row[id].gen ELSE issued[id]) :
           /\ d = "issue" => /\ ~(gen = row[id].gen /\ Status(row[id]) = "stored")
                             /\ <<id, gen, "early issue">> \in past
           /\ <<id, gen, d>> \notin past
           /\ past' = past \cup {<<id, gen, d>>}
    /\ UNCHANGED <<row, issued, refunded, torn, redis, pc, job>>

-----------------------------------------------------------------------------
(***************************************************************************)
(* AcceptOrder: once the order is in the table a goroutine caches it, adds  *)
(* it to the history, and reads, extends and writes its user's index.       *)
(***************************************************************************)
AcceptOrder(t, id, u) ==
    LET o == [gen |-> row[id].gen + 1, owner |-> u, dates |-> {"stored_at"}, early |-> FALSE]
    IN
    /\ pc[t] = "idle"
    /\ row[id].dates = {} /\ row[id].gen < MaxGen
    /\ row' = [row EXCEPT ![id] = o]
    /\ Goto(t, "set", [NoJob EXCEPT !.op = "accept", !.id = id, !.key = u, !.got[id] = o])
    /\ UNCHANGED <<past, issued, refunded, torn, redis>>

AcceptSet(t) ==
    LET id == job[t].id
        o  == job[t].got[id]
    IN /\ pc[t] = "set"
       /\ SetOrder(id, o, ~HasTTL(id, o))
       /\ Goto(t, "history_add", [job[t] EXCEPT !.got = NoJob.got])

AddToHistory(t) ==
    /\ pc[t] = "history_add"
    /\ ChangeIndex(History, index[History] \cup {job[t].id})
    /\ Goto(t, "index_read", job[t])

\* The ids with the order's own added or left out; a failed read counts as empty.
IndexRead(t) ==
    /\ pc[t] = "index_read"
    /\ \E ids \in {index[job[t].key]} \cup (IF Faults THEN {{}} ELSE {}) :
           Goto(t, "index_del", [job[t] EXCEPT
               !.ids = IF job[t].op = "accept" THEN ids \cup {job[t].id}
                                               ELSE ids \ {job[t].id}])
    /\ UNCHANGED <<db, redis>>

-----------------------------------------------------------------------------
(***************************************************************************)
(* UpdateUserActiveOrders, UpdateAllActiveOrders, RefreshHistory and        *)
(* DeleteUserIndex: DEL and, if there are ids, SADD.                        *)
(***************************************************************************)

\* What comes after the pipeline, or after its first error.
AfterUpdate(t) ==
    CASE job[t].op = "read" /\ job[t].ids # {} ->
           Goto(t, "read_get", [job[t] EXCEPT !.todo = job[t].ids, !.ids = {}])
      [] job[t].op = "init" -> Goto(t, "init_find", [job[t] EXCEPT !.ids = {}])
      [] OTHER -> Finish(t)

\* Mutant: the pipeline has lost its DEL.
IndexNotDeleted(t) ==
    /\ pc[t] = "index_del"
    /\ IF job[t].ids = {} THEN AfterUpdate(t) ELSE Goto(t, "index_add", job[t])
    /\ UNCHANGED <<db, redis>>

IndexDel(t) ==
    /\ pc[t] = "index_del"
    /\ index' = [index EXCEPT ![job[t].key] = {}]
    /\ IF job[t].ids = {} THEN AfterUpdate(t) ELSE Goto(t, "index_add", job[t])
    /\ UNCHANGED <<db, entry>>

IndexAdd(t) ==
    /\ pc[t] = "index_add"
    /\ index' = [index EXCEPT ![job[t].key] = @ \cup job[t].ids]
    /\ AfterUpdate(t)
    /\ UNCHANGED <<db, entry>>

UpdateFails(t) ==
    /\ Faults
    /\ pc[t] \in {"index_del", "index_add"}
    /\ AfterUpdate(t)
    /\ UNCHANGED <<db, redis>>

-----------------------------------------------------------------------------
(***************************************************************************)
(* ReturnOrder: the owner is read first; the status and the expiry are      *)
(* checked on a second reading, and the row is deleted whatever it is then. *)
(***************************************************************************)
ReturnOrder(t, id) ==
    /\ pc[t] = "idle"
    /\ row[id].dates # {}
    /\ Goto(t, "return_check",
            [NoJob EXCEPT !.op = "return", !.id = id, !.key = row[id].owner])
    /\ UNCHANGED <<db, redis>>

ReturnCheck(t) ==
    LET id == job[t].id IN
    /\ pc[t] = "return_check"
    /\ IF Status(row[id]) = "stored" /\ <<id, row[id].gen, "expiry">> \in past
       THEN Goto(t, "return_delete", job[t])
       ELSE Finish(t)
    /\ UNCHANGED <<db, redis>>

ReturnDelete(t) ==
    /\ pc[t] = "return_delete"
    /\ row'  = [row EXCEPT ![job[t].id].dates = {}, ![job[t].id].early = FALSE]
    /\ torn' = IF "issued_at" \in row[job[t].id].dates THEN torn \cup {job[t].id} ELSE torn
    /\ Goto(t, "evict", job[t])
    /\ UNCHANGED <<past, issued, refunded, redis>>

ReturnEvict(t) ==
    /\ pc[t] = "evict"
    /\ DeleteOrder(job[t].id)
    /\ Goto(t, "index_read", job[t])

-----------------------------------------------------------------------------
(***************************************************************************)
(* IssueOrders: the cached orders of the batch get a second reading of the  *)
(* clock as their issued_at.  The order was valid when its batch checked    *)
(* it; its expiry may have passed before the commit.  One whose issued_at   *)
(* is early is still a stored one.                                          *)
(***************************************************************************)
\* The orders of a batch belong to the user it names and have the status it asks for.
Batch(ids, status) ==
    \E u \in Users : \A id \in ids : row[id].owner = u /\ Status(row[id]) = status

\* The batch sets a date; the clock was read before some of the rows were last changed.
Dated(ids, date, early) ==
    row' = [id \in OrderIDs |->
               IF id \in ids
               THEN [row[id] EXCEPT !.dates = @ \cup {date}, !.early = (id \in early)]
               ELSE row[id]]

\* Mutant: the cache is brought up to date before the batch is committed.
IssueUncommitted(t, ids, early) ==
    /\ pc[t] = "idle"
    /\ Batch(ids, "stored")
    /\ Goto(t, "issue_get", [NoJob EXCEPT !.op = "issue", !.todo = ids])
    /\ UNCHANGED <<db, redis>>

IssueOrders(t, ids, early) ==
    /\ pc[t] = "idle"
    /\ Batch(ids, "stored")
    /\ Dated(ids, "issued_at", early)
    /\ issued' = [id \in OrderIDs |-> IF id \in ids THEN row[id].gen ELSE issued[id]]
    /\ Goto(t, "issue_get", [NoJob EXCEPT !.op = "issue", !.todo = ids])
    /\ UNCHANGED <<past, refunded, torn, redis>>

\* Orders that are not cached, or cannot be read, are passed over.
IssueGet(t) ==
    /\ pc[t] = "issue_get"
    /\ \E id \in job[t].todo :
           \/ /\ entry[id] # NoEntry
              /\ Goto(t, "issue_set", [job[t] EXCEPT !.id = id, !.got[id] =
                     [gen |-> entry[id].gen, owner |-> entry[id].owner,
                      dates |-> entry[id].dates \cup {"issued_at"},
                      early |-> "refunded_at" \in entry[id].dates]])
           \/ /\ Faults \/ entry[id] = NoEntry
              /\ Done(t, id, "issue_get")
    /\ UNCHANGED <<db, redis>>

\* 48 hours from now, unless the cached order is a refunded one.
IssueSet(t) ==
    LET id == job[t].id
        o  == job[t].got[id]
    IN /\ pc[t] = "issue_set"
       /\ SetOrder(id, o, "refunded_at" \in o.dates)
       /\ Done(t, id, "issue_get")

\* RefundOrders: the order leaves the cache, and the history.
RefundOrders(t, ids, early) ==
    /\ pc[t] = "idle"
    /\ Batch(ids, "issued")
    /\ Dated(ids, "refunded_at", early)
    /\ refunded' = [id \in OrderIDs |-> IF id \in ids THEN row[id].gen ELSE refunded[id]]
    /\ Goto(t, "refund_evict", [NoJob EXCEPT !.op = "refund", !.todo = ids])
    /\ UNCHANGED <<past, issued, torn, redis>>

RefundEvict(t) ==
    /\ pc[t] = "refund_evict"
    /\ \E id \in job[t].todo :
           /\ DeleteOrder(id)
           /\ Goto(t, "refund_history", [job[t] EXCEPT !.id = id])

RefundHistory(t) ==
    /\ pc[t] = "refund_history"
    /\ ChangeIndex(History, index[History] \ {job[t].id})
    /\ Done(t, job[t].id, "refund_evict")

-----------------------------------------------------------------------------
(***************************************************************************)
(* GetUserActiveOrders and GetAllActiveOrders: the index, or the table if   *)
(* the index is empty; then order by order from the cache or the table.     *)
(***************************************************************************)
GetActiveOrders(t, k) ==
    /\ pc[t] = "idle"
    /\ Goto(t, "read_index", [NoJob EXCEPT !.op = "read", !.key = k])
    /\ UNCHANGED <<db, redis>>

ReadIndex(t) ==
    LET ids == index[job[t].key] IN
    /\ pc[t] = "read_index"
    /\ \/ /\ ids # {}
          /\ Goto(t, "read_get", [job[t] EXCEPT !.todo = ids])
       \/ /\ Faults \/ ids = {}
          /\ Goto(t, "read_db", job[t])
    /\ UNCHANGED <<db, redis>>

\* Also the query of RefreshActiveOrders, RefreshHistory and InitCache.
ReadDB(t) ==
    /\ pc[t] = "read_db"
    /\ \E ids \in QueryResults(job[t].key) :
           Goto(t, "index_del", [job[t] EXCEPT !.ids = ids])
    /\ UNCHANGED <<db, redis>>

ReadDBFails(t) ==
    /\ Faults
    /\ pc[t] = "read_db"
    /\ IF job[t].op = "init" THEN Goto(t, "init_find", job[t]) ELSE Finish(t)
    /\ UNCHANGED <<db, redis>>

ReadGet(t) ==
    /\ pc[t] = "read_get"
    /\ \E id \in job[t].todo :
           \/ /\ Faults \/ entry[id] # NoEntry
              /\ Done(t, id, "read_get")
           \/ /\ entry[id] = NoEntry
              /\ Goto(t, "read_find", [job[t] EXCEPT !.id = id])
    /\ UNCHANGED <<db, redis>>

ReadFind(t) ==
    LET id == job[t].id IN
    /\ pc[t] = "read_find"
    /\ \/ /\ row[id].dates # {}
          /\ Goto(t, "read_set", [job[t] EXCEPT !.got[id] = row[id]])
       \/ /\ Faults \/ row[id].dates = {}
          /\ Done(t, id, "read_get")
    /\ UNCHANGED <<db, redis>>

ReadSet(t) ==
    LET id == job[t].id
        o  == job[t].got[id]
    IN /\ pc[t] = "read_set"
       /\ SetOrder(id, o, ~HasTTL(id, o))
       /\ Done(t, id, "read_get")

-----------------------------------------------------------------------------
(***************************************************************************)
(* GetOrderHistoryV2.  The table is asked for a page of zero orders.        *)
(***************************************************************************)
GetOrderHistoryV2(t) ==
    /\ pc[t] = "idle"
    /\ Goto(t, "history_index", [NoJob EXCEPT !.op = "read", !.key = History])
    /\ UNCHANGED <<db, redis>>

HistoryIndex(t) ==
    /\ pc[t] = "history_index"
    /\ \E ids \in {index[History]} \cup (IF Faults THEN {{}} ELSE {}) :
           Goto(t, "history_batch", [job[t] EXCEPT !.ids = ids])
    /\ UNCHANGED <<db, redis>>

HistoryBatch(t) ==
    /\ pc[t] = "history_batch"
    /\ LET hits == {id \in job[t].ids : entry[id] # NoEntry}
       IN \/ /\ hits # {}
             /\ Goto(t, "answered", [job[t] EXCEPT !.ids = hits])
          \/ /\ Faults \/ hits = {}
             /\ Goto(t, "history_db", [job[t] EXCEPT !.ids = {}])
    /\ UNCHANGED <<db, redis>>

\* LIMIT n.
Page(ids, n) == {p \in SUBSET ids : Cardinality(p) = Min({n, Cardinality(ids)})}

HistoryDB(t) ==
    /\ pc[t] = "history_db"
    /\ \/ \E p \in Page(Existing, 0) : Goto(t, "answered", [job[t] EXCEPT !.ids = p])
       \/ Faults /\ Finish(t)
    /\ UNCHANGED <<db, redis>>

HistoryAnswered(t) ==
    /\ pc[t] = "answered"
    /\ Finish(t)
    /\ UNCHANGED <<db, redis>>

-----------------------------------------------------------------------------
\* CacheRefresh: one goroutine, two tickers.
CacheRefresh(k) ==
    /\ pc[Refresher] = "idle"
    /\ Goto(Refresher, "read_db", [NoJob EXCEPT !.op = "refresh", !.key = k])
    /\ UNCHANGED <<db, redis>>

(***************************************************************************)
(* InitCache, at the start of a process: refresh the index of all active    *)
(* orders and cache them, then the same for the history, whose ids are      *)
(* asked for twice.                                                         *)
(***************************************************************************)
InitCache(t) ==
    /\ pc[t] = "idle"
    /\ Goto(t, "init_query", [NoJob EXCEPT !.op = "init", !.key = AllActive])
    /\ UNCHANGED <<db, redis>>

InitNext(t) ==
    IF job[t].key = AllActive
    THEN Goto(t, "init_query", [NoJob EXCEPT !.op = "init", !.key = History])
    ELSE Finish(t)

InitQuery(t) ==
    /\ pc[t] = "init_query"
    /\ \/ \E ids \in QueryResults(job[t].key) :
              IF job[t].key = AllActive
              THEN Goto(t, "index_del", [job[t] EXCEPT !.ids = ids, !.todo = ids])
              ELSE Goto(t, "read_db", [job[t] EXCEPT !.todo = ids])
       \/ Faults /\ InitNext(t)
    /\ UNCHANGED <<db, redis>>

\* FindOrdersByIDs: one query for all of them, an error if there are none.
InitFind(t) ==
    LET found == job[t].todo \cap Existing IN
    /\ pc[t] = "init_find"
    /\ \/ /\ found # {}
          /\ Goto(t, "init_set", [job[t] EXCEPT !.todo = found, !.got =
                 [id \in OrderIDs |-> IF id \in found THEN row[id] ELSE NoOrder]])
       \/ (Faults \/ found = {}) /\ InitNext(t)
    /\ UNCHANGED <<db, redis>>

InitSet(t) ==
    /\ pc[t] = "init_set"
    /\ \E id \in job[t].todo :
           LET o == job[t].got[id] IN
           /\ SetOrder(id, o, ~HasTTL(id, o))
           /\ IF job[t].todo = {id} THEN InitNext(t)
              ELSE Goto(t, "init_set", [job[t] EXCEPT !.todo = @ \ {id}, !.got[id] = NoOrder])
-----------------------------------------------------------------------------
\* The environment.

\* The TTL of an entry runs out.
EntryExpires(id) ==
    /\ entry[id] # NoEntry /\ entry[id].kept = FALSE
    /\ entry' = [entry EXCEPT ![id] = NoEntry]
    /\ UNCHANGED <<db, index, pc, job>>

\* The 14 days of an index of active orders run out; the history has no TTL.
IndexExpires(k) ==
    /\ k # History /\ index[k] # {}
    /\ index' = [index EXCEPT ![k] = {}]
    /\ UNCHANGED <<db, entry, pc, job>>

\* The goroutine ends with its process, or its context does: its remaining commands
\* are never given.
Die(t) ==
    /\ Faults
    /\ pc[t] # "idle"
    /\ Finish(t)
    /\ UNCHANGED <<db, redis>>

Call(t) ==
    \/ "accept" \in Calls /\ \E id \in OrderIDs, u \in Users : AcceptOrder(t, id, u)
    \/ "return" \in Calls /\ \E id \in OrderIDs : ReturnOrder(t, id)
    \/ "issue"  \in Calls /\ \E ids \in SUBSET OrderIDs \ {{}} : \E early \in SUBSET ids :
                               IssueOrders(t, ids, early)
    \/ "refund" \in Calls /\ \E ids \in SUBSET OrderIDs \ {{}} : \E early \in SUBSET ids :
                               RefundOrders(t, ids, early)
    \/ "user"   \in Calls /\ \E u \in Users : GetActiveOrders(t, u)
    \/ "all"    \in Calls /\ GetActiveOrders(t, AllActive)
    \/ "history" \in Calls /\ GetOrderHistoryV2(t)
    \/ "init"   \in Calls /\ InitCache(t)

Update(t) == ReadDB(t) \/ IndexDel(t) \/ IndexAdd(t)

Run(t) ==
    \/ AcceptSet(t) \/ AddToHistory(t) \/ IndexRead(t)
    \/ ReturnCheck(t) \/ ReturnDelete(t) \/ ReturnEvict(t)
    \/ IssueGet(t) \/ IssueSet(t) \/ RefundEvict(t) \/ RefundHistory(t)
    \/ ReadIndex(t) \/ ReadGet(t) \/ ReadFind(t) \/ ReadSet(t)
    \/ HistoryIndex(t) \/ HistoryBatch(t) \/ HistoryDB(t) \/ HistoryAnswered(t)
    \/ InitQuery(t) \/ InitFind(t) \/ InitSet(t)

Next ==
    \/ \E t \in Procs : Call(t) \/ Run(t)
    \/ \E k \in {AllActive, History} : "refresh" \in Calls /\ CacheRefresh(k)
    \/ \E t \in Tasks : Update(t) \/ UpdateFails(t) \/ ReadDBFails(t) \/ Die(t)
    \/ \E id \in OrderIDs : DeadlinePasses(id) \/ EntryExpires(id)
    \/ \E k \in Keys : IndexExpires(k)

Spec == Init /\ [][Next]_vars

(***************************************************************************)
(* Fairness: both tickers go on, no command of the refresher fails, and no  *)
(* query of it loses rows, every time, and every goroutine runs.            *)
(***************************************************************************)
Whole(k) == job[Refresher].key = k /\ job[Refresher].ids = Query(k)

Fairness ==
    /\ \A k \in {AllActive, History} :
           /\ SF_vars("refresh" \in Calls /\ CacheRefresh(k))
           /\ SF_vars(job[Refresher].key = k /\ ReadDB(Refresher) /\ Whole(k)')
           /\ SF_vars(Whole(k) /\ IndexDel(Refresher))
           /\ SF_vars(Whole(k) /\ IndexAdd(Refresher))
    /\ WF_vars(Update(Refresher))
    /\ \A t \in Procs : WF_vars(Run(t) \/ Update(t))

FairSpec == Spec /\ Fairness

-----------------------------------------------------------------------------
(***************************************************************************)
(* Properties.                                                              *)
(***************************************************************************)

Reached(id, o) ==
    /\ o.gen <= row[id].gen
    /\ "issued_at" \in o.dates => o.gen <= issued[id] \/ id \in torn
    /\ "refunded_at" \in o.dates => o.gen <= refunded[id]
    /\ o.gen = row[id].gen /\ o.gen > 0 => o.owner = row[id].owner

\* The cache is never ahead of the table: it shows a generation of an order only after
\* it was accepted, and a stage only after an order with this id, of this generation or
\* a later one, has reached it.  (A later one: IssueOrders also marks a stale entry of
\* an order that was returned before.)  The one exception are ids under which a return
\* has deleted an order with an issued_at: a later order is then marked by the issue of the
\* first.
\* And the last order accepted under an id is cached under the name of its owner only,
\* however many owners the id has had.
NeverAhead == \A id \in OrderIDs : entry[id] # NoEntry => Reached(id, entry[id])

\* A cached order that is still the one in the table shows nothing the table has not:
\* the same owner, and no date that is not set in the row, whatever readers, batches and
\* returns of earlier orders with its id have left behind.  (Torn ids: see NeverAhead.)
TrueToRow ==
    \A id \in OrderIDs :
        entry[id] # NoEntry /\ row[id].dates # {} /\ entry[id].gen = row[id].gen =>
            /\ entry[id].owner = row[id].owner
            /\ id \notin torn => entry[id].dates \subseteq row[id].dates

\* Only what is over stays in the cache without a TTL: an order that got a refunded_at, or
\* whose deadline, by the dates that are cached, has passed.
KeptIsOver ==
    \A id \in OrderIDs :
        entry[id] # NoEntry /\ entry[id].kept = TRUE =>
            \/ entry[id].gen <= refunded[id]
            \/ <<id, entry[id].gen, Deadline(entry[id])>> \in past

\* The periodic refresh repairs what lost commands, interleaved pipelines and stale
\* readers have done to the two common indexes.
Repaired == \A k \in {AllActive, History} : []<>(index[k] = Query(k))

\* An active order is soon in its user's list of active orders: in the index, or in the
\* table if the index is empty.
Listed ==
    \A id \in OrderIDs : \A u \in Users :
        (id \in Query(u)) ~> (id \notin Query(u) \/ id \in index[u] \/ index[u] = {})

\* If the history is not in the cache it comes from the table.
HistoryServed ==
    [][\A t \in Procs : pc[t] = "history_db" /\ pc'[t] = "answered" =>
           job'[t].ids = Existing]_vars

(***************************************************************************)
(* The inductive invariant.                                                 *)
(***************************************************************************)

\* The history variables agree with the row: the last generation that was issued is the
\* one of the row only if the row says so, or was torn; and so for the last that was
\* refunded, as long as there is a row.
RowConsistent(id) ==
    LET o == row[id] IN
    /\ issued[id] <= o.gen /\ refunded[id] <= o.gen
    /\ o.dates # {} => o.gen > 0
    /\ "issued_at" \in o.dates => issued[id] = o.gen
    /\ "refunded_at" \in o.dates => refunded[id] = o.gen
    /\ issued[id] = o.gen /\ o.gen > 0 => "issued_at" \in o.dates \/ id \in torn
    /\ refunded[id] = o.gen /\ o.dates # {} => "refunded_at" \in o.dates

\* Whatever generation is cached under the id, its like has been issued.
WasIssued(id) == id \in torn \/ (issued[id] = row[id].gen /\ row[id].gen > 0)

\* A task holds no order that is ahead of the table, and IssueOrders marks only cached
\* orders whose id was issued.
JobConsistent(l, j) ==
    /\ \A id \in OrderIDs : Reached(id, j.got[id])
    /\ l \in {"issue_get", "issue_set"} => \A id \in j.todo : WasIssued(id)

IInv ==
    /\ TypeOK
    /\ NeverAhead
    /\ KeptIsOver
    /\ \A id \in OrderIDs : RowConsistent(id)
    /\ \A t \in Tasks : JobConsistent(pc[t], job[t])

=============================================================================
