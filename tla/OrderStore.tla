----------------------------- MODULE OrderStore -----------------------------
(***************************************************************************)
(* The table "orders" under concurrent requests: the four operations that   *)
(* change it (accept, return, issue, refund), from the service down to the  *)
(* SQL statements, with the row locks PostgreSQL takes for them.            *)
(*                                                                         *)
(* A request is a handler goroutine.  It runs one operation at a time, in   *)
(* steps that each contain at most one database round trip or one reading   *)
(* of the clock on which something depends; between two steps any other     *)
(* request, a clock tick, a database failure or a crash may come.           *)
(*                                                                         *)
(* Updates of a running transaction stay in the locals of its request       *)
(* (held, done) until Commit: nobody else sees them (read committed).       *)
(***************************************************************************)
EXTENDS OrderDomain, Sequences, FiniteSets

CONSTANTS
    Requests,       \* slots of concurrently running requests
    OrderIDs,
    Expiries,       \* expiry dates a courier may send
    Batches,        \* lists of ids a client may send to issue or refund
    RefundPeriod,   \* 48 hours, in ticks
    MaxTime,        \* bound: the last tick of the clock
    NoOrder,        \* the order_id has no row
    NoRequest,      \* the row is not locked
    NoUser          \* user_id of a request that has none

ASSUME DatesAssumption ==
    /\ Expiries \subseteq Nat
    /\ RefundPeriod \in Nat
    /\ MaxTime \in Nat
ASSUME BatchesAssumption == Batches \subseteq Seq(OrderIDs)
ASSUME RequestsAssumption == IsFiniteSet(Requests)
ASSUME NullsAssumption ==
    /\ NoOrder \notin Order
    /\ NoRequest \notin Requests

VARIABLES
    clock,   \* time.Now()
    orders,  \* order_id -> its committed row, or NoOrder
    lock,    \* order_id -> the request whose transaction holds the row lock
    pc,      \* request -> the step it takes next
    req,     \* request -> the arguments it was called with
    held,    \* request -> the date in its local variable (see HeldDate)
    next,    \* request -> index of the id the batch loop is at
    done,    \* request -> the ids its transaction has updated ("processed")
    err      \* request -> the error it has met, "nil" so far

rows   == <<orders, lock>>
locals == <<pc, req, held, next, done, err>>
vars   == <<clock, orders, lock, pc, req, held, next, done, err>>

BatchPCs  == {"issue", "refund"}
AcceptPCs == {"accept_find", "accept_prepare", "accept_save"}
ReturnPCs == {"return_find", "return_recheck", "return_expiry", "return_delete"}
PCs       == {"idle", "reply"} \cup AcceptPCs \cup ReturnPCs \cup BatchPCs

\* Steps that talk to the database, and may fail.
DatabasePCs == BatchPCs \cup {"accept_find", "accept_save", "return_find",
                              "return_recheck", "return_delete"}

ValidationErrors == {"ErrUserDoesntOwnOrder", "ErrNotStoredOrder", "ErrExpiredOrder",
                     "ErrNotIssuedOrder", "ErrRefundPeriodExpired"}

Errors == ValidationErrors \cup
          {"nil", "ErrDuplicateOrder", "ErrPackaging", "ErrNotFoundOrder",
           "ErrNotExpiredOrder", "ErrDatabase", "scan error", "panic"}

Request == [ids : Seq(OrderIDs), user : Users \cup {NoUser}, expiry : Nat]

NoArgs == [ids |-> <<>>, user |-> NoUser, expiry |-> NoTime]

TypeOK ==
    /\ clock  \in Nat \ {0}
    /\ orders \in [OrderIDs -> Order \cup {NoOrder}]
    /\ lock   \in [OrderIDs -> Requests \cup {NoRequest}]
    /\ pc     \in [Requests -> PCs]
    /\ req    \in [Requests -> Request]
    /\ held   \in [Requests -> Nat]
    /\ next   \in [Requests -> Nat \ {0}]
    /\ done   \in [Requests -> SUBSET OrderIDs]
    /\ err    \in [Requests -> Errors]

Init ==
    /\ clock  = 1
    /\ orders = [id \in OrderIDs |-> NoOrder]
    /\ lock   = [id \in OrderIDs |-> NoRequest]
    /\ pc     = [r \in Requests |-> "idle"]
    /\ req    = [r \in Requests |-> NoArgs]
    /\ held   = [r \in Requests |-> NoTime]
    /\ next   = [r \in Requests |-> 1]
    /\ done   = [r \in Requests |-> {}]
    /\ err    = [r \in Requests |-> "nil"]

-----------------------------------------------------------------------------
\* What all operations share.

\* The id an accept or return is about.
OrderID(r) == req[r].ids[1]

\* Mutant: the deferred rollback is forgotten.
ReleaseForgotten(r) == UNCHANGED lock

Release(r) == lock' = [id \in OrderIDs |-> IF lock[id] = r THEN NoRequest ELSE lock[id]]

Start(r, step, args, date) ==
    /\ pc[r] = "idle"
    /\ pc'   = [pc EXCEPT ![r] = step]
    /\ req'  = [req EXCEPT ![r] = args]
    /\ held' = [held EXCEPT ![r] = date]
    /\ UNCHANGED <<clock, rows, next, done, err>>

Goto(r, step, date) ==
    /\ pc'   = [pc EXCEPT ![r] = step]
    /\ held' = [held EXCEPT ![r] = date]
    /\ UNCHANGED <<req, next, done, err>>

\* The operation returns to its handler with error e.
Answer(r, e, processed) ==
    /\ pc'   = [pc EXCEPT ![r] = "reply"]
    /\ err'  = [err EXCEPT ![r] = e]
    /\ held' = [held EXCEPT ![r] = NoTime]
    /\ next' = [next EXCEPT ![r] = 1]
    /\ done' = [done EXCEPT ![r] = processed]
    /\ UNCHANGED req

\* It returns early: a transaction still open is rolled back (the deferred
\* tx.Rollback), and its row locks go with it.
Fail(r, e) ==
    /\ Answer(r, e, {})
    /\ Release(r)
    /\ UNCHANGED <<clock, orders>>

\* The answer to a statement that took effect.  When the acknowledgement is
\* lost on the way, the caller takes the statement for failed.
Acknowledge(r, e, processed) ==
    \/ Answer(r, e, processed)
    \/ Answer(r, "ErrDatabase", {})

-----------------------------------------------------------------------------
\* POST /orders: accept an order from the courier.

AcceptOrder(r, id, user, expiry) ==
    LET args == [ids |-> <<id>>, user |-> user, expiry |-> expiry] IN
    IF expiry < clock
    THEN /\ pc[r] = "idle"
         /\ req' = [req EXCEPT ![r] = args]
         /\ pc'  = [pc EXCEPT ![r] = "reply"]
         /\ err' = [err EXCEPT ![r] = "ErrExpiredOrder"]
         /\ UNCHANGED <<clock, rows, held, next, done>>
    ELSE Start(r, "accept_find", args, NoTime)

\* The duplicate check is a query of its own, before the insert.
AcceptFind(r) ==
    /\ pc[r] = "accept_find"
    /\ IF orders[OrderID(r)] # NoOrder
       THEN Fail(r, "ErrDuplicateOrder")
       ELSE /\ Goto(r, "accept_prepare", NoTime)
            /\ UNCHANGED <<clock, rows>>

\* ParsePackaging and CheckWeight reject some orders; the others get their
\* date of storage, which the caller's StoredAt does not survive.
AcceptPrepare(r) ==
    /\ pc[r] = "accept_prepare"
    /\ \/ Fail(r, "ErrPackaging")
       \/ /\ Goto(r, "accept_save", clock)
          /\ UNCHANGED <<clock, rows>>

StoredOrder(r) == [recipient   |-> req[r].user,
                   expiry      |-> req[r].expiry,
                   stored_at   |-> held[r],
                   issued_at   |-> NoTime,
                   refunded_at |-> NoTime]

\* Mutant: INSERT ... ON CONFLICT DO UPDATE.
AcceptUpsert(r) ==
    /\ pc[r] = "accept_save"
    /\ orders' = [orders EXCEPT ![OrderID(r)] = StoredOrder(r)]
    /\ Acknowledge(r, "nil", {})
    /\ UNCHANGED <<clock, lock>>

\* SaveOrder: the insert fails on the unique index over order_id when another
\* request inserted the id since AcceptFind.
AcceptSave(r) ==
    /\ pc[r] = "accept_save"
    /\ IF orders[OrderID(r)] # NoOrder
       THEN Fail(r, "ErrDatabase")
       ELSE /\ orders' = [orders EXCEPT ![OrderID(r)] = StoredOrder(r)]
            /\ Acknowledge(r, "nil", {})
            /\ UNCHANGED <<clock, lock>>

-----------------------------------------------------------------------------
\* DELETE /orders/:id/return: give an order back to the courier.

ReturnOrder(r, id) ==
    Start(r, "return_find", [ids |-> <<id>>, user |-> NoUser, expiry |-> NoTime], NoTime)

\* The service looks the order up first, to know its recipient.
ReturnFind(r) ==
    /\ pc[r] = "return_find"
    /\ IF orders[OrderID(r)] = NoOrder
       THEN Fail(r, "ErrNotFoundOrder")
       ELSE /\ Goto(r, "return_recheck", NoTime)
            /\ UNCHANGED <<clock, rows>>

Crashed ==
    /\ pc'   = [q \in Requests |-> "idle"]
    /\ req'  = [q \in Requests |-> NoArgs]
    /\ held' = [q \in Requests |-> NoTime]
    /\ next' = [q \in Requests |-> 1]
    /\ done' = [q \in Requests |-> {}]
    /\ err'  = [q \in Requests |-> "nil"]
    /\ lock' = [id \in OrderIDs |-> NoRequest]
    /\ UNCHANGED <<clock, orders>>

\* The repository looks it up again.  If the row is gone by now, the nil order
\* is dereferenced: gin recovers and answers 500, the gRPC server does not
\* recover and the process dies.
ReturnRecheck(r) ==
    /\ pc[r] = "return_recheck"
    /\ LET order == orders[OrderID(r)] IN
       IF order = NoOrder
       THEN Fail(r, "panic") \/ Crashed
       ELSE IF Status(order) # "stored"
            THEN Fail(r, "ErrNotStoredOrder")
            ELSE /\ Goto(r, "return_expiry", order.expiry)
                 /\ UNCHANGED <<clock, rows>>

ReturnExpiry(r) ==
    /\ pc[r] = "return_expiry"
    /\ IF held[r] > clock
       THEN Fail(r, "ErrNotExpiredOrder")
       ELSE /\ Goto(r, "return_delete", NoTime)
            /\ UNCHANGED <<clock, rows>>

\* Mutant: the DELETE does not wait.
DeleteLockedRow(r) ==
    /\ pc[r] = "return_delete"
    /\ orders' = [orders EXCEPT ![OrderID(r)] = NoOrder]
    /\ Acknowledge(r, "nil", {})
    /\ UNCHANGED <<clock, lock>>

\* DeleteOrder waits for the row lock and deletes whatever row the id has then.
\* No row is ErrNotFoundOrder, which ReturnOrder ignores.
ReturnDelete(r) ==
    /\ pc[r] = "return_delete"
    /\ lock[OrderID(r)] = NoRequest
    /\ orders' = [orders EXCEPT ![OrderID(r)] = NoOrder]
    /\ Acknowledge(r, "nil", {})
    /\ UNCHANGED <<clock, lock>>

-----------------------------------------------------------------------------
\* PUT /actions/issues_refunds: issue a batch to its recipient, or take it back.

BatchArgs(ids, user) == [ids |-> ids, user |-> user, expiry |-> NoTime]

\* Both begin a transaction and read the clock once, before any row is locked.
IssueOrders(r, user, ids)  == Start(r, "issue", BatchArgs(ids, user), clock)
RefundOrders(r, user, ids) == Start(r, "refund", BatchArgs(ids, user), clock)

updateIssueTime(order, t)  == [order EXCEPT !.issued_at = t]
updateRefundTime(order, t) == [order EXCEPT !.refunded_at = t]

\* Mutant: the expiry is not checked.
IssueExpired(order, user, now) ==
    IF order.recipient # user THEN "ErrUserDoesntOwnOrder"
    ELSE IF Status(order) # "stored" THEN "ErrNotStoredOrder"
    ELSE "nil"

validateOrderForIssue(order, user, now) ==
    IF order.recipient # user THEN "ErrUserDoesntOwnOrder"
    ELSE IF Status(order) # "stored" THEN "ErrNotStoredOrder"
    ELSE IF order.expiry < now THEN "ErrExpiredOrder"
    ELSE "nil"

\* Mutant: an order may be refunded whatever its stage.
RefundUnissued(order, user, now) ==
    IF order.recipient # user THEN "ErrUserDoesntOwnOrder"
    ELSE IF now > order.issued_at + RefundPeriod THEN "ErrRefundPeriodExpired"
    ELSE "nil"

validateOrderForRefund(order, user, now) ==
    IF order.recipient # user THEN "ErrUserDoesntOwnOrder"
    ELSE IF Status(order) # "issued" THEN "ErrNotIssuedOrder"
    ELSE IF now > order.issued_at + RefundPeriod THEN "ErrRefundPeriodExpired"
    ELSE "nil"

\* An order as request r's transaction leaves it, and what r's validation says
\* of an order.
Updated(r, order) ==
    IF pc[r] = "issue" THEN updateIssueTime(order, held[r])
                       ELSE updateRefundTime(order, held[r])

Validate(r, order) ==
    IF pc[r] = "issue" THEN validateOrderForIssue(order, req[r].user, held[r])
                       ELSE validateOrderForRefund(order, req[r].user, held[r])

\* A transaction sees its own updates.
RowSeenBy(r, id) == IF id \in done[r] THEN Updated(r, orders[id]) ELSE orders[id]

\* Mutant: the loop stops one id early.
LoopStopsEarly(r) == /\ pc[r] \in BatchPCs
                     /\ next[r] < Len(req[r].ids)
                     /\ err[r] = "nil"

InLoop(r) == /\ pc[r] \in BatchPCs
             /\ next[r] <= Len(req[r].ids)
             /\ err[r] = "nil"

NextID(r) == req[r].ids[next[r]]

\* Mutant: SELECT without FOR UPDATE.
LockIgnored(r, id) == TRUE

\* FOR UPDATE: the row is free, or this transaction has it already.
Lockable(r, id) == lock[id] \in {r, NoRequest}

\* One turn of the loop: SELECT ... FOR UPDATE, validate, UPDATE.  A missing row
\* ends the batch with ErrDatabase: ScanOrder turns pgx.ErrNoRows into
\* ErrNotFoundOrder before lockAndGetOrder looks for it.  A row that fails the
\* validation stays locked, and ends the loop but not the transaction.
ProcessOrder(r) ==
    LET id == NextID(r) IN
    /\ InLoop(r)
    /\ Lockable(r, id)
    /\ IF orders[id] = NoOrder
       THEN Fail(r, "ErrDatabase")
       ELSE LET e == Validate(r, RowSeenBy(r, id)) IN
            /\ lock' = [lock EXCEPT ![id] = r]
            /\ IF e = "nil"
               THEN /\ done' = [done EXCEPT ![r] = done[r] \cup {id}]
                    /\ next' = [next EXCEPT ![r] = next[r] + 1]
                    /\ UNCHANGED err
               ELSE /\ err' = [err EXCEPT ![r] = e]
                    /\ UNCHANGED <<done, next>>
            /\ UNCHANGED <<clock, orders, pc, req, held>>

\* What was processed before the error, if any, is committed, and the error is
\* part of a successful answer.
Commit(r) ==
    /\ pc[r] \in BatchPCs
    /\ ~InLoop(r)
    /\ orders' = [id \in OrderIDs |-> IF id \in done[r] THEN Updated(r, orders[id])
                                                        ELSE orders[id]]
    /\ Release(r)
    /\ Acknowledge(r, err[r], done[r])
    /\ UNCHANGED clock

\* Two batches that lock the same rows in different orders wait for each other;
\* PostgreSQL ends one of the transactions on the cycle.
WaitsFor(r, s) == /\ InLoop(r)
                  /\ lock[NextID(r)] = s
                  /\ r # s

Deadlocked(r) ==
    \E cycle \in SUBSET Requests :
        /\ r \in cycle
        /\ \A a \in cycle : /\ \E b \in cycle : WaitsFor(a, b)
                            /\ \E b \in cycle : WaitsFor(b, a)

DeadlockAbort(r) == Deadlocked(r) /\ Fail(r, "ErrDatabase")

-----------------------------------------------------------------------------

\* The handler writes the answer, and the goroutine ends.  The updates of the cache and
\* the audit events that go with it are the subject of OrderCache and AuditPipeline.
Respond(r) ==
    /\ pc[r] = "reply"
    /\ pc'   = [pc EXCEPT ![r] = "idle"]
    /\ req'  = [req EXCEPT ![r] = NoArgs]
    /\ done' = [done EXCEPT ![r] = {}]
    /\ err'  = [err EXCEPT ![r] = "nil"]
    /\ UNCHANGED <<clock, rows, held, next>>

\* A statement fails, or the client has gone and its context is cancelled.
\* The service passes the error of its own lookup on as it is; everything below
\* it says ErrDatabase.
DatabaseFailure(r) ==
    /\ pc[r] \in DatabasePCs
    /\ Fail(r, IF pc[r] = "return_find" THEN "scan error" ELSE "ErrDatabase")

\* The process dies; PostgreSQL rolls its open transactions back.
Crash == Crashed /\ \E r \in Requests : pc[r] # "idle"

Tick ==
    /\ clock < MaxTime
    /\ clock' = clock + 1
    /\ UNCHANGED <<rows, locals>>

Call(r) ==
    \/ \E id \in OrderIDs, user \in Users, expiry \in Expiries :
           AcceptOrder(r, id, user, expiry)
    \/ \E id \in OrderIDs : ReturnOrder(r, id)
    \/ \E user \in Users, ids \in Batches :
           IssueOrders(r, user, ids) \/ RefundOrders(r, user, ids)

\* The steps a running request takes by itself.
Run(r) ==
    \/ AcceptFind(r) \/ AcceptPrepare(r) \/ AcceptSave(r)
    \/ ReturnFind(r) \/ ReturnRecheck(r) \/ ReturnExpiry(r)
    \/ Commit(r) \/ Respond(r)

Next ==
    \/ \E r \in Requests : \/ Call(r) \/ Run(r)
                           \/ ReturnDelete(r) \/ ProcessOrder(r)
                           \/ DeadlockAbort(r) \/ DatabaseFailure(r)
    \/ Crash
    \/ Tick

Spec == Init /\ [][Next]_vars

(***************************************************************************)
(* Fairness: the Go scheduler runs every goroutine, PostgreSQL answers, its *)
(* row locks are granted in the order they are asked for (so no request     *)
(* waits forever while others take turns on the row), and it looks for      *)
(* deadlocks.  Nobody has to call, fail or crash.                           *)
(***************************************************************************)
Fairness ==
    \A r \in Requests : /\ WF_vars(Run(r))
                        /\ SF_vars(ReturnDelete(r))
                        /\ SF_vars(ProcessOrder(r))
                        /\ WF_vars(DeadlockAbort(r))

FairSpec == Spec /\ Fairness

-----------------------------------------------------------------------------
(***************************************************************************)
(* Properties.                                                              *)
(***************************************************************************)

\* A row lock belongs to a transaction that still runs, and to a row that is
\* still there: every way out of IssueOrders and RefundOrders, the rollbacks and
\* the crash included, gives the locks back, and no DELETE gets past one.
LocksOwned ==
    \A id \in OrderIDs :
        lock[id] # NoRequest => /\ pc[lock[id]] \in BatchPCs
                                /\ orders[id] # NoOrder

\* The request cannot go on by itself: a row lock that it asks for is taken.
Waiting(r) ==
    \/ InLoop(r) /\ ~Lockable(r, NextID(r))
    \/ pc[r] = "return_delete" /\ lock[OrderID(r)] # NoRequest

\* The requests under way never all wait, unless PostgreSQL can see why: then some of
\* them wait for each other in a circle, which it ends.
NoGridlock ==
    (\E r \in Requests : pc[r] # "idle") =>
        \E r \in Requests : pc[r] # "idle" /\ (~Waiting(r) \/ Deadlocked(r))

\* The orders a transaction has processed still pass its validation.
StillValid(r) ==
    pc[r] \in BatchPCs =>
        \A id \in done[r] : orders[id] # NoOrder /\ Validate(r, orders[id]) = "nil"

\* An order a transaction has processed still passes the validation it passed
\* when it was processed, whatever other requests did since: it is there, it
\* belongs to the user, and it is still at the stage the batch found it in.
ValidationStillHolds == \A r \in Requests : StillValid(r)

\* The dates of a row make sense together: nothing is issued after its expiry,
\* and a refund has a real issue behind it, at most RefundPeriod earlier.
DatesConsistent(order) ==
    /\ order.stored_at > NoTime
    /\ order.issued_at <= order.expiry
    /\ order.refunded_at <= order.issued_at + RefundPeriod
    /\ order.refunded_at > NoTime => order.issued_at >= order.stored_at

\* However requests overlap, the dates of every committed row are consistent.
RowsConsistent ==
    \A id \in OrderIDs : orders[id] # NoOrder => DatesConsistent(orders[id])

\* If this is an error-free answer to a batch, every id was processed.
CompleteAnswer(r) ==
    (/\ pc[r] = "reply"
     /\ err[r] = "nil"
     /\ req[r].user # NoUser
     /\ req[r].expiry = NoTime) =>
        done[r] = {req[r].ids[i] : i \in 1..Len(req[r].ids)}

\* A batch answered without an error has processed every id it was given.
BatchComplete == \A r \in Requests : CompleteAnswer(r)

\* What a running request relies on: it starts clean, an accept or a return is
\* about one id, and a batch holds the lock of every order it has processed,
\* which are the ids before its loop index.
RequestConsistent(r) ==
    /\ pc[r] = "idle" => done[r] = {}
    /\ pc[r] \in {"idle", "reply"} => next[r] = 1
    /\ pc[r] \in AcceptPCs => /\ OrderID(r) \in OrderIDs
                              /\ req[r].user \in Users
                              /\ req[r].expiry > NoTime
    /\ pc[r] \in ReturnPCs => /\ OrderID(r) \in OrderIDs
                              /\ req[r].user = NoUser
    /\ pc[r] = "accept_save" => held[r] > NoTime
    /\ pc[r] \in BatchPCs =>
           /\ next[r] <= Len(req[r].ids) + 1
           /\ done[r] = {req[r].ids[i] : i \in 1..(next[r] - 1)}
           /\ \A id \in done[r] : lock[id] = r

\* The inductive invariant: everything above at once.  No part of it is inductive
\* alone.  Even TypeOK is not: a commit writes order rows only because the rows
\* it has processed are locked and so still there.
IInv ==
    /\ TypeOK
    /\ LocksOwned
    /\ \A r \in Requests : RequestConsistent(r)
    /\ ValidationStillHolds
    /\ RowsConsistent
    /\ BatchComplete

\* A row that a transaction has locked changes only in the step in which that
\* transaction ends: an accept, a return or another batch waits or fails.
LockedRowsStable ==
    [][\A id \in OrderIDs :
          lock[id] # NoRequest /\ orders'[id] # orders[id] => lock'[id] = NoRequest]_vars

\* A row in the table is never accepted over: as long as it is there, the order
\* keeps its recipient, its expiry and its date of storage.
AcceptedOnce ==
    [][\A id \in OrderIDs :
          orders[id] # NoOrder /\ orders'[id] # NoOrder =>
              /\ orders'[id].recipient = orders[id].recipient
              /\ orders'[id].expiry    = orders[id].expiry
              /\ orders'[id].stored_at = orders[id].stored_at]_vars

\* An order is issued once and refunded once.  The exception is a date that a
\* transaction read from the clock before the order reached the stage before:
\* Status then still reports that stage, and the date may be written again.
DatesWrittenOnce ==
    [][\A id \in OrderIDs :
          orders[id] # NoOrder /\ orders'[id] # NoOrder =>
              LET old == orders[id]
                  new == orders'[id]
              IN /\ new.issued_at # old.issued_at =>
                        old.issued_at = NoTime \/ old.issued_at < old.stored_at
                 /\ new.refunded_at # old.refunded_at =>
                        old.refunded_at = NoTime \/ old.refunded_at < old.issued_at]_vars

\* Every request is answered (or dies with the process): waiting for row locks
\* ends, also when batches wait for each other.
Answered == \A r \in Requests : (pc[r] # "idle") ~> (pc[r] = "idle")

\* Only orders whose storage time is over leave the table.
ReturnedOnlyExpired ==
    [][\A id \in OrderIDs :
          orders[id] # NoOrder /\ orders'[id] = NoOrder => orders[id].expiry <= clock]_vars

-----------------------------------------------------------------------------
\* The stage of an order, as the reports derive it from the row.
Stage == [id \in OrderIDs |-> IF orders[id] = NoOrder THEN "absent" ELSE Status(orders[id])]

Lifecycle == INSTANCE OrderLifecycle WITH stage <- Stage

\* The store implements the life cycle: seen through Status, orders only ever
\* move one stage ahead, or leave.
Implements == Lifecycle!LifecycleSpec

=============================================================================
