-------------------------- MODULE OrderStoreProofs --------------------------
(***************************************************************************)
(* Theorems about OrderStore, for any number of requests, orders and users, *)
(* any batches and any dates.                                               *)
(***************************************************************************)
EXTENDS OrderStore, FiniteSetTheorems, TLAPS

-----------------------------------------------------------------------------
\* Lemmas about the operators the actions are built from.

\* Validation answers with an error of its own kinds, or with none.
LEMMA ValidateType ==
    ASSUME NEW r \in Requests, NEW order
    PROVE  Validate(r, order) \in ValidationErrors \cup {"nil"}
BY DEF Validate, validateOrderForIssue, validateOrderForRefund, ValidationErrors

\* The id a loop is at is one of the order ids.
LEMMA NextIDType ==
    ASSUME TypeOK, NEW r \in Requests, InLoop(r)
    PROVE  NextID(r) \in OrderIDs
BY DEF TypeOK, InLoop, NextID, Request

\* What a valid update writes is again an order, and its dates stay consistent:
\* an order that passes for "stored" has no refund date, and one that passes for
\* "issued" was issued after it was stored.
LEMMA UpdatedConsistent ==
    ASSUME TypeOK, NEW r \in Requests, NEW order \in Order,
           DatesConsistent(order), Validate(r, order) = "nil"
    PROVE  Updated(r, order) \in Order /\ DatesConsistent(Updated(r, order))
<1> DEFINE t == held[r]
<1>1. t \in Nat
  BY DEF TypeOK
<1>2. CASE pc[r] = "issue"
  <2>1. Status(order) = "stored" /\ ~(order.expiry < t)
    BY <1>2 DEF Validate, validateOrderForIssue
  <2>2. order.refunded_at = 0
    BY <2>1 DEF Status, DatesConsistent, Order, NoTime
  <2>3. Updated(r, order) = [order EXCEPT !.issued_at = t]
    BY <1>2 DEF Updated, updateIssueTime
  <2> QED
    BY <1>1, <2>1, <2>2, <2>3, DatesAssumption DEF DatesConsistent, Order, NoTime
<1>3. CASE pc[r] # "issue"
  <2>1. Status(order) = "issued" /\ ~(t > order.issued_at + RefundPeriod)
    BY <1>3 DEF Validate, validateOrderForRefund
  <2>2. order.issued_at >= order.stored_at
    BY <2>1 DEF Status, DatesConsistent, Order, NoTime
  <2>3. Updated(r, order) = [order EXCEPT !.refunded_at = t]
    BY <1>3 DEF Updated, updateRefundTime
  <2> QED
    BY <1>1, <2>1, <2>2, <2>3, DatesAssumption DEF DatesConsistent, Order, NoTime
<1> QED
  BY <1>2, <1>3

-----------------------------------------------------------------------------
\* The inductive invariant.

\* It holds initially.
LEMMA InitInv == Init => IInv
<1> SUFFICES ASSUME Init PROVE IInv
  OBVIOUS
<1> USE DEF Init, NoTime
<1>1. NoArgs \in Request
  BY DEF NoArgs, Request
<1>2. TypeOK
  BY <1>1 DEF TypeOK, PCs, Errors
<1>3. \A r \in Requests : RequestConsistent(r)
  BY DEF RequestConsistent, AcceptPCs, ReturnPCs, BatchPCs
<1>4. LocksOwned /\ ValidationStillHolds /\ RowsConsistent /\ BatchComplete
  BY DEF LocksOwned, ValidationStillHolds, StillValid, RowsConsistent, BatchComplete,
         CompleteAnswer, BatchPCs
<1> QED
  BY <1>2, <1>3, <1>4 DEF IInv

\* A step that is request r's own: it leaves the locals of the other requests
\* alone, and the rows their transactions have locked.
OnlyTouches(r) ==
    /\ \A s \in Requests \ {r} :
           /\ pc'[s] = pc[s] /\ req'[s] = req[s] /\ held'[s] = held[s]
           /\ next'[s] = next[s] /\ done'[s] = done[s] /\ err'[s] = err[s]
    /\ \A id \in OrderIDs : lock[id] \in Requests \ {r} =>
           lock'[id] = lock[id] /\ orders'[id] = orders[id]

\* What the invariant says of one request.
RequestInv(r) == RequestConsistent(r) /\ StillValid(r) /\ CompleteAnswer(r)

\* Such a step keeps the invariants of the other requests: what they rely on is
\* in their locals and in the rows they have locked.
LEMMA OthersKept ==
    ASSUME IInv, NEW r \in Requests, OnlyTouches(r), NEW s \in Requests, s # r
    PROVE  RequestInv(s)'
<1>1. /\ pc'[s] = pc[s] /\ req'[s] = req[s] /\ held'[s] = held[s]
      /\ next'[s] = next[s] /\ done'[s] = done[s] /\ err'[s] = err[s]
  BY DEF OnlyTouches
<1>2. pc[s] \in BatchPCs => \A id \in done[s] :
          id \in OrderIDs /\ lock[id] = s /\ lock'[id] = s /\ orders'[id] = orders[id]
  BY DEF OnlyTouches, IInv, RequestConsistent, TypeOK
<1>3. RequestConsistent(s)'
  BY <1>1, <1>2 DEF IInv, RequestConsistent, OrderID
<1>4. StillValid(s)'
  BY <1>1, <1>2 DEF IInv, ValidationStillHolds, StillValid, Validate
<1>5. CompleteAnswer(s)'
  BY <1>1 DEF IInv, BatchComplete, CompleteAnswer
<1> QED
  BY <1>3, <1>4, <1>5 DEF RequestInv

\* So a step of r keeps the invariant if it keeps r's own part and the table's.
LEMMA OwnStepInv ==
    ASSUME IInv, NEW r \in Requests, OnlyTouches(r),
           TypeOK', LocksOwned', RowsConsistent', RequestInv(r)'
    PROVE  IInv'
<1>1. \A s \in Requests : RequestInv(s)'
  BY OthersKept
<1> QED
  BY <1>1 DEF IInv, RequestInv, ValidationStillHolds, BatchComplete

\* An early return keeps it: the request gives up all its locks and all it has
\* processed together.
LEMMA FailInv ==
    ASSUME IInv, NEW r \in Requests, NEW e \in Errors \ {"nil"}, Fail(r, e)
    PROVE  IInv'
<1> USE DEF Fail, Answer, Release, NoTime
<1>1. TypeOK'
  BY DEF IInv, TypeOK, PCs
<1>2. OnlyTouches(r)
  BY <1>1 DEF IInv, TypeOK, OnlyTouches
<1>3. LocksOwned'
  BY NullsAssumption DEF IInv, LocksOwned, TypeOK
<1>4. RowsConsistent'
  BY DEF IInv, RowsConsistent
<1>5. pc'[r] = "reply" /\ err'[r] = e /\ next'[r] = 1
  BY DEF IInv, TypeOK
<1>6. RequestInv(r)'
  BY <1>5 DEF RequestInv, RequestConsistent, StillValid, CompleteAnswer,
              AcceptPCs, ReturnPCs, BatchPCs
<1> QED
  BY <1>1, <1>2, <1>3, <1>4, <1>6, OwnStepInv

\* Going on to the next step of an accept or a return keeps it, if the step has
\* what it needs: the date to store.
LEMMA GotoInv ==
    ASSUME IInv, NEW r \in Requests, NEW step, NEW date \in Nat,
           Goto(r, step, date), UNCHANGED <<clock, rows>>,
           \/ pc[r] \in AcceptPCs /\ step \in AcceptPCs
           \/ pc[r] \in ReturnPCs /\ step \in ReturnPCs,
           step = "accept_save" => date > NoTime
    PROVE  IInv'
<1> USE DEF Goto, rows
<1>1. TypeOK'
  BY DEF IInv, TypeOK, PCs
<1>2. OnlyTouches(r)
  BY DEF IInv, TypeOK, OnlyTouches
<1>3. LocksOwned'
  BY DEF IInv, LocksOwned, TypeOK, AcceptPCs, ReturnPCs, BatchPCs
<1>4. RowsConsistent'
  BY DEF IInv, RowsConsistent
<1>5. pc'[r] = step /\ held'[r] = date
  BY DEF IInv, TypeOK
<1>6. RequestInv(r)'
  BY <1>5 DEF IInv, RequestInv, RequestConsistent, OrderID, StillValid, CompleteAnswer,
              AcceptPCs, ReturnPCs, BatchPCs
<1> QED
  BY <1>1, <1>2, <1>3, <1>4, <1>6, OwnStepInv

-----------------------------------------------------------------------------
\* One lemma per kind of step.

\* A call keeps it: an idle request has nothing processed and nothing locked.
LEMMA CallInv ==
    ASSUME IInv, NEW r \in Requests, Call(r)
    PROVE  IInv'
<1> USE DEF NoTime
<1>1. ASSUME NEW step, NEW args \in Request, NEW date \in Nat,
             Start(r, step, args, date),
             \/ /\ step = "accept_find"
                /\ args.ids[1] \in OrderIDs /\ args.user \in Users /\ args.expiry > NoTime
             \/ /\ step = "return_find"
                /\ args.ids[1] \in OrderIDs /\ args.user = NoUser
             \/ step \in BatchPCs
      PROVE  IInv'
  <2> USE <1>1 DEF Start, rows
  <2>1. TypeOK'
    BY DEF IInv, TypeOK, PCs, AcceptPCs, ReturnPCs, BatchPCs
  <2>2. OnlyTouches(r)
    BY DEF IInv, TypeOK, OnlyTouches
  <2>3. LocksOwned'
    BY DEF IInv, LocksOwned, TypeOK, BatchPCs
  <2>4. RowsConsistent'
    BY DEF IInv, RowsConsistent
  <2>5. pc'[r] = step /\ req'[r] = args /\ next'[r] = 1 /\ done'[r] = {}
    BY DEF IInv, TypeOK, RequestConsistent
  <2>6. Len(req'[r].ids) \in Nat
    BY <2>5 DEF Request
  <2>7. RequestInv(r)'
    BY <2>5, <2>6 DEF RequestInv, RequestConsistent, OrderID, StillValid, CompleteAnswer,
                      AcceptPCs, ReturnPCs, BatchPCs
  <2> QED
    BY <2>1, <2>2, <2>3, <2>4, <2>7, OwnStepInv
<1>2. ASSUME NEW id \in OrderIDs, NEW user \in Users, NEW expiry \in Expiries,
             AcceptOrder(r, id, user, expiry)
      PROVE  IInv'
  <2> DEFINE args == [ids |-> <<id>>, user |-> user, expiry |-> expiry]
  <2>1. args \in Request /\ args.ids[1] = id /\ args.user = user /\ args.expiry = expiry
    BY DatesAssumption DEF Request
  <2>2. CASE expiry < clock
    <3> USE <1>2, <2>2 DEF AcceptOrder, rows
    <3>1. TypeOK'
      <4>1. req' = [req EXCEPT ![r] = args] /\ UNCHANGED <<clock, orders, lock, held, next, done>>
        OBVIOUS
      <4>2. pc' \in [Requests -> PCs] /\ err' \in [Requests -> Errors]
        BY DEF IInv, TypeOK, PCs, Errors, ValidationErrors
      <4> HIDE DEF args
      <4> QED
        BY <2>1, <4>1, <4>2 DEF IInv, TypeOK
    <3>2. OnlyTouches(r)
      BY DEF IInv, TypeOK, OnlyTouches
    <3>3. LocksOwned'
      BY DEF IInv, LocksOwned, TypeOK, BatchPCs
    <3>4. RowsConsistent'
      BY DEF IInv, RowsConsistent
    <3>5. pc'[r] = "reply" /\ err'[r] = "ErrExpiredOrder" /\ next'[r] = 1
      BY DEF IInv, TypeOK, RequestConsistent
    <3>6. RequestInv(r)'
      BY <3>5 DEF RequestInv, RequestConsistent, StillValid, CompleteAnswer,
                  AcceptPCs, ReturnPCs, BatchPCs
    <3> QED
      BY <3>1, <3>2, <3>3, <3>4, <3>6, OwnStepInv
  <2>3. CASE ~(expiry < clock)
    <3>1. Start(r, "accept_find", args, NoTime)
      BY <1>2, <2>3 DEF AcceptOrder
    <3>2. expiry > NoTime
      BY <2>3, DatesAssumption DEF IInv, TypeOK
    <3> QED
      BY <1>1, <2>1, <3>1, <3>2
  <2> QED
    BY <2>2, <2>3
<1>3. ASSUME NEW id \in OrderIDs, ReturnOrder(r, id)
      PROVE  IInv'
  <2> DEFINE args == [ids |-> <<id>>, user |-> NoUser, expiry |-> NoTime]
  <2>1. args \in Request /\ args.ids[1] = id /\ args.user = NoUser
    BY DEF Request
  <2>2. Start(r, "return_find", args, NoTime)
    BY <1>3 DEF ReturnOrder
  <2> QED
    BY <1>1, <2>1, <2>2
<1>4. ASSUME NEW user \in Users, NEW ids \in Batches,
             IssueOrders(r, user, ids) \/ RefundOrders(r, user, ids)
      PROVE  IInv'
  <2>1. BatchArgs(ids, user) \in Request
    BY BatchesAssumption DEF Request, BatchArgs
  <2>2. \/ Start(r, "issue", BatchArgs(ids, user), clock)
        \/ Start(r, "refund", BatchArgs(ids, user), clock)
    BY <1>4 DEF IssueOrders, RefundOrders
  <2>3. clock \in Nat
    BY DEF IInv, TypeOK
  <2> QED
    BY <1>1, <2>1, <2>2, <2>3 DEF BatchPCs
<1> QED
  BY <1>2, <1>3, <1>4 DEF Call

\* The steps of an accept before its insert, and of a return before its delete,
\* only read the table.
LEMMA CheckInv ==
    ASSUME IInv, NEW r \in Requests,
           \/ AcceptFind(r) \/ AcceptPrepare(r)
           \/ ReturnFind(r) \/ ReturnExpiry(r)
    PROVE  IInv'
<1> USE DEF NoTime
<1>1. CASE AcceptFind(r)
  BY <1>1, FailInv, GotoInv DEF AcceptFind, Errors, AcceptPCs
<1>2. CASE AcceptPrepare(r)
  <2>1. clock \in Nat /\ clock > 0
    BY DEF IInv, TypeOK
  <2> QED
    BY <1>2, <2>1, FailInv, GotoInv DEF AcceptPrepare, Errors, AcceptPCs
<1>3. CASE ReturnFind(r)
  BY <1>3, FailInv, GotoInv DEF ReturnFind, Errors, ReturnPCs
<1>4. CASE ReturnExpiry(r)
  BY <1>4, FailInv, GotoInv DEF ReturnExpiry, Errors, ReturnPCs
<1> QED
  BY <1>1, <1>2, <1>3, <1>4

\* The statements of an accept and a return touch one row, which nobody locks: the
\* insert because there is no row yet, the delete because it waits.
LEMMA WriteInv ==
    ASSUME IInv, NEW r \in Requests, NEW id \in OrderIDs, NEW row \in Order \cup {NoOrder},
           pc[r] \in AcceptPCs \cup ReturnPCs,
           lock[id] = NoRequest,
           row # NoOrder => DatesConsistent(row),
           orders' = [orders EXCEPT ![id] = row],
           Acknowledge(r, "nil", {}),
           UNCHANGED <<clock, lock>>
    PROVE  IInv'
<1> USE DEF NoTime
<1>1. PICK e \in Errors : Answer(r, e, {})
  BY DEF Acknowledge, Errors
<1>2. TypeOK'
  BY <1>1 DEF Answer, IInv, TypeOK, PCs
<1>3. OnlyTouches(r)
  BY <1>1, NullsAssumption DEF Answer, IInv, TypeOK, OnlyTouches
<1>4. LocksOwned'
  BY <1>1 DEF Answer, IInv, LocksOwned, TypeOK, AcceptPCs, ReturnPCs, BatchPCs
<1>5. RowsConsistent'
  BY DEF IInv, RowsConsistent, TypeOK
<1>6. pc'[r] = "reply" /\ req'[r] = req[r] /\ next'[r] = 1
  BY <1>1 DEF Answer, IInv, TypeOK
<1>7. RequestInv(r)'
  BY <1>6 DEF IInv, RequestInv, RequestConsistent, StillValid, CompleteAnswer,
              AcceptPCs, ReturnPCs, BatchPCs, TypeOK, Request
<1> QED
  BY <1>2, <1>3, <1>4, <1>5, <1>7, OwnStepInv

\* The insert of an accept and the delete of a return keep the invariant.
LEMMA SaveAndDeleteInv ==
    ASSUME IInv, NEW r \in Requests, AcceptSave(r) \/ ReturnDelete(r)
    PROVE  IInv'
<1> USE DEF NoTime
<1> DEFINE id == OrderID(r)
<1>1. CASE AcceptSave(r)
  <2>1. id \in OrderIDs /\ pc[r] \in AcceptPCs /\ req[r].user \in Users /\ held[r] > 0
    BY <1>1 DEF AcceptSave, AcceptPCs, IInv, RequestConsistent
  <2>2. CASE orders[id] # NoOrder
    BY <1>1, <2>2, FailInv DEF AcceptSave, Errors
  <2>3. CASE orders[id] = NoOrder
    <3> DEFINE row == StoredOrder(r)
    <3>1. lock[id] = NoRequest
      BY <2>1, <2>3 DEF IInv, LocksOwned
    <3>2. row \in Order /\ DatesConsistent(row)
      BY <2>1, DatesAssumption
      DEF StoredOrder, Order, DatesConsistent, IInv, TypeOK, Request
    <3> HIDE DEF row
    <3> QED
      BY <1>1, <2>1, <2>3, <3>1, <3>2, WriteInv DEF AcceptSave, row
  <2> QED
    BY <2>2, <2>3
<1>2. CASE ReturnDelete(r)
  <2>1. id \in OrderIDs /\ pc[r] \in ReturnPCs
    BY <1>2 DEF ReturnDelete, ReturnPCs, IInv, RequestConsistent
  <2> QED
    BY <1>2, <2>1, WriteInv DEF ReturnDelete
<1> QED
  BY <1>1, <1>2

\* One turn of the loop keeps it: it locks the row it reads before it validates it.
LEMMA ProcessOrderInv ==
    ASSUME IInv, NEW r \in Requests, ProcessOrder(r)
    PROVE  IInv'
<1> USE DEF NoTime
<1> DEFINE id == NextID(r)
           e  == Validate(r, RowSeenBy(r, id))
<1>1. id \in OrderIDs /\ InLoop(r) /\ lock[id] \in {r, NoRequest}
  BY NextIDType DEF ProcessOrder, Lockable, IInv
<1>2. CASE orders[id] = NoOrder
  BY <1>2, FailInv DEF ProcessOrder, Errors
<1>3. CASE orders[id] # NoOrder
  <2>1. /\ lock' = [lock EXCEPT ![id] = r]
        /\ UNCHANGED <<clock, orders, pc, req, held>>
        /\ \/ /\ e = "nil"
              /\ done' = [done EXCEPT ![r] = done[r] \cup {id}]
              /\ next' = [next EXCEPT ![r] = next[r] + 1]
              /\ UNCHANGED err
           \/ /\ err' = [err EXCEPT ![r] = e]
              /\ UNCHANGED <<done, next>>
    BY <1>3 DEF ProcessOrder
  <2>2. e \in Errors
    BY ValidateType DEF Errors
  <2> HIDE DEF id, e
  <2>3. TypeOK'
    BY <1>1, <2>1, <2>2 DEF IInv, TypeOK
  <2>4. OnlyTouches(r)
    BY <1>1, <2>1, NullsAssumption DEF IInv, TypeOK, OnlyTouches
  <2>5. LocksOwned'
    BY <1>1, <1>3, <2>1 DEF IInv, LocksOwned, TypeOK, InLoop
  <2>6. RowsConsistent'
    BY <2>1 DEF IInv, RowsConsistent
  <2>7. pc'[r] = pc[r] /\ req'[r] = req[r] /\ held'[r] = held[r] /\ pc[r] \in BatchPCs
    BY <1>1, <2>1 DEF InLoop
  <2>8. RequestConsistent(r)'
    <3>1. CASE e = "nil" /\ done'[r] = done[r] \cup {id} /\ next'[r] = next[r] + 1
      <4>1. next[r] \in Nat \ {0} /\ Len(req[r].ids) \in Nat /\ next[r] <= Len(req[r].ids)
        BY <1>1 DEF IInv, TypeOK, InLoop, Request
      <4>2. done[r] = {req[r].ids[i] : i \in 1..(next[r] - 1)}
        BY <2>7 DEF IInv, RequestConsistent
      <4>3. id = req[r].ids[next[r]]
        BY DEF id, NextID
      <4>4. done[r] \cup {id} = {req[r].ids[i] : i \in 1..((next[r] + 1) - 1)}
        BY <4>1, <4>2, <4>3
      <4>5. \A i \in done'[r] : lock'[i] = r
        BY <1>1, <2>1, <2>7, <3>1 DEF IInv, RequestConsistent, TypeOK
      <4> QED
        BY <2>7, <3>1, <4>1, <4>4, <4>5
        DEF RequestConsistent, AcceptPCs, ReturnPCs, BatchPCs
    <3>2. CASE done'[r] = done[r] /\ next'[r] = next[r]
      <4>1. \A i \in done'[r] : lock'[i] = r
        BY <1>1, <2>1, <2>7, <3>2 DEF IInv, RequestConsistent, TypeOK
      <4> QED
        BY <2>7, <3>2, <4>1 DEF IInv, RequestConsistent, AcceptPCs, ReturnPCs, BatchPCs
    <3> QED
      BY <2>1, <3>1, <3>2 DEF IInv, TypeOK
  <2>9. StillValid(r)'
    <3>1. CASE e = "nil" /\ done'[r] = done[r] \cup {id}
      <4>1. id \notin done[r] => Validate(r, orders[id]) = "nil"
        BY <3>1 DEF e, RowSeenBy, id
      <4>2. \A i \in done'[r] : orders[i] # NoOrder /\ Validate(r, orders[i]) = "nil"
        BY <1>3, <2>7, <3>1, <4>1 DEF IInv, ValidationStillHolds, StillValid
      <4> QED
        BY <2>1, <2>7, <4>2 DEF StillValid, Validate
    <3>2. CASE done'[r] = done[r]
      BY <2>1, <2>7, <3>2 DEF IInv, ValidationStillHolds, StillValid, Validate
    <3> QED
      BY <2>1, <3>1, <3>2 DEF IInv, TypeOK
  <2>10. CompleteAnswer(r)'
    BY <2>7 DEF CompleteAnswer, BatchPCs
  <2> QED
    BY <2>3, <2>4, <2>5, <2>6, <2>8, <2>9, <2>10, OwnStepInv DEF RequestInv
<1> QED
  BY <1>2, <1>3

\* A commit keeps it: every row it writes is locked, so it is still there, still
\* valid, and nobody else has processed it.
LEMMA CommitInv ==
    ASSUME IInv, NEW r \in Requests, Commit(r)
    PROVE  IInv'
<1> USE DEF NoTime
<1>1. /\ pc[r] \in BatchPCs /\ ~InLoop(r)
      /\ orders' = [id \in OrderIDs |-> IF id \in done[r] THEN Updated(r, orders[id])
                                                          ELSE orders[id]]
      /\ Release(r)
      /\ UNCHANGED clock
  BY DEF Commit
<1>2. \A id \in done[r] : /\ lock[id] = r
                          /\ id \in OrderIDs
                          /\ orders[id] \in Order
                          /\ Validate(r, orders[id]) = "nil"
                          /\ DatesConsistent(orders[id])
  BY <1>1 DEF IInv, TypeOK, RequestConsistent, ValidationStillHolds, StillValid,
              RowsConsistent
<1>3. \A id \in done[r] : /\ Updated(r, orders[id]) \in Order
                          /\ DatesConsistent(Updated(r, orders[id]))
  BY <1>2, UpdatedConsistent DEF IInv
<1>4. PICK e \in Errors, processed \in SUBSET OrderIDs :
          /\ Answer(r, e, processed)
          /\ e = "nil" => err[r] = "nil" /\ processed = done[r]
  <2>1. CASE Answer(r, err[r], done[r])
    <3>1. err[r] \in Errors /\ done[r] \in SUBSET OrderIDs
      BY DEF IInv, TypeOK
    <3> QED
      BY <2>1, <3>1
  <2>2. CASE Answer(r, "ErrDatabase", {})
    <3>1. "ErrDatabase" \in Errors /\ {} \in SUBSET OrderIDs
      BY DEF Errors
    <3> QED
      BY <2>2, <3>1
  <2> QED
    BY <2>1, <2>2 DEF Commit, Acknowledge
<1>5. TypeOK'
  <2>1. orders' \in [OrderIDs -> Order \cup {NoOrder}]
    BY <1>1, <1>3 DEF IInv, TypeOK
  <2> QED
    BY <1>1, <1>4, <2>1 DEF Release, Answer, IInv, TypeOK, PCs
<1>6. OnlyTouches(r)
  BY <1>1, <1>2, <1>4, NullsAssumption DEF Release, Answer, IInv, TypeOK, OnlyTouches
<1>7. LocksOwned'
  <2>1. ASSUME NEW id \in OrderIDs, lock'[id] # NoRequest
        PROVE  pc'[lock'[id]] \in BatchPCs /\ orders'[id] # NoOrder
    <3>1. lock'[id] = lock[id] /\ lock[id] # r /\ lock[id] \in Requests
      BY <1>1, <2>1 DEF Release, IInv, TypeOK
    <3>2. pc'[lock[id]] = pc[lock[id]] /\ orders'[id] = orders[id]
      BY <1>6, <3>1 DEF OnlyTouches
    <3>3. pc[lock[id]] \in BatchPCs /\ orders[id] # NoOrder
      BY <2>1, <3>1 DEF IInv, LocksOwned
    <3> QED
      BY <3>1, <3>2, <3>3
  <2> QED
    BY <2>1 DEF LocksOwned
<1>8. RowsConsistent'
  BY <1>1, <1>3 DEF IInv, RowsConsistent
<1>9. /\ pc'[r] = "reply" /\ err'[r] = e /\ done'[r] = processed
      /\ req'[r] = req[r] /\ next'[r] = 1
  BY <1>4 DEF Answer, IInv, TypeOK
<1>10. CompleteAnswer(r)'
  <2>1. CASE e = "nil"
    <3>1. /\ Len(req[r].ids) \in Nat /\ next[r] \in Nat /\ next[r] <= Len(req[r].ids) + 1
          /\ ~(next[r] <= Len(req[r].ids))
          /\ done[r] = {req[r].ids[i] : i \in 1..(next[r] - 1)}
      BY <1>1, <1>4, <2>1 DEF InLoop, IInv, TypeOK, Request, RequestConsistent
    <3>2. next[r] - 1 = Len(req[r].ids)
      BY <3>1
    <3> QED
      BY <1>4, <1>9, <2>1, <3>1, <3>2 DEF CompleteAnswer
  <2>2. CASE e # "nil"
    BY <1>9, <2>2 DEF CompleteAnswer
  <2> QED
    BY <2>1, <2>2
<1>11. RequestInv(r)'
  BY <1>9, <1>10 DEF RequestInv, RequestConsistent, StillValid, AcceptPCs, ReturnPCs, BatchPCs
<1> QED
  BY <1>5, <1>6, <1>7, <1>8, <1>11, OwnStepInv

\* The end of a request keeps it: by then it has no locks.
LEMMA RespondInv ==
    ASSUME IInv, NEW r \in Requests, Respond(r)
    PROVE  IInv'
<1> USE DEF Respond, rows
<1>1. NoArgs \in Request
  BY DEF NoArgs, Request, NoTime
<1>2. TypeOK'
  BY <1>1 DEF IInv, TypeOK, PCs, Errors
<1>3. OnlyTouches(r)
  BY DEF IInv, TypeOK, OnlyTouches
<1>4. LocksOwned'
  BY DEF IInv, LocksOwned, TypeOK, BatchPCs
<1>5. RowsConsistent'
  BY DEF IInv, RowsConsistent
<1>6. pc'[r] = "idle" /\ done'[r] = {} /\ next'[r] = next[r] /\ err'[r] = "nil"
  BY DEF IInv, TypeOK
<1>7. next[r] = 1
  BY DEF IInv, RequestConsistent
<1>8. RequestInv(r)'
  BY <1>6, <1>7 DEF RequestInv, RequestConsistent, StillValid, CompleteAnswer,
              AcceptPCs, ReturnPCs, BatchPCs
<1> QED
  BY <1>2, <1>3, <1>4, <1>5, <1>8, OwnStepInv

\* A crash keeps it: it leaves the committed rows and nothing else.
LEMMA CrashedInv ==
    ASSUME IInv, Crashed
    PROVE  IInv'
<1> USE DEF Crashed
<1>1. NoArgs \in Request
  BY DEF NoArgs, Request, NoTime
<1>2. TypeOK'
  <2>1. /\ clock' \in Nat \ {0}
        /\ orders' \in [OrderIDs -> Order \cup {NoOrder}]
    BY DEF IInv, TypeOK
  <2>2. /\ lock' \in [OrderIDs -> Requests \cup {NoRequest}]
        /\ pc' \in [Requests -> PCs]
        /\ req' \in [Requests -> Request]
        /\ err' \in [Requests -> Errors]
    BY <1>1 DEF PCs, Errors
  <2>3. /\ held' \in [Requests -> Nat]
        /\ next' \in [Requests -> Nat \ {0}]
        /\ done' \in [Requests -> SUBSET OrderIDs]
    BY DEF NoTime
  <2> QED
    BY <2>1, <2>2, <2>3 DEF TypeOK
<1>3. LocksOwned' /\ RowsConsistent'
  BY DEF IInv, LocksOwned, RowsConsistent
<1>4. \A r \in Requests : RequestConsistent(r)'
  BY DEF RequestConsistent, AcceptPCs, ReturnPCs, BatchPCs
<1>5. ValidationStillHolds' /\ BatchComplete'
  BY DEF ValidationStillHolds, StillValid, BatchComplete, CompleteAnswer, BatchPCs
<1> QED
  BY <1>2, <1>3, <1>4, <1>5 DEF IInv

\* Every step keeps the invariant.
LEMMA NextInv == IInv /\ [Next]_vars => IInv'
<1> SUFFICES ASSUME IInv, [Next]_vars PROVE IInv'
  OBVIOUS
<1>1. ASSUME NEW r \in Requests, ReturnRecheck(r)
      PROVE  IInv'
  <2> DEFINE order == orders[OrderID(r)]
  <2>1. pc[r] \in ReturnPCs /\ OrderID(r) \in OrderIDs
    BY <1>1 DEF ReturnRecheck, ReturnPCs, IInv, RequestConsistent
  <2>2. CASE Fail(r, "panic") \/ Fail(r, "ErrNotStoredOrder")
    BY <2>2, FailInv DEF Errors, ValidationErrors
  <2>3. CASE /\ order # NoOrder
             /\ Goto(r, "return_expiry", order.expiry)
             /\ UNCHANGED <<clock, rows>>
    <3>1. order.expiry \in Nat
      BY <2>1, <2>3 DEF IInv, TypeOK, Order
    <3> QED
      BY <2>1, <2>3, <3>1, GotoInv DEF ReturnPCs
  <2> QED
    BY <1>1, <2>2, <2>3, CrashedInv DEF ReturnRecheck
<1>2. ASSUME NEW r \in Requests, Run(r)
      PROVE  IInv'
  BY <1>1, <1>2, CheckInv, SaveAndDeleteInv, CommitInv, RespondInv DEF Run
<1>3. ASSUME NEW r \in Requests, DeadlockAbort(r) \/ DatabaseFailure(r)
      PROVE  IInv'
  BY <1>3, FailInv DEF DeadlockAbort, DatabaseFailure, Errors
<1>4. CASE Tick
  <2>1. clock' \in Nat \ {0} /\ UNCHANGED <<orders, lock, pc, req, held, next, done, err>>
    BY <1>4 DEF Tick, rows, locals, IInv, TypeOK
  <2> QED
    BY <2>1 DEF IInv, TypeOK, LocksOwned, RequestConsistent, OrderID, ValidationStillHolds,
                StillValid, Validate, RowsConsistent, BatchComplete, CompleteAnswer
<1>5. CASE UNCHANGED vars
  BY <1>5 DEF vars, IInv, TypeOK, LocksOwned, RequestConsistent, OrderID,
              ValidationStillHolds, StillValid, Validate, RowsConsistent, BatchComplete,
              CompleteAnswer
<1> QED
  BY <1>2, <1>3, <1>4, <1>5, CallInv, SaveAndDeleteInv, ProcessOrderInv, CrashedInv
  DEF Next, Crash

\* IInv is an invariant of the store: requests that overlap in any way, fail at any
\* statement, deadlock or die with the process never break what a transaction
\* relies on between its statements.
THEOREM InductiveInvariant == Spec => []IInv
BY InitInv, NextInv, PTL DEF Spec

\* In particular every variable keeps its type: a commit never writes a row that
\* is not there any more.
THEOREM TypeCorrect == Spec => []TypeOK
<1>1. IInv => TypeOK
  BY DEF IInv
<1> QED
  BY <1>1, InductiveInvariant, PTL

\* Locks are never leaked: not by an early return, a deadlock or a crash.
THEOREM LocksAreOwned == Spec => []LocksOwned
<1>1. IInv => LocksOwned
  BY DEF IInv
<1> QED
  BY <1>1, InductiveInvariant, PTL

\* What a batch validated is still valid when it commits (IssueOrders and
\* RefundOrders have no window between check and act).
THEOREM NoStaleValidation == Spec => []ValidationStillHolds
<1>1. IInv => ValidationStillHolds
  BY DEF IInv
<1> QED
  BY <1>1, InductiveInvariant, PTL

\* No overlap of requests leaves a row issued after its expiry, or refunded
\* without an issue or after the refund period.
THEOREM RowsAreConsistent == Spec => []RowsConsistent
<1>1. IInv => RowsConsistent
  BY DEF IInv
<1> QED
  BY <1>1, InductiveInvariant, PTL

\* A batch that answers without an error has processed all its orders.
THEOREM BatchesAreComplete == Spec => []BatchComplete
<1>1. IInv => BatchComplete
  BY DEF IInv
<1> QED
  BY <1>1, InductiveInvariant, PTL

-----------------------------------------------------------------------------
\* Waiting.

\* Whoever follows a function on a finite set runs into a circle.
LEMMA CircleExists ==
    ASSUME NEW W, IsFiniteSet(W), W # {}, NEW f \in [W -> W]
    PROVE  \E C \in SUBSET W : /\ C # {}
                               /\ \A a \in C : f[a] \in C /\ \E b \in C : f[b] = a
<1> DEFINE T == {C \in SUBSET W : C # {} /\ \A a \in C : f[a] \in C}
<1>1. IsWellFoundedOn(StrictSubsetOrdering(W), SUBSET W)
  BY FS_StrictSubsetOrderingWellFounded, FS_FiniteSubsetsOfFinite
<1>2. W \in T
  OBVIOUS
<1>3. T \subseteq SUBSET W /\ T # {}
  BY <1>2
<1>4. PICK C \in T : \A D \in T : <<D, C>> \notin StrictSubsetOrdering(W)
  <2> HIDE DEF T
  <2> QED
    BY <1>1, <1>3, WFMin
<1> DEFINE D == {f[a] : a \in C}
<1>5. D \in T /\ D \subseteq C
  OBVIOUS
<1>6. D = C
  BY <1>4, <1>5 DEF StrictSubsetOrdering
<1> QED
  BY <1>6

\* Everybody waits: then those who wait in a loop wait for each other.
LEMMA AllWaitInCircle ==
    ASSUME IInv, NEW q \in Requests, pc[q] # "idle",
           \A r \in Requests : pc[r] # "idle" => Waiting(r)
    PROVE  \E r \in Requests : pc[r] # "idle" /\ Deadlocked(r)
<1> DEFINE W == {r \in Requests : InLoop(r) /\ Waiting(r)}
           Holder(r) == lock[NextID(r)]
<1>1. TypeOK /\ LocksOwned /\ \A r \in Requests : RequestConsistent(r)
  BY DEF IInv
<1>2. ASSUME NEW id \in OrderIDs, lock[id] # NoRequest
      PROVE  lock[id] \in W
  <2>1. lock[id] \in Requests /\ pc[lock[id]] \in BatchPCs
    BY <1>1, <1>2 DEF TypeOK, LocksOwned
  <2>2. pc[lock[id]] # "idle" /\ pc[lock[id]] # "return_delete"
    BY <2>1 DEF BatchPCs
  <2> QED
    BY <2>1, <2>2 DEF Waiting
<1>3. ASSUME NEW r \in W
      PROVE  Holder(r) \in W /\ WaitsFor(r, Holder(r))
  <2>1. r \in Requests /\ InLoop(r) /\ pc[r] \in BatchPCs /\ Waiting(r)
    BY DEF InLoop
  <2>2. NextID(r) \in OrderIDs
    BY <1>1, <2>1, NextIDType
  <2>3. pc[r] # "return_delete"
    BY <2>1 DEF BatchPCs
  <2>4. Holder(r) \notin {r, NoRequest}
    BY <2>1, <2>3 DEF Waiting, Lockable
  <2> QED
    BY <1>2, <2>1, <2>2, <2>4 DEF WaitsFor
<1>4. W # {}
  <2>1. Waiting(q)
    OBVIOUS
  <2>2. CASE InLoop(q)
    BY <2>1, <2>2
  <2>3. CASE pc[q] = "return_delete" /\ lock[OrderID(q)] # NoRequest
    <3>1. OrderID(q) \in OrderIDs
      BY <1>1, <2>3 DEF RequestConsistent, ReturnPCs
    <3> QED
      BY <1>2, <2>3, <3>1
  <2> QED
    BY <2>1, <2>2, <2>3 DEF Waiting
<1>5. IsFiniteSet(W)
  BY RequestsAssumption, FS_Subset
<1> DEFINE f == [r \in W |-> Holder(r)]
<1>6. f \in [W -> W]
  BY <1>3
<1>7. PICK C \in SUBSET W : /\ C # {}
                            /\ \A a \in C : f[a] \in C /\ \E b \in C : f[b] = a
  <2> HIDE DEF f, W
  <2> QED
    BY <1>4, <1>5, <1>6, CircleExists
<1>8. ASSUME NEW a \in C
      PROVE  /\ \E b \in C : WaitsFor(a, b)
             /\ \E b \in C : WaitsFor(b, a)
  BY <1>3, <1>7
<1>9. PICK r \in C : TRUE
  BY <1>7
<1>10. r \in Requests /\ C \in SUBSET Requests /\ pc[r] # "idle"
  BY DEF InLoop, BatchPCs
<1>11. Deadlocked(r)
  BY <1>8, <1>10 DEF Deadlocked
<1> QED
  BY <1>10, <1>11

\* Whatever locks requests take in whatever order, one of those under way can go on,
\* or PostgreSQL finds a deadlock to end.
THEOREM RequestsNeverGridlock == Spec => []NoGridlock
<1>1. IInv => NoGridlock
  BY AllWaitInCircle DEF NoGridlock
<1> QED
  BY <1>1, InductiveInvariant, PTL

-----------------------------------------------------------------------------
\* What a step may do to the table.

\* The effect of an accept, of a return and of a commit on the table.
Inserts(r) ==
    /\ r \in Requests /\ OrderID(r) \in OrderIDs
    /\ StoredOrder(r) \in Order /\ StoredOrder(r).stored_at > NoTime
    /\ orders[OrderID(r)] = NoOrder
    /\ orders' = [orders EXCEPT ![OrderID(r)] = StoredOrder(r)]
    /\ lock[OrderID(r)] = NoRequest

Deletes(r) ==
    /\ r \in Requests /\ OrderID(r) \in OrderIDs
    /\ lock[OrderID(r)] = NoRequest
    /\ orders' = [orders EXCEPT ![OrderID(r)] = NoOrder]

Updates(r) ==
    /\ r \in Requests
    /\ orders' = [id \in OrderIDs |-> IF id \in done[r] THEN Updated(r, orders[id])
                                                        ELSE orders[id]]
    /\ \A id \in done[r] : /\ id \in OrderIDs
                           /\ lock[id] = r /\ lock'[id] = NoRequest
                           /\ orders[id] \in Order /\ orders[id] # NoOrder
                           /\ DatesConsistent(orders[id])
                           /\ Validate(r, orders[id]) = "nil"

\* There are no other steps that change it.
LEMMA RowSteps ==
    ASSUME IInv, [Next]_vars
    PROVE  \/ orders' = orders
           \/ \E r \in Requests : Inserts(r) \/ Deletes(r) \/ Updates(r)
<1> USE DEF NoTime
<1>1. ASSUME NEW r \in Requests, AcceptSave(r), orders' # orders
      PROVE  Inserts(r)
  <2>1. /\ OrderID(r) \in OrderIDs /\ req[r].user \in Users /\ held[r] > 0
    BY <1>1 DEF AcceptSave, AcceptPCs, IInv, RequestConsistent
  <2>2. /\ orders[OrderID(r)] = NoOrder
        /\ orders' = [orders EXCEPT ![OrderID(r)] = StoredOrder(r)]
    BY <1>1 DEF AcceptSave, Fail
  <2>3. lock[OrderID(r)] = NoRequest
    BY <2>1, <2>2 DEF IInv, LocksOwned
  <2>4. StoredOrder(r) \in Order /\ StoredOrder(r).stored_at > 0
    BY <2>1 DEF StoredOrder, Order, IInv, TypeOK, Request
  <2> QED
    BY <2>1, <2>2, <2>3, <2>4 DEF Inserts
<1>2. ASSUME NEW r \in Requests, ReturnDelete(r)
      PROVE  Deletes(r)
  BY <1>2 DEF ReturnDelete, ReturnPCs, IInv, RequestConsistent, Deletes
<1>3. ASSUME NEW r \in Requests, Commit(r)
      PROVE  Updates(r)
  <2>1. \A id \in done[r] : /\ id \in OrderIDs /\ lock[id] = r
                            /\ orders[id] # NoOrder /\ orders[id] \in Order
                            /\ DatesConsistent(orders[id])
                            /\ Validate(r, orders[id]) = "nil"
    BY <1>3 DEF Commit, IInv, TypeOK, RequestConsistent, ValidationStillHolds, StillValid,
                RowsConsistent
  <2> QED
    BY <1>3, <2>1 DEF Commit, Release, Updates
<1>4. ASSUME NEW r \in Requests,
             \/ Call(r) \/ AcceptFind(r) \/ AcceptPrepare(r) \/ ReturnFind(r)
             \/ ReturnRecheck(r) \/ ReturnExpiry(r) \/ Respond(r) \/ ProcessOrder(r)
             \/ DeadlockAbort(r) \/ DatabaseFailure(r)
      PROVE  orders' = orders
  <2>1. CASE Call(r)
    BY <2>1 DEF Call, AcceptOrder, ReturnOrder, IssueOrders, RefundOrders, Start, rows
  <2>2. CASE \/ AcceptFind(r) \/ AcceptPrepare(r) \/ ReturnFind(r) \/ ReturnRecheck(r)
             \/ ReturnExpiry(r) \/ Respond(r)
    BY <2>2 DEF AcceptFind, AcceptPrepare, ReturnFind, ReturnRecheck, ReturnExpiry, Respond,
                Fail, Crashed, rows
  <2>3. CASE ProcessOrder(r) \/ DeadlockAbort(r) \/ DatabaseFailure(r)
    BY <2>3 DEF ProcessOrder, DeadlockAbort, DatabaseFailure, Fail
  <2> QED
    BY <1>4, <2>1, <2>2, <2>3
<1>5. CASE Crash \/ Tick \/ UNCHANGED vars
  BY <1>5 DEF Crash, Crashed, Tick, rows, vars
<1> QED
  BY <1>1, <1>2, <1>3, <1>4, <1>5 DEF Next, Run

\* A locked row changes only in the step in which its transaction ends.
THEOREM LockedRowsAreStable == Spec => LockedRowsStable
<1>1. ASSUME IInv, [Next]_vars, NEW id \in OrderIDs,
             lock[id] # NoRequest, orders'[id] # orders[id]
      PROVE  lock'[id] = NoRequest
  <2>1. PICK r \in Requests : Inserts(r) \/ Deletes(r) \/ Updates(r)
    BY <1>1, RowSteps
  <2>2. CASE Inserts(r) \/ Deletes(r)
    BY <1>1, <2>2 DEF Inserts, Deletes, IInv, TypeOK
  <2>3. CASE Updates(r)
    BY <1>1, <2>3 DEF Updates
  <2> QED
    BY <2>1, <2>2, <2>3
<1>2. IInv /\ [Next]_vars =>
          [\A id \in OrderIDs :
              lock[id] # NoRequest /\ orders'[id] # orders[id] => lock'[id] = NoRequest]_vars
  BY <1>1
<1> QED
  BY <1>2, InductiveInvariant, PTL DEF Spec, LockedRowsStable

\* What a batch writes over an order: one date, and over the date it had only if
\* that was NoTime or too early for its stage.
LEMMA UpdateKeeps ==
    ASSUME IInv, NEW r \in Requests, NEW order \in Order, DatesConsistent(order),
           Validate(r, order) = "nil"
    PROVE  LET new == Updated(r, order) IN
           /\ new.recipient = order.recipient
           /\ new.expiry = order.expiry
           /\ new.stored_at = order.stored_at
           /\ new.issued_at # order.issued_at =>
                  order.issued_at = NoTime \/ order.issued_at < order.stored_at
           /\ new.refunded_at # order.refunded_at =>
                  order.refunded_at = NoTime \/ order.refunded_at < order.issued_at
<1> USE DEF NoTime
<1> DEFINE t == held[r]
<1>1. CASE pc[r] = "issue"
  <2>1. Updated(r, order) = [order EXCEPT !.issued_at = t]
    BY <1>1 DEF Updated, updateIssueTime
  <2>2. order.issued_at < order.stored_at
    BY <1>1 DEF Validate, validateOrderForIssue, Status, Order
  <2> QED
    BY <2>1, <2>2 DEF Order
<1>2. CASE pc[r] # "issue"
  <2>1. Updated(r, order) = [order EXCEPT !.refunded_at = t]
    BY <1>2 DEF Updated, updateRefundTime
  <2>2. order.refunded_at < order.issued_at
    BY <1>2 DEF Validate, validateOrderForRefund, Status, Order
  <2> QED
    BY <2>1, <2>2 DEF Order
<1> QED
  BY <1>1, <1>2

\* So a row that stays in the table keeps recipient, expiry and date of storage,
\* and each of its two other dates is written once, but for dates read too early.
LEMMA RowKept ==
    ASSUME IInv, [Next]_vars, NEW id \in OrderIDs,
           orders[id] # NoOrder, orders'[id] # NoOrder
    PROVE  /\ orders'[id].recipient = orders[id].recipient
           /\ orders'[id].expiry    = orders[id].expiry
           /\ orders'[id].stored_at = orders[id].stored_at
           /\ orders'[id].issued_at # orders[id].issued_at =>
                  orders[id].issued_at = NoTime \/ orders[id].issued_at < orders[id].stored_at
           /\ orders'[id].refunded_at # orders[id].refunded_at =>
                  orders[id].refunded_at = NoTime \/ orders[id].refunded_at < orders[id].issued_at
<1>1. CASE orders' = orders
  BY <1>1
<1>2. ASSUME NEW r \in Requests, Inserts(r) \/ Deletes(r)
      PROVE  orders'[id] = orders[id]
  BY <1>2 DEF Inserts, Deletes, IInv, TypeOK
<1>3. ASSUME NEW r \in Requests, Updates(r)
      PROVE  \/ orders'[id] = orders[id]
             \/ /\ orders'[id] = Updated(r, orders[id])
                /\ orders[id] \in Order /\ DatesConsistent(orders[id])
                /\ Validate(r, orders[id]) = "nil"
  BY <1>3 DEF Updates
<1> QED
  BY <1>1, <1>2, <1>3, RowSteps, UpdateKeeps

\* No accept overwrites an order, and no later operation changes whose it is, when
\* it expires or when it was stored.
THEOREM OrdersAcceptedOnce == Spec => AcceptedOnce
<1>1. IInv /\ [Next]_vars =>
          [\A id \in OrderIDs :
              orders[id] # NoOrder /\ orders'[id] # NoOrder =>
                  /\ orders'[id].recipient = orders[id].recipient
                  /\ orders'[id].expiry    = orders[id].expiry
                  /\ orders'[id].stored_at = orders[id].stored_at]_vars
  BY RowKept
<1> QED
  BY <1>1, InductiveInvariant, PTL DEF Spec, AcceptedOnce

\* No two batches, however they overlap, both issue an order or both refund it,
\* but for dates read before the order reached the stage before.
THEOREM DatesAreWrittenOnce == Spec => DatesWrittenOnce
<1>1. IInv /\ [Next]_vars =>
          [\A id \in OrderIDs :
              orders[id] # NoOrder /\ orders'[id] # NoOrder =>
                  LET old == orders[id]
                      new == orders'[id]
                  IN /\ new.issued_at # old.issued_at =>
                            old.issued_at = NoTime \/ old.issued_at < old.stored_at
                     /\ new.refunded_at # old.refunded_at =>
                            old.refunded_at = NoTime \/ old.refunded_at < old.issued_at]_vars
  BY RowKept
<1> QED
  BY <1>1, InductiveInvariant, PTL DEF Spec, DatesWrittenOnce

-----------------------------------------------------------------------------
\* The store implements OrderLifecycle.

\* A valid batch moves an order one stage ahead or, with a date read too early,
\* leaves it where it is.
LEMMA UpdateAdvances ==
    ASSUME IInv, NEW r \in Requests, NEW order \in Order, DatesConsistent(order),
           Validate(r, order) = "nil"
    PROVE  IF pc[r] = "issue"
           THEN Status(order) = "stored" /\ Status(Updated(r, order)) \in {"stored", "issued"}
           ELSE Status(order) = "issued" /\ Status(Updated(r, order)) \in {"issued", "refunded"}
<1> USE DEF NoTime
<1> DEFINE t == held[r]
<1>1. t \in Nat
  BY DEF IInv, TypeOK
<1>2. CASE pc[r] = "issue"
  <2>1. Updated(r, order) = [order EXCEPT !.issued_at = t]
    BY <1>2 DEF Updated, updateIssueTime
  <2>2. Status(order) = "stored"
    BY <1>2 DEF Validate, validateOrderForIssue
  <2> QED
    BY <1>1, <1>2, <2>1, <2>2 DEF Status, DatesConsistent, Order
<1>3. CASE pc[r] # "issue"
  <2>1. Updated(r, order) = [order EXCEPT !.refunded_at = t]
    BY <1>3 DEF Updated, updateRefundTime
  <2>2. Status(order) = "issued"
    BY <1>3 DEF Validate, validateOrderForRefund
  <2> QED
    BY <1>1, <1>3, <2>1, <2>2 DEF Status, DatesConsistent, Order
<1> QED
  BY <1>2, <1>3

\* Every step of the store is a step of the life cycle, or none.
LEMMA StepAdvances ==
    ASSUME IInv, [Next]_vars
    PROVE  Lifecycle!LifecycleNext \/ UNCHANGED Stage
<1> USE DEF NoTime
<1>1. CASE orders' = orders
  BY <1>1 DEF Stage
<1>2. ASSUME NEW r \in Requests, Inserts(r)
      PROVE  Lifecycle!Accept(OrderID(r))
  <2>1. Status(StoredOrder(r)) = "stored" /\ StoredOrder(r) # NoOrder
    BY <1>2, NullsAssumption DEF Inserts, StoredOrder, Status, Order
  <2>2. Stage[OrderID(r)] = "absent"
    BY <1>2 DEF Inserts, Stage
  <2>3. Stage' = [id \in OrderIDs |-> IF id \in {OrderID(r)} THEN "stored" ELSE Stage[id]]
    BY <1>2, <2>1 DEF Inserts, Stage, IInv, TypeOK
  <2> QED
    BY <2>2, <2>3 DEF Lifecycle!Accept, Lifecycle!Advance
<1>3. ASSUME NEW r \in Requests, Deletes(r)
      PROVE  Lifecycle!Remove(OrderID(r))
  BY <1>3 DEF Deletes, Stage, IInv, TypeOK, Lifecycle!Remove
<1>4. ASSUME NEW r \in Requests, Updates(r)
      PROVE  \E ids \in SUBSET OrderIDs : Lifecycle!Issue(ids) \/ Lifecycle!Refund(ids)
  <2> DEFINE next_stage == IF pc[r] = "issue" THEN "issued" ELSE "refunded"
             ids == {id \in done[r] : Status(Updated(r, orders[id])) = next_stage}
  <2>1. \A id \in done[r] : /\ id \in OrderIDs /\ orders[id] # NoOrder
                            /\ orders'[id] = Updated(r, orders[id])
                            /\ Updated(r, orders[id]) # NoOrder
    BY <1>4, UpdatedConsistent, NullsAssumption DEF Updates, IInv
  <2>2. \A id \in done[r] :
            IF pc[r] = "issue"
            THEN Stage[id] = "stored" /\ Stage'[id] = IF id \in ids THEN "issued" ELSE "stored"
            ELSE Stage[id] = "issued" /\ Stage'[id] = IF id \in ids THEN "refunded" ELSE "issued"
    BY <1>4, <2>1, UpdateAdvances DEF Updates, Stage
  <2>3. \A id \in OrderIDs \ done[r] : Stage'[id] = Stage[id]
    BY <1>4 DEF Updates, Stage
  <2>4. ids \in SUBSET OrderIDs
    BY <2>1
  <2>5. Stage' = [id \in OrderIDs |-> IF id \in ids THEN next_stage ELSE Stage[id]]
    <3>1. ids \subseteq done[r]
      OBVIOUS
    <3>2. \A id \in OrderIDs : Stage'[id] = IF id \in ids THEN next_stage ELSE Stage[id]
      <4> HIDE DEF ids
      <4> QED
        BY <2>2, <2>3, <3>1
    <3>3. Stage' = [id \in OrderIDs |-> Stage'[id]]
      BY DEF Stage
    <3> QED
      BY <3>2, <3>3
  <2>6. CASE pc[r] = "issue"
    BY <2>2, <2>4, <2>5, <2>6 DEF Lifecycle!Issue, Lifecycle!Advance
  <2>7. CASE pc[r] # "issue"
    BY <2>2, <2>4, <2>5, <2>7 DEF Lifecycle!Refund, Lifecycle!Advance
  <2> QED
    BY <2>6, <2>7
<1>5. \A r \in Requests : Inserts(r) \/ Deletes(r) => OrderID(r) \in OrderIDs
  BY DEF Inserts, Deletes
<1> QED
  BY <1>1, <1>2, <1>3, <1>4, <1>5, RowSteps DEF Lifecycle!LifecycleNext

\* Seen through Order.Status, the store is the life cycle of OrderLifecycle.
THEOREM StoreImplementsLifecycle == Spec => Implements
<1>1. Init => Lifecycle!LifecycleInit
  BY DEF Init, Stage, Lifecycle!LifecycleInit
<1>2. IInv /\ [Next]_vars => [Lifecycle!LifecycleNext]_Stage
  BY StepAdvances
<1> QED
  BY <1>1, <1>2, InductiveInvariant, PTL DEF Spec, Implements, Lifecycle!LifecycleSpec

=============================================================================
