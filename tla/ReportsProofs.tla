--------------------------- MODULE ReportsProofs ---------------------------
(***************************************************************************)
(* Theorems about Reports, for any orders, users, limits and dates.         *)
(***************************************************************************)
EXTENDS Reports, FiniteSetTheorems, TLAPS

-----------------------------------------------------------------------------
\* The order of a listing.

\* A key is a date and an id.
LEMMA KeyType ==
    ASSUME NEW q \in Queries, NEW r \in Row
    PROVE  /\ Key(q, r) \in Nat \X Nat
           /\ Key(q, r)[2] = r.id
BY DEF Key, Row, LastUpdated

\* Keys are totally ordered.
LEMMA BelowTransitive ==
    ASSUME NEW k \in Nat \X Nat, NEW l \in Nat \X Nat, NEW m \in Nat \X Nat,
           Below(k, l), Below(l, m)
    PROVE  Below(k, m)
BY DEF Below

\* What is not below is not below what that is not below.
LEMMA NotBelowTransitive ==
    ASSUME NEW k \in Nat \X Nat, NEW l \in Nat \X Nat, NEW m \in Nat \X Nat,
           ~Below(k, l), ~Below(l, m)
    PROVE  ~Below(k, m)
BY DEF Below

\* No key is below itself.
LEMMA BelowIrreflexive ==
    ASSUME NEW k \in Nat \X Nat
    PROVE  ~Below(k, k)
BY DEF Below

\* A row that is issued stays where it is or moves up.
LEMMA IssueMovesUp ==
    ASSUME NEW q \in Queries, NEW r \in Row, NEW t \in Nat, Status(r) = "stored"
    PROVE  ~Below(Key(q, [r EXCEPT !.issued_at = t]), Key(q, r))
BY DEF Below, Key, LastUpdated, Status, Row, NoTime

\* So does a row that is refunded.
LEMMA RefundMovesUp ==
    ASSUME NEW q \in Queries, NEW r \in Row, NEW t \in Nat, Status(r) = "issued"
    PROVE  ~Below(Key(q, [r EXCEPT !.refunded_at = t]), Key(q, r))
BY DEF Below, Key, LastUpdated, Status, Row, NoTime

-----------------------------------------------------------------------------

\* The invariant holds initially.
LEMMA InitInv == Init => IInv
<1> SUFFICES ASSUME Init PROVE IInv
  OBVIOUS
<1> USE DEF Init
<1>1. query \in Queries
  <2>1. query \in [kind : {"refunded", "history"}]
    BY Zenon
  <2> QED
    BY <2>1, Zenon DEF Queries
<1>2. TypeOK
  <2>1. now \in Nat /\ limit \in Int
    OBVIOUS
  <2> QED
    BY <1>1, <2>1, Zenon DEF TypeOK
<1>3. IdsUnique /\ OwedListed /\ PageRead
  BY DEF IdsUnique, OwedListed, PageRead, Ids
<1>4. NothingPassed /\ EmptyIsEnd /\ ShownPassed /\ Complete /\ NoRepeats
  BY DEF NothingPassed, EmptyIsEnd, ShownPassed, Complete, NoRepeats, Ids
<1> QED
  BY <1>2, <1>3, <1>4 DEF IInv

\* A write keeps the invariant if the ids in the table stay unique and every row is
\* new, or has the id of a row that was not above it.
LEMMA WriteInv ==
    ASSUME IInv, NEW new \in SUBSET Row, Write(new),
           now' \in Nat, used' \in SUBSET (1..MaxSerial), used \subseteq used',
           Ids(new) \subseteq used',
           \A r, s \in new : r.id = s.id => r = s,
           \A s \in new : \/ s.id \notin used
                          \/ \E r \in orders : /\ r.id = s.id
                                               /\ ~Below(Key(query, s), Key(query, r))
    PROVE  IInv'
<1> USE DEF IInv
<1>1. /\ orders' = new
      /\ pc' = pc /\ query' = query /\ limit' = limit /\ cursor' = cursor /\ page' = page
      /\ shown' = shown /\ repeated' = repeated /\ cut' = cut
      /\ raised' = raised /\ lowered' = lowered
  BY DEF Write, walk
<1>2. owed' \subseteq owed
  BY DEF Write
<1>3. \A i \in owed' : \E r \in orders, s \in new : /\ r.id = i /\ s.id = i
                                                   /\ Matches(query, s)
                                                   /\ Key(query, s) = Key(query, r)
  BY DEF Write
<1>4. TypeOK'
  BY <1>1, <1>2 DEF TypeOK
<1>5. IdsUnique'
  BY <1>1 DEF IdsUnique, Ids
<1>6. OwedListed'
  BY <1>1, <1>3 DEF OwedListed
<1>7. PageRead'
  <2> SUFFICES ASSUME NEW p \in page, NEW s \in new, s.id = p.id
               PROVE  ~Below(Key(query, s), Key(query, p))
    BY <1>1 DEF PageRead
  <2>1. p.id \in used
    BY DEF IdsUnique, Ids
  <2>2. PICK r \in orders : r.id = s.id /\ ~Below(Key(query, s), Key(query, r))
    BY <2>1
  <2>3. ~Below(Key(query, r), Key(query, p))
    BY <2>2 DEF PageRead
  <2>4. /\ Key(query, s) \in Nat \X Nat /\ Key(query, r) \in Nat \X Nat
        /\ Key(query, p) \in Nat \X Nat
    BY KeyType DEF TypeOK
  <2> QED
    BY <2>2, <2>3, <2>4, NotBelowTransitive
<1>8. NothingPassed'
  <2> SUFFICES ASSUME pc \in {"page", "cursor"}, ~lowered,
                      NEW s \in new, s.id \in owed', s.id \notin shown
               PROVE  /\ AfterCursor(query, s, cursor)
                      /\ pc = "cursor" => \/ s.id \in Ids(page)
                                          \/ \A p \in page : Below(Key(query, s), Key(query, p))
    BY <1>1 DEF NothingPassed, Ids
  <2>1. PICK r \in orders : r.id = s.id /\ Key(query, s) = Key(query, r)
    BY <1>3
  <2>2. r.id \in owed /\ r.id \notin shown
    BY <2>1, <1>2
  <2>3. /\ AfterCursor(query, r, cursor)
        /\ pc = "cursor" => \/ r.id \in Ids(page)
                            \/ \A p \in page : Below(Key(query, r), Key(query, p))
    BY <2>2 DEF NothingPassed
  <2> QED
    BY <2>1, <2>3 DEF AfterCursor
<1>9. EmptyIsEnd' /\ Complete' /\ NoRepeats'
  BY <1>1, <1>2 DEF EmptyIsEnd, Complete, NoRepeats
<1>10. ShownPassed'
  <2> SUFFICES ASSUME ~raised, NEW s \in new, s.id \in shown
               PROVE  ~AfterCursor(query, s, cursor)
    BY <1>1 DEF ShownPassed, Ids
  <2>1. s.id \in used
    BY DEF IdsUnique
  <2>2. PICK r \in orders : r.id = s.id /\ ~Below(Key(query, s), Key(query, r))
    BY <2>1
  <2>3. cursor # NoCursor /\ ~Below(Key(query, r), cursor)
    BY <2>2 DEF ShownPassed, AfterCursor
  <2>4. Key(query, s) \in Nat \X Nat /\ Key(query, r) \in Nat \X Nat /\ cursor \in Nat \X Nat
    BY <2>3, KeyType DEF TypeOK
  <2> QED
    BY <2>2, <2>3, <2>4, NotBelowTransitive DEF AfterCursor
<1> QED
  BY <1>4, <1>5, <1>6, <1>7, <1>8, <1>9, <1>10

\* An accepted order has an id that was never used.
LEMMA SaveOrderInv ==
    ASSUME IInv, NEW o \in OrderIDs, NEW u \in Users, NEW i \in 1..MaxSerial, NEW t \in 1..now,
           SaveOrder(o, u, i, t)
    PROVE  IInv'
<1> DEFINE s   == [order |-> o, id |-> i, recipient |-> u,
                   stored_at |-> t, issued_at |-> NoTime, refunded_at |-> NoTime]
           new == orders \cup {s}
<1>1. s \in Row /\ new \in SUBSET Row /\ now \in Nat
  BY DEF IInv, TypeOK, Row, NoTime
<1>2. Write(new) /\ now' = now /\ used' = used \cup {i} /\ i \notin used
  BY DEF SaveOrder
<1>3. used' \in SUBSET (1..MaxSerial) /\ used \subseteq used'
  BY <1>2 DEF IInv, TypeOK
<1>4. Ids(new) \subseteq used'
  <2> SUFFICES ASSUME NEW r \in new PROVE r.id \in used'
    BY DEF Ids
  <2>1. r \in orders => r.id \in used
    BY DEF IInv, IdsUnique, Ids
  <2> QED
    BY <1>2, <2>1
<1>5. \A r \in orders : r.id # i
  BY <1>2 DEF IInv, IdsUnique, Ids
<1>6. \A q, r \in new : q.id = r.id => q = r
  BY <1>5 DEF IInv, IdsUnique
<1>7. \A r \in orders : ~Below(Key(query, r), Key(query, r))
  BY KeyType, BelowIrreflexive DEF IInv, TypeOK
<1>8. \A q \in new : \/ q.id \notin used
                     \/ \E r \in orders : r.id = q.id /\ ~Below(Key(query, q), Key(query, r))
  BY <1>2, <1>7
<1> HIDE DEF new
<1> QED
  BY <1>1, <1>2, <1>3, <1>4, <1>6, <1>8, WriteInv

\* A row is replaced by one that is not below it.
LEMMA UpdateInv ==
    ASSUME IInv, NEW r \in orders, NEW s \in Row, s.id = r.id,
           ~Below(Key(query, s), Key(query, r)),
           Write((orders \ {r}) \cup {s}), UNCHANGED <<used, now>>
    PROVE  IInv'
<1> DEFINE new == (orders \ {r}) \cup {s}
<1>1. new \in SUBSET Row /\ now' \in Nat /\ used' \in SUBSET (1..MaxSerial) /\ used \subseteq used'
  BY DEF IInv, TypeOK
<1>2. Ids(new) \subseteq used'
  BY DEF IInv, IdsUnique, Ids
<1>3. \A p, q \in new : p.id = q.id => p = q
  BY DEF IInv, IdsUnique
<1>4. \A p \in orders : ~Below(Key(query, p), Key(query, p))
  BY KeyType, BelowIrreflexive DEF IInv, TypeOK
<1>5. \A q \in new : \E p \in orders : p.id = q.id /\ ~Below(Key(query, q), Key(query, p))
  BY <1>4
<1> HIDE DEF new
<1> QED
  BY <1>1, <1>2, <1>3, <1>5, WriteInv DEF new

\* An issued row has its id, and moves up at most.
LEMMA IssueOrderInv ==
    ASSUME IInv, NEW r \in orders, NEW t \in 1..now, IssueOrder(r, t)
    PROVE  IInv'
<1> DEFINE s == [r EXCEPT !.issued_at = t]
<1>1. r \in Row /\ s \in Row /\ s.id = r.id /\ t \in Nat /\ query \in Queries
  BY DEF IInv, TypeOK, Row
<1>2. ~Below(Key(query, s), Key(query, r))
  BY <1>1, IssueMovesUp DEF IssueOrder
<1> QED
  BY <1>1, <1>2, UpdateInv DEF IssueOrder

\* So has a refunded one.
LEMMA RefundOrderInv ==
    ASSUME IInv, NEW r \in orders, NEW t \in 1..now, RefundOrder(r, t)
    PROVE  IInv'
<1> DEFINE s == [r EXCEPT !.refunded_at = t]
<1>1. r \in Row /\ s \in Row /\ s.id = r.id /\ t \in Nat /\ query \in Queries
  BY DEF IInv, TypeOK, Row
<1>2. ~Below(Key(query, s), Key(query, r))
  BY <1>1, RefundMovesUp DEF RefundOrder
<1> QED
  BY <1>1, <1>2, UpdateInv DEF RefundOrder

\* A deleted row leaves the others where they are.
LEMMA DeleteOrderInv ==
    ASSUME IInv, NEW r \in orders, DeleteOrder(r)
    PROVE  IInv'
<1> DEFINE new == orders \ {r}
<1>1. new \in SUBSET Row /\ now' \in Nat /\ used' \in SUBSET (1..MaxSerial) /\ used \subseteq used'
  BY DEF IInv, TypeOK, DeleteOrder
<1>2. Ids(new) \subseteq used' /\ Write(new)
  BY DEF IInv, IdsUnique, Ids, DeleteOrder
<1>3. \A p, q \in new : p.id = q.id => p = q
  BY DEF IInv, IdsUnique
<1>4. \A q \in new : \E p \in orders : p.id = q.id /\ ~Below(Key(query, q), Key(query, p))
  BY KeyType, BelowIrreflexive DEF IInv, TypeOK
<1> HIDE DEF new
<1> QED
  BY <1>1, <1>2, <1>3, <1>4, WriteInv

-----------------------------------------------------------------------------
\* The client.

\* A walk begins owing the listing, having shown nothing.
LEMMA BeginInv ==
    ASSUME IInv, NEW q \in Queries, NEW l \in AcceptedLimits, Begin(q, l)
    PROVE  IInv'
<1> USE DEF Begin, table, IInv
<1>1. l \in Int
  BY LimitAssumption DEF AcceptedLimits
<1>2. Ids({r \in orders : Matches(q, r)}) \subseteq 1..MaxSerial
  BY DEF TypeOK, Ids, Row
<1>3. TypeOK'
  BY <1>1, <1>2 DEF TypeOK
<1>4. IdsUnique' /\ OwedListed'
  BY DEF IdsUnique, OwedListed, Ids
<1>5. PageRead' /\ NothingPassed' /\ EmptyIsEnd' /\ ShownPassed' /\ Complete' /\ NoRepeats'
  BY DEF PageRead, NothingPassed, EmptyIsEnd, ShownPassed, Complete, NoRepeats, AfterCursor, Ids
<1> QED
  BY <1>3, <1>4, <1>5

\* A page that is read, whole or cut, if an empty one means that nothing is left.
LEMMA ReadInv ==
    ASSUME IInv, NEW p \in SUBSET orders, pc = "page", Leading(p, Rest),
           pc' = "cursor", page' = p, cut' \in BOOLEAN, cut => cut',
           p = {} /\ limit >= 1 /\ ~cut' => Rest = {},
           UNCHANGED <<table, query, limit, cursor, shown, owed, repeated, raised, lowered>>
    PROVE  IInv'
<1> USE DEF IInv, table
<1>1. TypeOK'
  BY DEF TypeOK
<1>2. IdsUnique' /\ OwedListed'
  BY DEF IdsUnique, OwedListed, Ids
<1>3. \A r \in p : r \in orders /\ AfterCursor(query, r, cursor)
  BY DEF Leading, Rest
<1>4. \A r \in orders : ~Below(Key(query, r), Key(query, r))
  BY KeyType, BelowIrreflexive DEF TypeOK
<1>5. PageRead'
  BY <1>3, <1>4 DEF PageRead, IdsUnique
<1>6. ~lowered => \A r \in orders : r.id \in owed /\ r.id \notin shown => r \in Rest
  BY DEF NothingPassed, OwedListed, IdsUnique, Rest
<1>7. NothingPassed'
  BY <1>6 DEF NothingPassed, Leading, Rest, Ids
<1>8. EmptyIsEnd'
  BY <1>6 DEF EmptyIsEnd, OwedListed
<1>9. ShownPassed'
  BY <1>3 DEF ShownPassed, Ids
<1>10. Complete' /\ NoRepeats'
  BY DEF Complete, NoRepeats
<1> QED
  BY <1>1, <1>2, <1>5, <1>7, <1>8, <1>9, <1>10

\* A whole page of at least one row is empty only at the end of the listing.
LEMMA ReadPageInv ==
    ASSUME IInv, NEW p \in SUBSET orders, ReadPage(p)
    PROVE  IInv'
<1>1. p = {} /\ limit >= 1 => Rest = {}
  BY FS_EmptySet DEF ReadPage, IsPage, IInv, TypeOK
<1> QED
  BY <1>1, ReadInv DEF ReadPage, IsPage, IInv, TypeOK

\* A page that was cut to nothing is on record.
LEMMA ReadCutInv ==
    ASSUME IInv, NEW p \in SUBSET orders, ReadCut(p)
    PROVE  IInv'
BY ReadInv DEF ReadCut, IInv, TypeOK

\* The next cursor is the key of the last row of the page, unless its order was accepted
\* again: under a higher id, what was not on the page is still to come; under a lower id,
\* what was on the page is passed.
LEMMA AnswerPageInv ==
    ASSUME IInv, NEW r \in page, NEW s \in orders, AnswerPage(r, s)
    PROVE  IInv'
<1> USE DEF IInv, AnswerPage, table
<1>0. /\ r \in Row /\ s \in Row /\ query \in Queries
      /\ \A x \in Row : Key(query, x) \in Nat \X Nat
  BY KeyType DEF TypeOK
<1>1. cursor' \in Nat \X Nat
  BY <1>0 DEF Row
<1>2. TypeOK'
  BY <1>1 DEF TypeOK, Ids, Row
<1>3. IdsUnique' /\ OwedListed' /\ PageRead'
  BY DEF IdsUnique, OwedListed, PageRead, Ids
<1>4. Key(query, r) = <<Key(query, r)[1], r.id>> /\ r.id \in Nat /\ s.id \in Nat
  BY <1>0 DEF Key, Row
<1>5. NothingPassed'
  <2> SUFFICES ASSUME ~lowered', NEW x \in orders, x.id \in owed, x.id \notin shown'
               PROVE  AfterCursor(query, x, cursor')
    BY DEF NothingPassed
  <2>0. ~lowered /\ ~(s.id < r.id)
    BY Zenon DEF TypeOK
  <2>1. ~lowered /\ s.id >= r.id /\ x \in Row
    BY <1>4, <2>0 DEF TypeOK
  <2>2. Below(Key(query, x), Key(query, r))
    BY <2>1 DEF NothingPassed, Ids
  <2>3. Below(Key(query, x), cursor')
    BY <1>0, <1>4, <2>1, <2>2 DEF Below
  <2> QED
    BY <2>3 DEF AfterCursor
<1>6. ShownPassed'
  <2> SUFFICES ASSUME ~raised', NEW x \in orders, x.id \in shown'
               PROVE  ~AfterCursor(query, x, cursor')
    BY DEF ShownPassed, Ids
  <2>0. ~raised /\ ~(s.id > r.id)
    BY Zenon DEF TypeOK
  <2>1. cursor' # NoCursor /\ ~raised /\ s.id =< r.id /\ x \in Row
    BY <1>1, <1>4, <2>0, NoCursorAssumption DEF TypeOK
  <2>2. ~Below(Key(query, r), cursor')
    BY <1>0, <1>4, <2>1 DEF Below
  <2>3. CASE x.id \in shown
    <3>1. cursor # NoCursor /\ ~Below(Key(query, x), cursor)
      BY <2>1, <2>3 DEF ShownPassed, AfterCursor
    <3>2. Below(Key(query, r), cursor) /\ cursor \in Nat \X Nat
      BY <3>1 DEF PageRead, AfterCursor, TypeOK
    <3>3. ~Below(Key(query, x), Key(query, r))
      BY <3>1, <3>2, <1>0, <2>1, BelowTransitive
    <3> QED
      BY <3>3, <2>1, <2>2, <1>0, <1>1, NotBelowTransitive DEF AfterCursor
  <2>4. CASE x.id \in Ids(page)
    <3>1. PICK p \in page : p.id = x.id
      BY <2>4 DEF Ids
    <3>2. ~Below(Key(query, x), Key(query, p)) /\ ~Below(Key(query, p), Key(query, r))
      BY <3>1 DEF PageRead, IsLast
    <3>3. p \in Row
      BY DEF TypeOK
    <3>4. ~Below(Key(query, x), Key(query, r))
      BY <3>2, <3>3, <1>0, <2>1, NotBelowTransitive
    <3> QED
      BY <3>4, <2>1, <2>2, <1>0, <1>1, NotBelowTransitive DEF AfterCursor
  <2> QED
    BY <2>3, <2>4
<1>7. EmptyIsEnd' /\ Complete'
  BY DEF EmptyIsEnd, Complete
<1>8. NoRepeats'
  BY DEF NoRepeats, ShownPassed, TypeOK
<1> QED
  BY <1>2, <1>3, <1>5, <1>6, <1>7, <1>8

\* A lost page leaves the cursor where it was.
LEMMA RefusePageInv == IInv /\ RefusePage => IInv'
<1> SUFFICES ASSUME IInv, RefusePage PROVE IInv'
  OBVIOUS
<1> USE DEF IInv, RefusePage, table
<1>1. TypeOK' /\ IdsUnique' /\ OwedListed' /\ PageRead'
  BY DEF TypeOK, IdsUnique, OwedListed, PageRead, Ids
<1>2. NothingPassed'
  BY DEF NothingPassed, Ids
<1>3. EmptyIsEnd' /\ ShownPassed' /\ Complete' /\ NoRepeats'
  BY DEF EmptyIsEnd, ShownPassed, Complete, NoRepeats, Ids
<1> QED
  BY <1>1, <1>2, <1>3

\* The walk ends with an empty page.
LEMMA EndInv == IInv /\ End => IInv'
<1> SUFFICES ASSUME IInv, End PROVE IInv'
  OBVIOUS
<1> USE DEF IInv, End, table
<1>1. TypeOK' /\ IdsUnique' /\ OwedListed' /\ PageRead' /\ ShownPassed'
  BY DEF TypeOK, IdsUnique, OwedListed, PageRead, ShownPassed, Ids
<1>2. NothingPassed' /\ EmptyIsEnd' /\ Complete' /\ NoRepeats'
  BY DEF NothingPassed, EmptyIsEnd, Complete, NoRepeats
<1> QED
  BY <1>1, <1>2

\* Nothing depends on the clock.
LEMMA FrameInv ==
    ASSUME IInv, UNCHANGED <<orders, used, walk, owed>>, now' \in Nat
    PROVE  IInv'
BY DEF walk, IInv, TypeOK, IdsUnique, OwedListed, PageRead, NothingPassed, EmptyIsEnd,
       ShownPassed, Complete, NoRepeats, Ids

\* Every step keeps the invariant.
LEMMA StepInv == IInv /\ [Next]_vars => IInv'
<1> SUFFICES ASSUME IInv, [Next]_vars PROVE IInv'
  OBVIOUS
<1>1. CASE Writers
  <2>1. Tick => IInv'
    BY FrameInv DEF Tick, IInv, TypeOK
  <2> QED
    BY <1>1, <2>1, SaveOrderInv, IssueOrderInv, RefundOrderInv, DeleteOrderInv DEF Writers
<1>2. CASE Client
  BY <1>2, BeginInv, ReadPageInv, ReadCutInv, AnswerPageInv, RefusePageInv, EndInv
     DEF Client, Answer
<1>3. CASE UNCHANGED vars
  BY <1>3, FrameInv DEF vars, table, IInv, TypeOK
<1> QED
  BY <1>1, <1>2, <1>3 DEF Next

-----------------------------------------------------------------------------

\* The inductive invariant of the walks.
THEOREM WalkInvariant == Spec => []IInv
BY InitInv, StepInv, PTL DEF Spec

\* The variables keep their types.
THEOREM TypeCorrect == Spec => []TypeOK
<1>1. IInv => TypeOK
  BY DEF IInv
<1> QED
  BY <1>1, WalkInvariant, PTL

\* A finished walk has shown all that stayed in its listing: the cursors of
\* reportorderstorage pass over nothing.
THEOREM WalksAreComplete == Spec => []Complete
<1>1. IInv => Complete
  BY DEF IInv
<1> QED
  BY <1>1, WalkInvariant, PTL

\* No walk shows a row twice, whatever is written between its pages, unless a cursor went
\* back up.
THEOREM WalksDoNotRepeat == Spec => []NoRepeats
<1>1. IInv => NoRepeats
  BY DEF IInv
<1> QED
  BY <1>1, WalkInvariant, PTL

=============================================================================
