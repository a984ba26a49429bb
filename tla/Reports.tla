------------------------------ MODULE Reports ------------------------------
(***************************************************************************)
(* The paged reports: a client that walks through a listing of orders, page *)
(* by page, while orders come, change and go (internal/storage/postgres/    *)
(* reportorderstorage, the report methods of the repository, the service    *)
(* and the handlers of both transports).                                    *)
(*                                                                         *)
(* A page is read by one query; the cursor that is answered with it comes   *)
(* from a second query, which looks up the last order of the page by its    *)
(* order_id.  Neither is in a transaction with the other.                   *)
(*                                                                         *)
(* There is one client: clients that read do not disturb each other.        *)
(***************************************************************************)
EXTENDS OrderDomain, Integers, FiniteSets

CONSTANTS
    OrderIDs,
    Limits,         \* the limits clients ask for
    DefaultLimit,   \* of the HTTP handlers: 10
    MaxSerial,      \* bounds the values of the SERIAL column "id"
    MaxTime,        \* bounds the clock
    NoCursor        \* no cursor in the request

ASSUME LimitAssumption == Limits \subseteq Int /\ DefaultLimit \in Int
ASSUME NoCursorAssumption == NoCursor \notin Nat \X Nat

\* A row: "id" is assigned by the database, "order" is the order_id.
Row == [order : OrderIDs, id : 1..MaxSerial, recipient : Users,
        stored_at : Nat, issued_at : Nat, refunded_at : Nat]

\* The listings: of a user, with an optional status; of what was refunded; of all.
Queries == [kind : {"user"}, user : Users, status : {"", "stored", "issued"}]
           \cup [kind : {"refunded", "history"}]

VARIABLES
    orders,    \* the table "orders"
    used,      \* values taken from the sequence of "id"
    now,
    pc,        \* the client: "idle", or its request reads a "page", then the
               \* "cursor"; "done" after a page without next_cursor
    query,     \* what is listed
    limit,
    cursor,    \* cursor of the request: <<date, id>>, the date 0 unless a history
    page,      \* the rows of the page, as they were read
    shown,     \* ids of the rows the client has got in this walk (history)
    repeated,  \* it has got one of them twice (history)
    owed,      \* ids of the rows it must get: unchanged in the listing since it
               \* began (history)
    raised,    \* a cursor query found a row with a higher id under the order_id (history)
    lowered,   \* ... with a lower id (history)
    cut        \* a failure ended the rows of a page before the first (history)

table == <<orders, used, now>>
walk  == <<pc, query, limit, cursor, page, shown, repeated, raised, lowered, cut>>
vars  == <<table, walk, owed>>

Ids(rows) == {r.id : r \in rows}

TypeOK ==
    /\ orders   \in SUBSET Row
    /\ used     \in SUBSET (1..MaxSerial)
    /\ now      \in Nat
    /\ pc       \in {"idle", "page", "cursor", "done"}
    /\ query    \in Queries
    /\ limit    \in Int
    /\ cursor   \in (Nat \X Nat) \cup {NoCursor}
    /\ page     \in SUBSET Row
    /\ shown    \in SUBSET (1..MaxSerial)
    /\ owed     \in SUBSET (1..MaxSerial)
    /\ repeated \in BOOLEAN
    /\ raised   \in BOOLEAN
    /\ lowered  \in BOOLEAN
    /\ cut      \in BOOLEAN

Init ==
    /\ orders   = {}
    /\ used     = {}
    /\ now      = 1
    /\ pc       = "idle"
    /\ query    = [kind |-> "history"]
    /\ limit    = 0
    /\ cursor   = NoCursor
    /\ page     = {}
    /\ shown    = {}
    /\ owed     = {}
    /\ repeated = FALSE
    /\ raised   = FALSE
    /\ lowered  = FALSE
    /\ cut      = FALSE

-----------------------------------------------------------------------------
\* The queries.

\* The WHERE clauses without their cursors.  A status other than 'stored' lists
\* nothing.
Matches(q, r) ==
    \/ /\ q.kind = "user"
       /\ r.recipient = q.user
       /\ \/ q.status = ""
          \/ /\ q.status = "stored"
             /\ r.stored_at # NoTime
             /\ r.issued_at = NoTime
             /\ r.refunded_at = NoTime
    \/ q.kind = "refunded" /\ r.refunded_at # NoTime
    \/ q.kind = "history"

\* The ORDER BY clauses, all DESC.
Key(q, r) == <<IF q.kind = "history" THEN LastUpdated(r) ELSE 0, r.id>>

Below(k, l) == k[1] < l[1] \/ (k[1] = l[1] /\ k[2] < l[2])

\* Mutants: the page starts with the row of the cursor; the history's cursor
\* compares dates only.
FromCursor(q, r, c) == c = NoCursor \/ ~Below(c, Key(q, r))
DatesOnly(q, r, c)  == c = NoCursor \/ (IF q.kind = "history" THEN Key(q, r)[1] < c[1]
                                                              ELSE Below(Key(q, r), c))

\* The part of the WHERE clauses that is about the cursor.
AfterCursor(q, r, c) == c = NoCursor \/ Below(Key(q, r), c)

Rest == {r \in orders : Matches(query, r) /\ AfterCursor(query, r, cursor)}

\* The first rows of rs in the order of the listing.
Leading(p, rs) ==
    /\ p \subseteq rs
    /\ \A r \in p, s \in rs \ p : Below(Key(query, s), Key(query, r))

\* ... up to n of them.  PostgreSQL refuses a negative LIMIT, which the code does
\* not notice (see ReadCut): it gets no rows.
IsPage(p, rs, n) ==
    /\ Leading(p, rs)
    /\ IF n < 1 THEN p = {}
                ELSE IF Cardinality(rs) <= n THEN p = rs ELSE Cardinality(p) = n

-----------------------------------------------------------------------------
\* The other requests write to the table.

\* The rows owed to the client are the ones that stay where they are.
Write(new) ==
    /\ orders' = new
    /\ owed'   = {i \in owed : \E r \in orders, s \in new :
                                   /\ r.id = i /\ s.id = i
                                   /\ Matches(query, s)
                                   /\ Key(query, s) = Key(query, r)}
    /\ UNCHANGED walk

\* An order is accepted.  Its id and its date are taken before the row is visible:
\* ids need not appear in their order.
SaveOrder(o, u, i, t) ==
    /\ \A r \in orders : r.order # o
    /\ i \notin used
    /\ used' = used \cup {i}
    /\ Write(orders \cup {[order |-> o, id |-> i, recipient |-> u,
                           stored_at |-> t, issued_at |-> NoTime, refunded_at |-> NoTime]})
    /\ UNCHANGED now

\* An order is issued or refunded.
IssueOrder(r, t) ==
    /\ Status(r) = "stored"
    /\ Write((orders \ {r}) \cup {[r EXCEPT !.issued_at = t]})
    /\ UNCHANGED <<used, now>>

RefundOrder(r, t) ==
    /\ Status(r) = "issued"
    /\ Write((orders \ {r}) \cup {[r EXCEPT !.refunded_at = t]})
    /\ UNCHANGED <<used, now>>

\* A return deletes the row whatever has become of it since its checks (OrderStore).
DeleteOrder(r) ==
    /\ Write(orders \ {r})
    /\ UNCHANGED <<used, now>>

Tick ==
    /\ now < MaxTime
    /\ now' = now + 1
    /\ UNCHANGED <<orders, used, walk, owed>>

-----------------------------------------------------------------------------
\* The client's requests.

\* The HTTP handlers refuse a limit below 1 and have a default; the gRPC handlers
\* pass on what they get, and a missing field is 0.  A refused request changes
\* nothing.
AcceptedLimits ==
    {l \in Limits : l >= 1} \cup {DefaultLimit}     \* HTTP
    \cup Limits \cup {0}                            \* gRPC

\* A client starts a walk, with its first request: no cursor.
Begin(q, l) ==
    /\ pc \in {"idle", "done"}
    /\ pc'       = "page"
    /\ query'    = q
    /\ limit'    = l
    /\ cursor'   = NoCursor
    /\ page'     = {}
    /\ shown'    = {}
    /\ owed'     = Ids({r \in orders : Matches(q, r)})
    /\ repeated' = FALSE
    /\ raised'   = FALSE
    /\ lowered'  = FALSE
    /\ cut'      = FALSE
    /\ UNCHANGED table

\* The first query.  When it reports an error, the client is told and asks again.
ReadPage(p) ==
    /\ pc = "page"
    /\ IsPage(p, Rest, limit)
    /\ pc'   = "cursor"
    /\ page' = p
    /\ UNCHANGED <<table, query, limit, cursor, shown, owed, repeated, raised, lowered, cut>>

\* The connection fails while rows are read.  rows.Next returns false, rows.Err is
\* not asked: what has been read is the page.
ReadCut(p) ==
    /\ pc = "page"
    /\ Leading(p, Rest) /\ p # Rest
    /\ limit >= 1 /\ Cardinality(p) < limit
    /\ pc'   = "cursor"
    /\ page' = p
    /\ cut'  = (cut \/ p = {})
    /\ UNCHANGED <<table, query, limit, cursor, shown, owed, repeated, raised, lowered>>

IsLast(r) == \A s \in page : ~Below(Key(query, s), Key(query, r))

\* The second query finds the order of the last row r in row s: the page and the
\* next cursor are answered.  The date of a history's cursor is that of r.  The row is
\* another one if the order was returned and accepted again since the first query.
AnswerPage(r, s) ==
    /\ pc = "cursor"
    /\ IsLast(r)
    /\ s.order = r.order
    /\ pc'       = "page"
    /\ cursor'   = <<Key(query, r)[1], s.id>>
    /\ page'     = {}
    /\ shown'    = shown \cup Ids(page)
    /\ repeated' = (repeated \/ shown \cap Ids(page) # {})
    /\ raised'   = (raised \/ s.id > r.id)
    /\ lowered'  = (lowered \/ s.id < r.id)
    /\ UNCHANGED <<table, query, limit, owed, cut>>

\* It finds nothing, or fails: the page is lost, and the client asks for it again.
RefusePage ==
    /\ pc = "cursor"
    /\ page # {}
    /\ pc'   = "page"
    /\ page' = {}
    /\ UNCHANGED <<table, query, limit, cursor, shown, owed, repeated, raised, lowered, cut>>

\* An empty page has no next_cursor: the walk is over.
End ==
    /\ pc = "cursor"
    /\ page = {}
    /\ pc' = "done"
    /\ UNCHANGED <<table, query, limit, cursor, page, shown, owed, repeated, raised, lowered, cut>>

-----------------------------------------------------------------------------

Writers ==
    \/ \E o \in OrderIDs, u \in Users, i \in 1..MaxSerial, t \in 1..now : SaveOrder(o, u, i, t)
    \/ \E r \in orders : \/ \E t \in 1..now : IssueOrder(r, t) \/ RefundOrder(r, t)
                         \/ DeleteOrder(r)
    \/ Tick

Answer == \E r \in page, s \in orders : AnswerPage(r, s)

Client ==
    \/ \E q \in Queries, l \in AcceptedLimits : Begin(q, l)
    \/ \E p \in SUBSET orders : ReadPage(p) \/ ReadCut(p)
    \/ Answer
    \/ RefusePage
    \/ End

Next == Writers \/ Client

Spec == Init /\ [][Next]_vars

(***************************************************************************)
(* Fairness: a client that has begun goes on, and a request that is made    *)
(* again and again is answered at last: the database does not fail forever. *)
(***************************************************************************)
Fairness ==
    /\ WF_vars(\E p \in SUBSET orders : ReadPage(p))
    /\ WF_vars(RefusePage \/ End)
    /\ SF_vars(Answer)

FairSpec == Spec /\ Fairness

-----------------------------------------------------------------------------
(***************************************************************************)
(* Properties.                                                              *)
(***************************************************************************)

\* A finished walk has shown every row that was in its listing, unchanged, from its
\* beginning, whatever was written and refused meanwhile, also if its cursor came from
\* an order that was returned and accepted again.  The exceptions are the silent ones of
\* the code: a page cut to nothing, and such a cursor if the new row has the lower id.
\* (A row that is updated during a walk through the history moves to its front, and may
\* be missed.)
Complete == pc = "done" /\ limit >= 1 /\ ~cut /\ ~lowered => owed \subseteq shown

\* No row is shown twice in a walk, although rows change and move, unless the cursor
\* went back up to the higher id of an order that was accepted again.
NoRepeats == ~raised => ~repeated

\* A walk that is not abandoned ends, although orders are accepted behind its cursor and
\* pages are refused: the cursor moves on, until it goes back up with an order that was
\* accepted again (then it may have to pass the same rows once more).
WalkEnds == (pc = "page") ~> (pc = "done" \/ raised)

(***************************************************************************)
(* The inductive invariant.                                                 *)
(***************************************************************************)

\* An id names one row, and is not given to another.
IdsUnique ==
    /\ Ids(orders) \subseteq used
    /\ shown \subseteq used
    /\ Ids(page) \subseteq used
    /\ \A r, s \in orders : r.id = s.id => r = s

\* What is owed is in the listing.
OwedListed == \A i \in owed : \E r \in orders : r.id = i /\ Matches(query, r)

\* The rows of the page come after the cursor, and can only have moved up since.
PageRead ==
    \A p \in page : /\ AfterCursor(query, p, cursor)
                    /\ \A r \in orders :
                           r.id = p.id => ~Below(Key(query, r), Key(query, p))

\* What is owed and not shown comes after the cursor; when a page has been read, it
\* is on the page or comes after it.
NothingPassed ==
    pc \in {"page", "cursor"} /\ ~lowered =>
        \A r \in orders : r.id \in owed /\ r.id \notin shown =>
            /\ AfterCursor(query, r, cursor)
            /\ pc = "cursor" => \/ r.id \in Ids(page)
                                \/ \A p \in page : Below(Key(query, r), Key(query, p))

\* An empty page is the end of the listing.
EmptyIsEnd ==
    pc = "cursor" /\ page = {} /\ limit >= 1 /\ ~cut /\ ~lowered => owed \subseteq shown

\* What has been shown is not found again.
ShownPassed ==
    ~raised => /\ Ids(page) \cap shown = {}
               /\ \A r \in orders : r.id \in shown => ~AfterCursor(query, r, cursor)

IInv ==
    /\ TypeOK
    /\ IdsUnique
    /\ OwedListed
    /\ PageRead
    /\ NothingPassed
    /\ EmptyIsEnd
    /\ ShownPassed
    /\ Complete
    /\ NoRepeats

=============================================================================
