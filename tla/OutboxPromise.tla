--------------------------- MODULE OutboxPromise ---------------------------
(***************************************************************************)
(* What the outbox promises to those who save events and those who consume  *)
(* the topic: a saved task is sent any number of times until it is closed,  *)
(* and never again.                                                         *)
(***************************************************************************)
EXTENDS Naturals

CONSTANT Tasks

VARIABLES
    stored,   \* tasks that have been saved
    copies,   \* task -> records in the topic
    closed    \* tasks that are finished, given up or abandoned

vars == <<stored, copies, closed>>

Init ==
    /\ stored = {}
    /\ copies = [t \in Tasks |-> 0]
    /\ closed = {}

Save(t) ==
    /\ t \notin stored
    /\ stored' = stored \cup {t}
    /\ UNCHANGED <<copies, closed>>

Send(t) ==
    /\ t \in stored \ closed
    /\ copies' = [copies EXCEPT ![t] = copies[t] + 1]
    /\ UNCHANGED <<stored, closed>>

Close(t) ==
    /\ t \in stored \ closed
    /\ closed' = closed \cup {t}
    /\ UNCHANGED <<stored, copies>>

Next == \E t \in Tasks : Save(t) \/ Send(t) \/ Close(t)

Spec == Init /\ [][Next]_vars

=============================================================================
