----------------------------- MODULE AuditTrail -----------------------------
(***************************************************************************)
(* The way of an audit event from end to end: the pipeline of the API       *)
(* process, the outbox, the topic, the consumer.                            *)
(*                                                                         *)
(* The outbox is here what it promises to be, which its own module is shown *)
(* to implement.                                                            *)
(***************************************************************************)
EXTENDS AuditPipeline, AuditConsumer

VARIABLE
    closed    \* tasks the outbox will not send any more

trailVars == <<vars, consumerVars, closed>>

TrailInit == Init /\ ConsumerInit /\ closed = {}

\* The records of an event.
RecordsOf(e) == {r \in 1..Len(log) : log[r] = e}

Promise == INSTANCE OutboxPromise
               WITH Tasks  <- Events,
                    stored <- {e \in Events : saved[e] > 0},
                    copies <- [e \in Events |-> Cardinality(RecordsOf(e))]

\* The outbox sends a task: the topic has one more record.
OutboxSends(e) == UNCHANGED vars /\ Publish(e) /\ Promise!Send(e)

\* The outbox has done with a task: it is finished, given up or abandoned.
OutboxCloses(e) == UNCHANGED <<vars, consumerVars>> /\ Promise!Close(e)

TrailNext ==
    \/ Next /\ UNCHANGED <<consumerVars, closed>>
    \/ Consumer /\ UNCHANGED <<vars, closed>>
    \/ \E e \in Events : OutboxSends(e) \/ OutboxCloses(e)

TrailSpec == TrailInit /\ [][TrailNext]_trailVars

TrailFairness ==
    /\ Fairness
    /\ ConsumerFairness
    /\ \A e \in Events : WF_trailVars(OutboxCloses(e))

FairTrailSpec == TrailSpec /\ TrailFairness

-----------------------------------------------------------------------------

\* A record of the event is in the consumer's log, or is one the consumer may pass.
Recorded(e) == RecordsOf(e) \cap (handled \cup excused) # {}

\* The places where the code gives an event up: its handler took the change for failed,
\* its save failed or its process ended before it, the outbox was done with its task
\* without having sent it.
GivenUp(e) ==
    \/ e \in unreported
    \/ saved[e] = 0 /\ e \in logged \cup lost
    \/ e \in closed /\ RecordsOf(e) = {}

\* Every change of an order that is committed, its handler told or not, is recorded in
\* the end, or its event was given up at one of the places above: it does not stay on
\* its way for ever, whatever dies, fails or is rebalanced.
RecordedOrGivenUp == \A e \in StatusEvents : (e \in due) ~> (Recorded(e) \/ GivenUp(e))

\* A record that the consumer still has before it: neither its position nor the
\* committed offset has passed it, unless the loop has it in hand.
Ahead(r) ==
    /\ committed # NoOffset => r > committed
    /\ phase # "down" => r > position \/ r \in InHand

\* Nothing vanishes: at every moment, whatever died or failed, an event that is due is
\* recorded or given up at one of the places above, or somebody still has to pass it on:
\* the pipeline, the outbox, or the consumer.
NothingVanishes ==
    \A e \in due :
        \/ Recorded(e) \/ GivenUp(e)
        \/ e \in InMemory
        \/ saved[e] > 0 /\ e \notin closed
        \/ \E r \in RecordsOf(e) : Ahead(r)

\* The inductive invariant: those of the parts, and the topic has the records of events
\* that were saved.
TrailIInv ==
    /\ IInv
    /\ ConsumerIInv
    /\ log \in Seq(Events)
    /\ \A r \in 1..Len(log) : saved[log[r]] > 0

=============================================================================
