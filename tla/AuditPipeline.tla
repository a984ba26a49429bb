--------------------------- MODULE AuditPipeline ---------------------------
(***************************************************************************)
(* The audit pipeline inside an API process (internal/audit/pipeline.go,    *)
(* worker_pool.go and worker.go): how an event gets from a handler to the   *)
(* table "audit_tasks", or does not.                                        *)
(*                                                                         *)
(* The pool modelled is the one that saves to the database.  The other pool *)
(* gets the same events in channels of its own, and its handler ignores     *)
(* them.                                                                    *)
(***************************************************************************)
EXTENDS Naturals, Sequences, FiniteSets

CONSTANTS
    ApiEvents,      \* EventAPIRequest and EventAPIResponse events
    StatusEvents,   \* EventStatusChange events
    Capacity,       \* of a channel: 1000
    BatchLimit      \* events a worker collects at most: 5

ASSUME EventsAssumption == ApiEvents \cap StatusEvents = {}
ASSUME LimitsAssumption == Capacity \in Nat /\ BatchLimit \in Nat \ {0}

Events == ApiEvents \cup StatusEvents

\* A channel and the worker that reads it.
Channels == {"ApiChan", "StatusChan"}

VARIABLES
    ctx,       \* "running", or "cancelled" by SIGINT
    sending,   \* events whose goroutine waits to put them into their channel
    chan,      \* channel -> the events in its buffer
    pc,        \* channel -> what its worker is doing
    batch,     \* channel -> the batch of its worker
    at,        \* channel -> how many of the batch have been processed
    saved,     \* event -> rows in audit_tasks that carry it
    logged,    \* events reported by "failed to process audit event"
    unsent,    \* events the handlers have still to call SendEvent with
    due,       \* events there are to report: what they report has happened (history)
    lost,      \* events in memory when a process ended (history)
    unreported \* events of changes whose handler was told that they failed (history)

memory == <<unsent, sending, chan, pc, batch, at>>
vars   == <<ctx, memory, saved, logged, due, lost, unreported>>

\* Worker.Run waits in its select, processes a full or timed-out batch, processes
\* the last batch at shutdown, or has returned.
WorkerPCs == {"select", "batch", "flush", "stopped"}

TypeOK ==
    /\ ctx     \in {"running", "cancelled"}
    /\ sending \in SUBSET Events
    /\ chan    \in [Channels -> Seq(Events)]
    /\ pc      \in [Channels -> WorkerPCs]
    /\ batch   \in [Channels -> Seq(Events)]
    /\ at      \in [Channels -> Nat]
    /\ saved   \in [Events -> Nat]
    /\ logged  \in SUBSET Events
    /\ unsent  \in SUBSET Events
    /\ due     \in SUBSET Events
    /\ lost    \in SUBSET Events
    /\ unreported \in SUBSET StatusEvents
    /\ \A c \in Channels : /\ Len(chan[c]) <= Capacity
                           /\ Len(batch[c]) <= BatchLimit
                           /\ at[c] <= Len(batch[c])

Init ==
    /\ ctx     = "running"
    /\ sending = {}
    /\ chan    = [c \in Channels |-> <<>>]
    /\ pc      = [c \in Channels |-> "select"]
    /\ batch   = [c \in Channels |-> <<>>]
    /\ at      = [c \in Channels |-> 0]
    /\ saved   = [e \in Events |-> 0]
    /\ logged  = {}
    /\ unsent  = {}
    /\ due     = {}
    /\ lost    = {}
    /\ unreported = {}

-----------------------------------------------------------------------------
\* Senders.

ChannelOf(e) == IF e \in ApiEvents THEN "ApiChan" ELSE "StatusChan"

\* Something happens that is to be reported: a request changes the status of orders,
\* in one transaction that is committed by now; a request comes in or is answered.
\* Handlers still run while the process shuts down.
Happens(es) ==
    /\ es # {} /\ es \cap due = {}
    /\ es \subseteq StatusEvents \/ \E e \in ApiEvents : es = {e}
    /\ due'    = due \cup es
    /\ unsent' = unsent \cup es
    /\ UNCHANGED <<ctx, sending, chan, pc, batch, at, saved, logged, lost, unreported>>

\* A change is committed, but the answer to the COMMIT (or to the INSERT or DELETE) is
\* lost: the operation returns ErrDatabase, and the handler returns before SendEvent.
HappensUnreported(es) ==
    /\ es # {} /\ es \cap due = {}
    /\ es \subseteq StatusEvents
    /\ due'        = due \cup es
    /\ unreported' = unreported \cup es
    /\ UNCHANGED <<ctx, unsent, sending, chan, pc, batch, at, saved, logged, lost>>

\* The handler or the middleware reports one event after the other: a goroutine is
\* started for it, and the caller goes on.
SendEvent(e) ==
    /\ e \in unsent
    /\ unsent'  = unsent \ {e}
    /\ sending' = sending \cup {e}
    /\ UNCHANGED <<ctx, chan, pc, batch, at, saved, logged, due, lost, unreported>>

\* Mutant: select with a default that drops the event when the channel is full.
EnqueueOrDrop(e) ==
    LET c == ChannelOf(e) IN
    /\ e \in sending
    /\ sending' = sending \ {e}
    /\ chan'    = [chan EXCEPT ![c] = IF Len(chan[c]) < Capacity THEN Append(chan[c], e)
                                                                 ELSE chan[c]]
    /\ UNCHANGED <<ctx, unsent, pc, batch, at, saved, logged, due, lost, unreported>>

\* The goroutine gets its event into the channel; until there is room it waits.
Enqueue(e) ==
    LET c == ChannelOf(e) IN
    /\ e \in sending
    /\ Len(chan[c]) < Capacity
    /\ sending' = sending \ {e}
    /\ chan'    = [chan EXCEPT ![c] = Append(chan[c], e)]
    /\ UNCHANGED <<ctx, unsent, pc, batch, at, saved, logged, due, lost, unreported>>

-----------------------------------------------------------------------------
\* Worker.Run: the three cases of its select, in no fixed order.

\* Mutant: the limit of a batch is one off.
ReceiveOneMore(c) ==
    /\ pc[c] = "select"
    /\ chan[c] # <<>>
    /\ chan'  = [chan EXCEPT ![c] = Tail(chan[c])]
    /\ batch' = [batch EXCEPT ![c] = Append(batch[c], Head(chan[c]))]
    /\ pc'    = [pc EXCEPT ![c] = IF Len(batch[c]) + 1 > BatchLimit THEN "batch" ELSE "select"]
    /\ UNCHANGED <<ctx, unsent, sending, at, saved, logged, due, lost, unreported>>

\* An event arrives, and may fill the batch.
Receive(c) ==
    /\ pc[c] = "select"
    /\ chan[c] # <<>>
    /\ chan'  = [chan EXCEPT ![c] = Tail(chan[c])]
    /\ batch' = [batch EXCEPT ![c] = Append(batch[c], Head(chan[c]))]
    /\ pc'    = [pc EXCEPT ![c] = IF Len(batch[c]) + 1 >= BatchLimit THEN "batch" ELSE "select"]
    /\ UNCHANGED <<ctx, unsent, sending, at, saved, logged, due, lost, unreported>>

\* Mutant: a batch that is not full is left for later.
TickOnlyFull(c) ==
    /\ pc[c] = "select"
    /\ Len(batch[c]) >= BatchLimit
    /\ pc' = [pc EXCEPT ![c] = "batch"]
    /\ UNCHANGED <<ctx, unsent, sending, chan, batch, at, saved, logged, due, lost, unreported>>

\* The ticker fires.
Tick(c) ==
    /\ pc[c] = "select"
    /\ batch[c] # <<>>
    /\ pc' = [pc EXCEPT ![c] = "batch"]
    /\ UNCHANGED <<ctx, unsent, sending, chan, batch, at, saved, logged, due, lost, unreported>>

\* Mutant: ctx.Done ends the worker without a last batch.
StopUnflushed(c) ==
    /\ pc[c] = "select"
    /\ ctx = "cancelled"
    /\ pc'    = [pc EXCEPT ![c] = "stopped"]
    /\ batch' = [batch EXCEPT ![c] = <<>>]
    /\ UNCHANGED <<ctx, unsent, sending, chan, at, saved, logged, due, lost, unreported>>

\* ctx.Done: what is in the batch is processed, what is in the channel is not.
Stop(c) ==
    /\ pc[c] = "select"
    /\ ctx = "cancelled"
    /\ pc' = [pc EXCEPT ![c] = IF batch[c] = <<>> THEN "stopped" ELSE "flush"]
    /\ UNCHANGED <<ctx, unsent, sending, chan, batch, at, saved, logged, due, lost, unreported>>

Processing(c) == pc[c] \in {"batch", "flush"} /\ at[c] < Len(batch[c])

\* processBatch: SaveLog for one event after the other.  An error is logged, and
\* the event is not tried again.  A row may be there although an error is reported;
\* a cancelled context fails before anything is sent.
SaveLog(c) ==
    LET e   == batch[c][at[c] + 1]
        row == [saved EXCEPT ![e] = saved[e] + 1]
    IN /\ Processing(c)
       /\ at' = [at EXCEPT ![c] = at[c] + 1]
       /\ \/ /\ ctx = "running"
             /\ saved' = row
             /\ logged' \in {logged, logged \cup {e}}
          \/ /\ saved' = saved
             /\ logged' = logged \cup {e}
       /\ UNCHANGED <<ctx, unsent, sending, chan, pc, batch, due, lost, unreported>>

\* Mutant: the batch is not emptied.
BatchKept(c) ==
    /\ pc[c] \in {"batch", "flush"} /\ at[c] = Len(batch[c])
    /\ pc' = [pc EXCEPT ![c] = IF pc[c] = "batch" THEN "select" ELSE "stopped"]
    /\ at' = [at EXCEPT ![c] = 0]
    /\ UNCHANGED <<ctx, unsent, sending, chan, batch, saved, logged, due, lost, unreported>>

\* The batch is done: back to the select with an empty one, or return.
BatchDone(c) ==
    /\ pc[c] \in {"batch", "flush"} /\ at[c] = Len(batch[c])
    /\ pc'    = [pc EXCEPT ![c] = IF pc[c] = "batch" THEN "select" ELSE "stopped"]
    /\ batch' = [batch EXCEPT ![c] = <<>>]
    /\ at'    = [at EXCEPT ![c] = 0]
    /\ UNCHANGED <<ctx, unsent, sending, chan, saved, logged, due, lost, unreported>>

-----------------------------------------------------------------------------
\* The process.

\* SIGINT.
Interrupt ==
    /\ ctx = "running"
    /\ ctx' = "cancelled"
    /\ UNCHANGED <<memory, saved, logged, due, lost, unreported>>

Elements(s) == {s[i] : i \in 1..Len(s)}

Unprocessed(c) == {batch[c][i] : i \in (at[c] + 1)..Len(batch[c])}

InMemory == unsent \cup sending \cup UNION {Elements(chan[c]) \cup Unprocessed(c) : c \in Channels}

\* main returns (it waits for no worker) or the process dies, and a new one starts.
Exit ==
    /\ ctx'     = "running"
    /\ unsent'  = {}
    /\ sending' = {}
    /\ chan'    = [c \in Channels |-> <<>>]
    /\ pc'      = [c \in Channels |-> "select"]
    /\ batch'   = [c \in Channels |-> <<>>]
    /\ at'      = [c \in Channels |-> 0]
    /\ lost'    = lost \cup InMemory
    /\ UNCHANGED <<saved, logged, due, unreported>>

Worker(c) == Receive(c) \/ Tick(c) \/ Stop(c) \/ SaveLog(c) \/ BatchDone(c)

Next ==
    \/ \E es \in SUBSET Events : Happens(es) \/ HappensUnreported(es)
    \/ \E e \in Events : SendEvent(e) \/ Enqueue(e)
    \/ \E c \in Channels : Worker(c)
    \/ Interrupt
    \/ Exit

Spec == Init /\ [][Next]_vars

(***************************************************************************)
(* Fairness: goroutines run; a select does not ignore a case that is ready  *)
(* forever, and a full channel serves its senders in turn; main returns     *)
(* after a SIGINT.                                                          *)
(***************************************************************************)
Fairness ==
    /\ \A e \in Events : WF_vars(SendEvent(e)) /\ SF_vars(Enqueue(e))
    /\ \A c \in Channels : /\ SF_vars(Receive(c))
                           /\ SF_vars(Tick(c))
                           /\ WF_vars(Stop(c))
                           /\ WF_vars(SaveLog(c))
                           /\ WF_vars(BatchDone(c))
    /\ WF_vars(ctx = "cancelled" /\ Exit)

FairSpec == Spec /\ Fairness

-----------------------------------------------------------------------------
(***************************************************************************)
(* Properties.                                                              *)
(***************************************************************************)

\* No event is saved twice, by whatever mixture of full batches, ticks, errors and
\* shutdowns it is processed.
SavedOnce == \A e \in Events : saved[e] <= 1

\* How often an event is somewhere in the memory of the process.
Copies(e) ==
    LET c == ChannelOf(e)
    IN Cardinality({i \in 1..Len(chan[c]) : chan[c][i] = e})
       + Cardinality({i \in (at[c] + 1)..Len(batch[c]) : batch[c][i] = e})
       + Cardinality({e} \cap unsent) + Cardinality({e} \cap sending)

Settled(e) == saved[e] > 0 \/ e \in logged \/ e \in lost \/ e \in unreported

\* No event disappears silently, and none is handed on twice: the event of a change
\* that is committed is at exactly one place on its way, or it was saved, or its loss
\* was logged, or the process ended with it in memory, or its handler took the change
\* for failed.
Accounted ==
    \A e \in Events : Copies(e) = IF e \in due /\ ~Settled(e) THEN 1 ELSE 0

\* Every event reaches the end of its way, even if channels are full.
Drained == \A e \in Events : (e \in due) ~> Settled(e)

(***************************************************************************)
(* The inductive invariant.                                                 *)
(***************************************************************************)

\* No element twice behind the first n of a sequence.
Distinct(s, n) == \A i, j \in (n + 1)..Len(s) : s[i] = s[j] => i = j

\* Nothing is twice in a channel or in the rest of a batch, or in both, or in those of
\* the other kind of events.
WorkerConsistent(c) ==
    /\ Distinct(chan[c], 0)
    /\ Distinct(batch[c], at[c])
    /\ Elements(chan[c]) \cap Unprocessed(c) = {}
    /\ \A e \in Elements(chan[c]) \cup Unprocessed(c) : ChannelOf(e) = c
    /\ pc[c] = "select" => at[c] = 0 /\ Len(batch[c]) < BatchLimit

\* The places of an event on its way to its worker exclude each other.
Apart ==
    /\ unsent \cap sending = {}
    /\ \A c \in Channels : (unsent \cup sending) \cap (Elements(chan[c]) \cup Unprocessed(c)) = {}

\* What is in memory is what is due and not settled.
OnItsWay ==
    /\ InMemory = {e \in due : ~Settled(e)}
    /\ \A e \in Events : Settled(e) => e \in due

IInv ==
    /\ TypeOK
    /\ SavedOnce
    /\ \A c \in Channels : WorkerConsistent(c)
    /\ Apart
    /\ OnItsWay

=============================================================================
