--------------------------- MODULE AuditConsumer ---------------------------
(***************************************************************************)
(* The consumer of the topic "audit_logs" (cmd/consumer): a process that    *)
(* polls records, logs them and commits its offsets, and loses its memory   *)
(* when it dies.                                                            *)
(*                                                                         *)
(* The Kafka client is modelled from how the code uses it: offsets are not  *)
(* committed automatically, CommitUncommittedOffsets commits everything     *)
(* polled so far, processed or not, and a rebalance (which does not wait    *)
(* for the poll loop) gives the partition back with the committed offset.   *)
(* One partition; a record is named by its place in the log, and an offset  *)
(* is the number of records before it.                                      *)
(***************************************************************************)
EXTENDS Naturals, Sequences

CONSTANTS
    MaxLog,     \* bounds the log
    NoOffset    \* nothing committed, or nothing to commit

ASSUME ConsumerAssumption == MaxLog \in Nat /\ NoOffset \notin Nat

VARIABLES
    log,          \* the committed records of the partition
    committed,    \* offset committed for the group
    phase,        \* the consumer is "down", or its loop "poll"s or "process"es
    position,     \* offset of its next fetch
    uncommitted,  \* offset that CommitUncommittedOffsets will commit
    next, last,   \* it still has to process the records next + 1 .. last
    handled,      \* records that were logged
    excused       \* records the code skips knowingly, see Skip (history)

client == <<phase, position, uncommitted, next, last>>
consumerVars == <<log, committed, client, handled, excused>>

Offsets == 0..MaxLog

ConsumerTypeOK ==
    /\ Len(log)    \in Offsets
    /\ committed   \in Offsets \cup {NoOffset}
    /\ phase       \in {"down", "poll", "process"}
    /\ position    \in Offsets
    /\ uncommitted \in Offsets \cup {NoOffset}
    /\ next        \in Offsets
    /\ last        \in Offsets
    /\ handled     \in SUBSET (1..MaxLog)
    /\ excused     \in SUBSET (1..MaxLog)

ConsumerInit ==
    /\ log         = <<>>
    /\ committed   = NoOffset
    /\ phase       = "down"
    /\ position    = 0
    /\ uncommitted = NoOffset
    /\ next        = 0
    /\ last        = 0
    /\ handled     = {}
    /\ excused     = {}

\* The producer's transactions: ReadCommitted hides the others.
Publish(e) ==
    /\ Len(log) < MaxLog
    /\ log' = Append(log, e)
    /\ UNCHANGED <<committed, client, handled, excused>>

-----------------------------------------------------------------------------
\* Offsets.

InHand == (next + 1)..last

\* Records that will not be delivered (again), and may not have been handled.
Skip(records) == excused' = excused \cup records

\* Mutant: ConsumeResetOffset(AtStart), whatever was committed.
ResetToStart(offset) == 0

\* The partition is assigned: from the committed offset on, or from the end of the
\* log if there is none, which passes all that is in it.
StartAt(offset) == IF offset = NoOffset THEN Len(log) ELSE offset
Passed(offset)  == IF offset = NoOffset THEN 1..Len(log) ELSE {}

\* CommitUncommittedOffsets: it succeeds, fails, or succeeds without an answer.
TryCommit ==
    \/ /\ uncommitted # NoOffset
       /\ committed' = uncommitted
       /\ uncommitted' \in {uncommitted, NoOffset}
    \/ UNCHANGED <<committed, uncommitted>>

-----------------------------------------------------------------------------
\* run.

Join ==
    /\ phase = "down"
    /\ phase' = "poll"
    /\ position' = StartAt(committed)
    /\ Skip(Passed(committed))
    /\ UNCHANGED <<log, committed, uncommitted, next, last, handled>>

\* Mutant: the offsets are committed before the records are processed.
PollAndCommit(n) ==
    /\ phase = "poll"
    /\ phase'       = "process"
    /\ position'    = n
    /\ uncommitted' = NoOffset
    /\ committed'   = n
    /\ next'        = position
    /\ last'        = n
    /\ UNCHANGED <<log, handled, excused>>

\* Records are polled, up to offset n.
Poll(n) ==
    /\ phase = "poll"
    /\ phase'       = "process"
    /\ position'    = n
    /\ uncommitted' = n
    /\ next'        = position
    /\ last'        = n
    /\ UNCHANGED <<log, committed, handled, excused>>

\* The poll reports errors too: its records are dropped, the next commit passes them.
PollErrors(n) ==
    /\ phase = "poll"
    /\ position'    = n
    /\ uncommitted' = n
    /\ Skip((position + 1)..n)
    /\ UNCHANGED <<log, committed, phase, next, last, handled>>

\* processRecord never fails: it logs, and recovers from a panic.
ProcessRecord ==
    /\ phase = "process"
    /\ next < last
    /\ handled' = handled \cup {next + 1}
    /\ next'    = next + 1
    /\ UNCHANGED <<log, committed, phase, position, uncommitted, last, excused>>

\* Mutant: the loop does not go on after a poll.
StopAfterPoll ==
    /\ phase = "process"
    /\ next = last
    /\ TryCommit
    /\ UNCHANGED <<log, phase, position, next, last, handled, excused>>

\* All records of the poll are processed; an error of the commit is logged.
CommitOffsets ==
    /\ phase = "process"
    /\ next = last
    /\ TryCommit
    /\ phase' = "poll"
    /\ UNCHANGED <<log, position, next, last, handled, excused>>

-----------------------------------------------------------------------------
\* What interrupts it.

\* The partition is revoked, which commits what was polled, and assigned again.  The
\* loop goes on with the records it has.
Rebalance ==
    /\ phase # "down"
    /\ committed' \in {committed} \cup ({uncommitted} \ {NoOffset})
    /\ uncommitted' = NoOffset
    /\ position' = StartAt(committed')
    /\ Skip(Passed(committed') \cup {r \in InHand : committed' # NoOffset /\ r <= committed'})
    /\ UNCHANGED <<log, phase, next, last, handled>>

Forget ==
    /\ phase'       = "down"
    /\ position'    = 0
    /\ uncommitted' = NoOffset
    /\ next'        = 0
    /\ last'        = 0
    /\ UNCHANGED <<log, handled, excused>>

\* SIGTERM: the loop returns before its next poll, and leaving the group revokes the
\* partition.
Shutdown ==
    /\ phase = "poll"
    /\ committed' \in {committed} \cup ({uncommitted} \ {NoOffset})
    /\ Forget

\* The process dies.
Crash ==
    /\ phase # "down"
    /\ Forget
    /\ UNCHANGED committed

Consumer ==
    \/ Join
    \/ \E n \in (position + 1)..Len(log) : Poll(n) \/ PollErrors(n)
    \/ ProcessRecord
    \/ CommitOffsets
    \/ Rebalance
    \/ Shutdown
    \/ Crash

(***************************************************************************)
(* Fairness: the process is started again, and a record that it comes to    *)
(* again and again is polled and processed at last: it is not killed at the *)
(* same point of its loop forever.                                          *)
(***************************************************************************)
ConsumerFairness ==
    /\ WF_consumerVars(Join)
    /\ SF_consumerVars(CommitOffsets)
    /\ \A r \in 1..MaxLog :
           /\ SF_consumerVars(position < r /\ \E n \in r..Len(log) : Poll(n))
           /\ SF_consumerVars(next + 1 = r /\ ProcessRecord)

-----------------------------------------------------------------------------
(***************************************************************************)
(* Properties.                                                              *)
(***************************************************************************)

\* The committed offset passes no record that was not logged, although it is the
\* polled records that are committed, by the loop, by rebalances and at shutdown.
\* The exceptions: a poll that reported an error, records from before the first
\* commit that are skipped at a start, and what a rebalance commits while it is in
\* hand.
NothingSkipped ==
    committed # NoOffset => 1..committed \subseteq handled \cup excused

\* A record whose offset is committed is not delivered again, by whatever crashes,
\* rebalances and restarts.
NoRedelivery ==
    [][committed # NoOffset /\ last' > last => next' >= committed]_consumerVars

\* Every record is logged, or is one of the exceptions.
Delivered == \A r \in 1..MaxLog : (r <= Len(log)) ~> (r \in handled \cup excused)

(***************************************************************************)
(* The inductive invariant.                                                 *)
(***************************************************************************)

\* The client is nowhere behind the end of the log, is not behind what is committed,
\* and would commit just what it has polled.  The loop has nothing in hand but between
\* a poll and the commit that follows.
ClientConsistent ==
    /\ position <= Len(log) /\ last <= Len(log) /\ next <= last
    /\ uncommitted \in {position, NoOffset}
    /\ phase # "process" => next = last
    /\ phase = "down" => uncommitted = NoOffset
    /\ committed # NoOffset => committed <= Len(log) /\ (phase # "down" => committed <= position)

\* What the client has passed is handled, excused or in hand.
NothingDropped ==
    phase # "down" => \A r \in 1..position : r \in handled \/ r \in excused \/ r \in InHand

ConsumerIInv ==
    /\ ConsumerTypeOK
    /\ ClientConsistent
    /\ NothingDropped
    /\ NothingSkipped

=============================================================================
