-------------------------- MODULE AuditTrailProofs --------------------------
(***************************************************************************)
(* Theorems about AuditTrail and its consumer, for any events and a log of  *)
(* any length.                                                              *)
(***************************************************************************)
EXTENDS AuditTrail, AuditPipelineProofs

-----------------------------------------------------------------------------
\* The consumer.

\* Offsets are numbers, and no number is NoOffset.
LEMMA OffsetsAreNumbers ==
    ASSUME ConsumerTypeOK
    PROVE  /\ Offsets \subseteq Nat /\ NoOffset \notin Offsets /\ MaxLog \in Nat
           /\ Len(log) \in Nat /\ position \in Nat /\ next \in Nat /\ last \in Nat
           /\ committed # NoOffset => committed \in Nat
           /\ uncommitted # NoOffset => uncommitted \in Nat
BY ConsumerAssumption DEF ConsumerTypeOK, Offsets

\* An offset within the log.
LEMMA OffsetInLog ==
    ASSUME ConsumerTypeOK, NEW n \in Nat, n <= Len(log)
    PROVE  n \in Offsets /\ 1..n \subseteq 1..MaxLog
BY ConsumerAssumption DEF ConsumerTypeOK, Offsets

\* The invariant holds initially.
LEMMA ConsumerInitInv == ConsumerInit => ConsumerIInv
<1> SUFFICES ASSUME ConsumerInit PROVE ConsumerIInv
  OBVIOUS
<1>1. Len(log) = 0
  BY DEF ConsumerInit
<1> QED
  BY <1>1, ConsumerAssumption
     DEF ConsumerInit, ConsumerIInv, ConsumerTypeOK, Offsets, ClientConsistent, NothingDropped, NothingSkipped

\* The log becomes longer.
LEMMA PublishInv ==
    ASSUME ConsumerIInv, NEW S, log \in Seq(S), NEW e \in S, Publish(e)
    PROVE  ConsumerIInv'
<1>1. Len(log') = Len(log) + 1 /\ Len(log) \in Nat /\ Len(log) < MaxLog
  BY DEF Publish
<1>2. UNCHANGED <<committed, phase, position, uncommitted, next, last, handled, excused>>
  BY DEF Publish, client
<1>3. ConsumerTypeOK'
  <2>1. Len(log') \in Offsets
    BY <1>1, ConsumerAssumption DEF Offsets
  <2> QED
    BY <1>2, <2>1 DEF ConsumerIInv, ConsumerTypeOK
<1>4. ClientConsistent'
  <2>1. /\ position \in Nat /\ last \in Nat /\ (committed # NoOffset => committed \in Nat)
        /\ position <= Len(log) /\ last <= Len(log) /\ (committed # NoOffset => committed <= Len(log))
    BY OffsetsAreNumbers DEF ConsumerIInv, ClientConsistent
  <2>2. position <= Len(log') /\ last <= Len(log') /\ (committed # NoOffset => committed <= Len(log'))
    BY <1>1, <2>1
  <2> QED
    BY <1>2, <2>2 DEF ConsumerIInv, ClientConsistent
<1>5. NothingDropped' /\ NothingSkipped'
  BY <1>2 DEF ConsumerIInv, NothingDropped, NothingSkipped, InHand
<1> QED
  BY <1>3, <1>4, <1>5 DEF ConsumerIInv

\* Where the client starts: nothing before is left out.
LEMMA StartInv ==
    ASSUME ConsumerTypeOK, NEW c \in Offsets \cup {NoOffset}, c # NoOffset => c <= Len(log)
    PROVE  /\ StartAt(c) \in Offsets /\ StartAt(c) \in Nat /\ StartAt(c) <= Len(log)
           /\ Passed(c) \subseteq 1..MaxLog
           /\ c = NoOffset => Passed(c) = 1..StartAt(c)
           /\ c # NoOffset => StartAt(c) = c
<1>1. Len(log) \in Nat /\ Len(log) \in Offsets /\ Offsets \subseteq Nat
  BY OffsetsAreNumbers DEF ConsumerTypeOK
<1>2. 1..Len(log) \subseteq 1..MaxLog
  BY <1>1, OffsetInLog
<1> QED
  BY <1>1, <1>2 DEF StartAt, Passed

\* The consumer starts.
LEMMA JoinInv ==
    ASSUME ConsumerIInv, Join
    PROVE  ConsumerIInv'
<1>1. /\ position' = StartAt(committed) /\ excused' = excused \cup Passed(committed)
      /\ UNCHANGED <<log, committed, uncommitted, next, last, handled>>
      /\ phase = "down" /\ phase' = "poll" /\ uncommitted = NoOffset /\ next = last
  BY DEF Join, Skip, ConsumerIInv, ClientConsistent
<1>2. /\ StartAt(committed) \in Offsets /\ StartAt(committed) \in Nat /\ StartAt(committed) <= Len(log)
      /\ Passed(committed) \subseteq 1..MaxLog
      /\ committed = NoOffset => Passed(committed) = 1..StartAt(committed)
      /\ committed # NoOffset => StartAt(committed) = committed
  BY StartInv DEF ConsumerIInv, ConsumerTypeOK, ClientConsistent
<1>3. ConsumerTypeOK'
  BY <1>1, <1>2 DEF ConsumerIInv, ConsumerTypeOK
<1>4. ClientConsistent'
  <2>1. committed # NoOffset => committed \in Nat /\ committed <= position'
    BY <1>1, <1>2
  <2> QED
    BY <1>1, <1>2, <2>1 DEF ConsumerIInv, ClientConsistent
<1>5. NothingDropped' /\ NothingSkipped'
  BY <1>1, <1>2 DEF ConsumerIInv, NothingDropped, NothingSkipped
<1> QED
  BY <1>3, <1>4, <1>5 DEF ConsumerIInv

\* Records are polled, which are then in hand or, if the poll had errors, excused.
LEMMA PollInv ==
    ASSUME ConsumerIInv, NEW n \in (position + 1)..Len(log), Poll(n) \/ PollErrors(n)
    PROVE  ConsumerIInv'
<1>1. /\ phase = "poll" /\ phase' # "down" /\ position' = n /\ uncommitted' = n
      /\ UNCHANGED <<log, committed, handled>>
      /\ \/ phase' = "process" /\ next' = position /\ last' = n /\ excused' = excused
         \/ phase' = "poll" /\ UNCHANGED <<next, last>> /\ excused' = excused \cup ((position + 1)..n)
  BY DEF Poll, PollErrors, Skip
<1>2. /\ position \in Nat /\ next \in Nat /\ last \in Nat /\ Len(log) \in Nat /\ position <= Len(log)
      /\ n \in Nat /\ position <= n /\ n <= Len(log) /\ next = last /\ last <= Len(log)
      /\ committed # NoOffset => committed \in Nat /\ committed <= position /\ committed <= Len(log)
      /\ \A r \in 1..position : r \in handled \/ r \in excused \/ r \in InHand
  BY <1>1, OffsetsAreNumbers DEF ConsumerIInv, ClientConsistent, NothingDropped
<1>3. n \in Offsets /\ (position + 1)..n \subseteq 1..MaxLog
  <2>1. n \in Offsets /\ 1..n \subseteq 1..MaxLog
    BY <1>2, OffsetInLog DEF ConsumerIInv
  <2>2. (position + 1)..n \subseteq 1..n
    BY <1>2
  <2> QED
    BY <2>1, <2>2
<1>4. ConsumerTypeOK'
  BY <1>1, <1>3 DEF ConsumerIInv, ConsumerTypeOK
<1>5. ClientConsistent'
  <2>1. next' <= last' /\ last' <= Len(log) /\ (phase' # "process" => next' = last')
    BY <1>1, <1>2
  <2>2. committed # NoOffset => committed <= n
    BY <1>2
  <2> QED
    BY <1>1, <1>2, <2>1, <2>2 DEF ClientConsistent
<1>6. NothingDropped'
  <2>1. InHand = {}
    BY <1>2 DEF InHand
  <2>2. \A r \in 1..n : r \in 1..position \/ r \in (position + 1)..n
    BY <1>2
  <2>3. phase' = "process" => InHand' = (position + 1)..n
    BY <1>1 DEF InHand
  <2> QED
    BY <1>1, <1>2, <2>1, <2>2, <2>3 DEF NothingDropped
<1>7. NothingSkipped'
  BY <1>1 DEF ConsumerIInv, NothingSkipped
<1> QED
  BY <1>4, <1>5, <1>6, <1>7 DEF ConsumerIInv

\* A record in hand becomes a record that is handled.
LEMMA ProcessRecordInv ==
    ASSUME ConsumerIInv, ProcessRecord
    PROVE  ConsumerIInv'
<1>1. /\ phase = "process" /\ next < last /\ handled' = handled \cup {next + 1} /\ next' = next + 1
      /\ UNCHANGED <<log, committed, phase, position, uncommitted, last, excused>>
  BY DEF ProcessRecord
<1>2. next \in Nat /\ last \in Nat /\ last <= Len(log) /\ Len(log) \in Nat
  BY OffsetsAreNumbers DEF ConsumerIInv, ClientConsistent
<1>3. next + 1 \in Nat /\ next + 1 <= last /\ next + 1 <= Len(log) /\ next + 1 \in 1..(next + 1)
  BY <1>1, <1>2
<1>4. next + 1 \in Offsets /\ next + 1 \in 1..MaxLog
  BY <1>3, OffsetInLog DEF ConsumerIInv
<1>5. ConsumerTypeOK'
  BY <1>1, <1>4 DEF ConsumerIInv, ConsumerTypeOK
<1>6. ClientConsistent'
  BY <1>1, <1>3 DEF ConsumerIInv, ClientConsistent
<1>7. \A r \in InHand : r = next + 1 \/ r \in InHand'
  BY <1>1, <1>2 DEF InHand
<1>8. NothingDropped' /\ NothingSkipped'
  BY <1>1, <1>7 DEF ConsumerIInv, NothingDropped, NothingSkipped
<1> QED
  BY <1>5, <1>6, <1>8 DEF ConsumerIInv

\* The commit after the last record of a poll: nothing is in hand any more.
LEMMA CommitOffsetsInv ==
    ASSUME ConsumerIInv, CommitOffsets
    PROVE  ConsumerIInv'
<1>1. /\ phase = "process" /\ next = last /\ phase' = "poll"
      /\ UNCHANGED <<log, position, next, last, handled, excused>>
      /\ committed' = committed \/ (uncommitted # NoOffset /\ committed' = uncommitted)
      /\ uncommitted' \in {uncommitted, NoOffset}
  BY DEF CommitOffsets, TryCommit
<1>2. ConsumerTypeOK'
  BY <1>1 DEF ConsumerIInv, ConsumerTypeOK
<1>3. position \in Nat /\ next \in Nat /\ last \in Nat
  BY OffsetsAreNumbers DEF ConsumerIInv
<1>4. ClientConsistent'
  <2>1. uncommitted # NoOffset => uncommitted = position
    BY DEF ConsumerIInv, ClientConsistent
  <2>2. committed' # NoOffset => committed' <= Len(log) /\ committed' <= position
    BY <1>1, <1>3, <2>1 DEF ConsumerIInv, ClientConsistent
  <2> QED
    BY <1>1, <2>2 DEF ConsumerIInv, ClientConsistent
<1>5. InHand = {} /\ InHand' = {}
  BY <1>1, <1>3 DEF InHand
<1>6. NothingDropped' /\ NothingSkipped'
  <2>1. \A r \in 1..position : r \in handled \cup excused
    BY <1>1, <1>5 DEF ConsumerIInv, NothingDropped
  <2> QED
    BY <1>1, <2>1 DEF ConsumerIInv, ClientConsistent, NothingDropped, NothingSkipped
<1> QED
  BY <1>2, <1>4, <1>6 DEF ConsumerIInv

\* A rebalance may commit what is in hand, which is then excused.
LEMMA RebalanceInv ==
    ASSUME ConsumerIInv, Rebalance
    PROVE  ConsumerIInv'
<1> DEFINE early == {r \in InHand : committed' # NoOffset /\ r <= committed'}
<1>1. /\ phase # "down" /\ committed' \in {committed, uncommitted}
      /\ uncommitted' = NoOffset /\ position' = StartAt(committed')
      /\ excused' = excused \cup Passed(committed') \cup early
      /\ UNCHANGED <<log, phase, next, last, handled>>
  BY DEF Rebalance, Skip
<1>2. /\ position \in Nat /\ next \in Nat /\ last \in Nat /\ Len(log) \in Nat
      /\ position <= Len(log) /\ last <= Len(log)
      /\ committed' # NoOffset => committed' \in Nat /\ committed' <= position
      /\ committed' \in Offsets \cup {NoOffset}
  BY <1>1, OffsetsAreNumbers DEF ConsumerIInv, ClientConsistent, ConsumerTypeOK
<1>3. committed' # NoOffset => committed' <= Len(log)
  BY <1>2
<1>4. /\ position' \in Offsets /\ position' \in Nat /\ position' <= Len(log)
      /\ Passed(committed') \subseteq 1..MaxLog
      /\ committed' = NoOffset => Passed(committed') = 1..position'
      /\ committed' # NoOffset => position' = committed'
  BY <1>1, <1>2, <1>3, StartInv DEF ConsumerIInv
<1>5. early \subseteq 1..MaxLog
  <2>1. 1..last \subseteq 1..MaxLog
    BY <1>2, OffsetInLog DEF ConsumerIInv
  <2>2. InHand \subseteq 1..last
    BY <1>2 DEF InHand
  <2> QED
    BY <2>1, <2>2
<1>6. ConsumerTypeOK'
  BY <1>1, <1>2, <1>4, <1>5 DEF ConsumerIInv, ConsumerTypeOK
<1>7. ClientConsistent'
  <2>1. committed' # NoOffset => committed' <= position'
    BY <1>2, <1>4
  <2> QED
    BY <1>1, <1>3, <1>4, <2>1 DEF ConsumerIInv, ClientConsistent
<1>8. ASSUME committed' # NoOffset, NEW r \in 1..committed' PROVE r \in handled' \cup excused'
  <2>1. r \in 1..position /\ r <= committed'
    BY <1>2, <1>8
  <2>2. r \in handled \/ r \in excused \/ r \in InHand
    BY <1>1, <2>1 DEF ConsumerIInv, NothingDropped
  <2> QED
    BY <1>1, <1>8, <2>1, <2>2
<1>9. NothingSkipped'
  BY <1>8 DEF NothingSkipped
<1>10. NothingDropped'
  <2>1. CASE committed' = NoOffset
    BY <1>1, <1>4, <2>1 DEF NothingDropped
  <2>2. CASE committed' # NoOffset
    BY <1>4, <1>8, <2>2 DEF NothingDropped
  <2> QED
    BY <2>1, <2>2
<1> QED
  BY <1>6, <1>7, <1>9, <1>10 DEF ConsumerIInv

\* The process ends.  At a shutdown it may commit what it polled, which it has also
\* processed, because it is between two polls.
LEMMA ForgetInv ==
    ASSUME ConsumerIInv, Shutdown \/ Crash
    PROVE  ConsumerIInv'
<1>1. /\ phase # "down" /\ phase' = "down" /\ position' = 0 /\ uncommitted' = NoOffset /\ next' = 0 /\ last' = 0
      /\ UNCHANGED <<log, handled, excused>>
      /\ \/ committed' = committed
         \/ phase = "poll" /\ uncommitted # NoOffset /\ committed' = uncommitted
  BY DEF Shutdown, Crash, Forget
<1>2. /\ position \in Nat /\ next \in Nat /\ last \in Nat /\ Len(log) \in Nat /\ position <= Len(log)
      /\ uncommitted # NoOffset => uncommitted = position
      /\ phase = "poll" => next = last
  BY OffsetsAreNumbers DEF ConsumerIInv, ClientConsistent
<1>3. 0 \in Offsets /\ 0 <= Len(log)
  BY <1>2, ConsumerAssumption DEF Offsets
<1>4. ConsumerTypeOK'
  BY <1>1, <1>3 DEF ConsumerIInv, ConsumerTypeOK
<1>5. ClientConsistent'
  <2>1. committed' # NoOffset => committed' <= Len(log)
    BY <1>1, <1>2 DEF ConsumerIInv, ClientConsistent
  <2> QED
    BY <1>1, <1>3, <2>1 DEF ClientConsistent
<1>6. NothingDropped' /\ NothingSkipped'
  <2>1. phase = "poll" => InHand = {}
    BY <1>2 DEF InHand
  <2> QED
    BY <1>1, <1>2, <2>1 DEF ConsumerIInv, NothingDropped, NothingSkipped
<1> QED
  BY <1>4, <1>5, <1>6 DEF ConsumerIInv

\* Every step of the consumer keeps the invariant.
LEMMA ConsumerStepInv == ConsumerIInv /\ Consumer => ConsumerIInv'
BY JoinInv, PollInv, ProcessRecordInv, CommitOffsetsInv, RebalanceInv, ForgetInv DEF Consumer

\* A step that leaves the consumer alone keeps it.
LEMMA ConsumerRests == ConsumerIInv /\ UNCHANGED consumerVars => ConsumerIInv'
<1> SUFFICES ASSUME ConsumerIInv, UNCHANGED consumerVars PROVE ConsumerIInv'
  OBVIOUS
<1> USE DEF consumerVars, client, ConsumerIInv
<1>1. ConsumerTypeOK' /\ ClientConsistent'
  BY DEF ConsumerTypeOK, ClientConsistent
<1>2. NothingDropped' /\ NothingSkipped'
  BY DEF NothingDropped, NothingSkipped, InHand
<1> QED
  BY <1>1, <1>2

-----------------------------------------------------------------------------
\* The trail.

\* The pipeline does not notice the rest of the trail.
LEMMA PipelineStep == [TrailNext]_trailVars => [Next]_vars
BY DEF TrailNext, trailVars, OutboxSends, OutboxCloses

\* No row of the outbox goes away, and at most one comes.
LEMMA SavedGrows ==
    ASSUME IInv, [Next]_vars
    PROVE  \/ saved' = saved
           \/ \E e \in Events : /\ saved[e] = 0 /\ saved'[e] = 1
                                /\ \A x \in Events \ {e} : saved'[x] = saved[x]
<1>1. ASSUME NEW k \in Channels, SaveLog(k), saved' # saved
      PROVE  \E e \in Events : /\ saved[e] = 0 /\ saved'[e] = 1
                               /\ \A x \in Events \ {e} : saved'[x] = saved[x]
  <2>1. /\ batch[k] \in Seq(Events) /\ at[k] \in Nat /\ at[k] < Len(batch[k])
        /\ Unprocessed(k) = Rest(batch[k], at[k])
    BY <1>1, Places DEF IInv, TypeOK, SaveLog, Processing
  <2>2. PICK e \in Events : e = batch[k][at[k] + 1] /\ e \in Unprocessed(k)
    BY <2>1, RestNext
  <2>3. saved' = [saved EXCEPT ![e] = saved[e] + 1]
    BY <1>1, <2>2 DEF SaveLog
  <2>4. ~Settled(e)
    BY <2>2, InMemoryPlaces DEF IInv, OnItsWay
  <2>5. saved \in [Events -> Nat] /\ saved[e] = 0
    BY <2>4 DEF IInv, TypeOK, Settled
  <2> QED
    BY <2>3, <2>5
<1>2. ASSUME ~\E k \in Channels : SaveLog(k) PROVE saved' = saved
  BY <1>2 DEF Next, vars, Happens, HappensUnreported, SendEvent, Enqueue, Worker, Receive, Tick, Stop, BatchDone,
              Interrupt, Exit
<1> QED
  BY <1>1, <1>2

\* The consumer does not write to the log.
LEMMA LogIsKept == Consumer => log' = log
BY DEF Consumer, Join, Poll, PollErrors, ProcessRecord, CommitOffsets, Rebalance, Shutdown, Crash, Forget

\* The invariant holds initially.
LEMMA TrailInitInv == TrailInit => TrailIInv
<1> SUFFICES ASSUME TrailInit PROVE TrailIInv
  OBVIOUS
<1>1. log = <<>> /\ Len(log) = 0
  BY DEF TrailInit, ConsumerInit
<1>2. IInv /\ ConsumerIInv
  BY InitInv, ConsumerInitInv DEF TrailInit
<1> QED
  BY <1>1, <1>2 DEF TrailIInv

\* Every step of the trail keeps the invariant.
LEMMA TrailStepInv == TrailIInv /\ [TrailNext]_trailVars => TrailIInv'
<1> SUFFICES ASSUME TrailIInv, [TrailNext]_trailVars PROVE TrailIInv'
  OBVIOUS
<1>1. IInv'
  BY PipelineStep, StepInv DEF TrailIInv
<1>2. \A e \in Events : saved[e] > 0 => saved'[e] > 0
  <2>1. CASE saved' = saved
    BY <2>1
  <2>2. ASSUME NEW e \in Events, saved[e] = 0, saved'[e] = 1, \A x \in Events \ {e} : saved'[x] = saved[x]
        PROVE  \A x \in Events : saved[x] > 0 => saved'[x] > 0
    BY <2>2
  <2> QED
    BY <2>1, <2>2, PipelineStep, SavedGrows DEF TrailIInv
<1>3. ASSUME ConsumerIInv', log' = log PROVE TrailIInv'
  <2>1. \A r \in 1..Len(log) : log[r] \in Events /\ saved[log[r]] > 0
    BY DEF TrailIInv
  <2>2. \A r \in 1..Len(log') : saved'[log'[r]] > 0
    BY <1>2, <1>3, <2>1
  <2> QED
    BY <1>1, <1>3, <2>2 DEF TrailIInv
<1>4. CASE Next /\ UNCHANGED <<consumerVars, closed>>
  BY <1>3, <1>4, ConsumerRests DEF TrailIInv, consumerVars
<1>5. CASE Consumer
  BY <1>3, <1>5, ConsumerStepInv, LogIsKept DEF TrailIInv
<1>6. ASSUME NEW e \in Events, OutboxSends(e) PROVE TrailIInv'
  <2>1. log \in Seq(Events) /\ log' = Append(log, e) /\ saved' = saved
    BY <1>6 DEF TrailIInv, OutboxSends, Publish, vars
  <2>2. ConsumerIInv'
    BY <1>6, <2>1, PublishInv DEF TrailIInv, OutboxSends
  <2>3. saved[e] > 0
    BY <1>6 DEF OutboxSends, Promise!Send
  <2>4. /\ log' \in Seq(Events) /\ Len(log') = Len(log) + 1 /\ Len(log) \in Nat
        /\ log'[Len(log) + 1] = e /\ \A r \in 1..Len(log) : log'[r] = log[r]
    BY <2>1
  <2>5. \A r \in 1..Len(log') : r = Len(log) + 1 \/ r \in 1..Len(log)
    BY <2>4
  <2>6. \A r \in 1..Len(log') : saved'[log'[r]] > 0
    BY <2>1, <2>3, <2>4, <2>5 DEF TrailIInv
  <2> QED
    BY <1>1, <2>2, <2>4, <2>6 DEF TrailIInv
<1>7. ASSUME NEW e \in Events, OutboxCloses(e) PROVE TrailIInv'
  BY <1>3, <1>7, ConsumerRests DEF TrailIInv, OutboxCloses, consumerVars
<1>8. CASE UNCHANGED trailVars
  BY <1>3, <1>8, ConsumerRests DEF TrailIInv, trailVars, consumerVars
<1> QED
  BY <1>4, <1>5, <1>6, <1>7, <1>8 DEF TrailNext

-----------------------------------------------------------------------------

\* The inductive invariant of the trail.
THEOREM TrailInvariant == TrailSpec => []TrailIInv
BY TrailInitInv, TrailStepInv, PTL DEF TrailSpec

\* The committed offset passes no record that was not logged and is not excused.
THEOREM NoRecordIsSkipped == TrailSpec => []NothingSkipped
<1>1. TrailIInv => NothingSkipped
  BY DEF TrailIInv, ConsumerIInv
<1> QED
  BY <1>1, TrailInvariant, PTL

\* A record whose offset is committed is not delivered again: the client is never
\* behind the committed offset when it polls.
THEOREM NoRecordIsRedelivered == TrailSpec => NoRedelivery
<1> DEFINE Onward == committed # NoOffset /\ last' > last => next' >= committed
<1>1. TrailIInv /\ [TrailNext]_trailVars => [Onward]_consumerVars
  <2> SUFFICES ASSUME TrailIInv, [TrailNext]_trailVars, committed # NoOffset, last' > last
               PROVE  next' >= committed
    OBVIOUS
  <2>1. last \in Nat /\ position \in Nat /\ committed \in Nat
    BY OffsetsAreNumbers DEF TrailIInv, ConsumerIInv
  <2>2. last' # last /\ ~(last' = 0)
    BY <2>1
  <2>3. PICK n \in (position + 1)..Len(log) : Poll(n)
    BY <2>2 DEF TrailNext, trailVars, OutboxSends, OutboxCloses, Publish, consumerVars, client, Consumer, Join,
                PollErrors, ProcessRecord, CommitOffsets, Rebalance, Shutdown, Crash, Forget
  <2>4. next' = position /\ phase = "poll"
    BY <2>3 DEF Poll
  <2>5. committed <= position
    BY <2>4 DEF TrailIInv, ConsumerIInv, ClientConsistent
  <2> QED
    BY <2>1, <2>4, <2>5
<1> QED
  BY <1>1, TrailInvariant, PTL DEF TrailSpec, NoRedelivery

\* The pipeline in the trail is the pipeline: its theorems hold of the trail.
THEOREM TrailRunsPipeline == TrailSpec => Spec
<1>1. TrailInit => Init
  BY DEF TrailInit
<1> QED
  BY <1>1, PipelineStep, PTL DEF TrailSpec, Spec

\* Nothing is invented: what the consumer reads in the topic has happened.
THEOREM RecordsAreOfEvents == TrailSpec => [](\A r \in 1..Len(log) : log[r] \in due)
<1>1. TrailIInv => \A r \in 1..Len(log) : log[r] \in due
  BY DEF TrailIInv, IInv, OnItsWay, Settled
<1> QED
  BY <1>1, TrailInvariant, PTL

\* A record the consumer has not settled is still ahead of it.
LEMMA UnsettledIsAhead ==
    ASSUME ConsumerIInv, NEW r \in 1..Len(log), r \notin handled \cup excused
    PROVE  Ahead(r)
<1>1. /\ r \in Nat /\ r >= 1 /\ position \in Nat
      /\ committed # NoOffset => committed \in Nat
  BY OffsetsAreNumbers DEF ConsumerIInv
<1>2. committed # NoOffset => r > committed
  BY <1>1 DEF ConsumerIInv, NothingSkipped
<1>3. phase # "down" => r > position \/ r \in InHand
  BY <1>1 DEF ConsumerIInv, NothingDropped
<1> QED
  BY <1>2, <1>3 DEF Ahead

\* Nothing vanishes between the parts: whatever dies or fails, an event that is due is
\* recorded, or one of the pipeline, the outbox and the consumer still has to pass it on.
THEOREM NothingEverVanishes == TrailSpec => []NothingVanishes
<1>1. TrailIInv => NothingVanishes
  <2> SUFFICES ASSUME TrailIInv, NEW e \in due,
                      ~ Recorded(e), ~ GivenUp(e), e \notin InMemory, ~ (saved[e] > 0 /\ e \notin closed)
               PROVE  \E r \in RecordsOf(e) : Ahead(r)
    BY DEF NothingVanishes
  <2>1. e \in Events /\ saved[e] \in Nat
    BY DEF TrailIInv, IInv, TypeOK
  <2>2. Settled(e)
    BY DEF TrailIInv, IInv, OnItsWay
  <2>3. saved[e] > 0
    BY <2>1, <2>2 DEF Settled, GivenUp
  <2>4. RecordsOf(e) # {} /\ RecordsOf(e) \cap (handled \cup excused) = {}
    BY <2>3 DEF Recorded, GivenUp
  <2>5. PICK r \in RecordsOf(e) : r \notin handled \cup excused
    BY <2>4
  <2>6. Ahead(r)
    BY <2>5, UnsettledIsAhead DEF TrailIInv, RecordsOf
  <2> QED
    BY <2>6
<1> QED
  BY <1>1, TrailInvariant, PTL

=============================================================================
