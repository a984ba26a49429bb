------------------------ MODULE AuditPipelineProofs ------------------------
(***************************************************************************)
(* Theorems about AuditPipeline, for any events, channels of any size and   *)
(* batches of any limit.                                                    *)
(***************************************************************************)
EXTENDS AuditPipeline, FiniteSetTheorems, TLAPS

-----------------------------------------------------------------------------
\* Sequences.

\* What is behind the first n elements of a sequence: Unprocessed and Elements.
Rest(s, n) == {s[i] : i \in (n + 1)..Len(s)}

\* An element is appended.
LEMMA RestAppend ==
    ASSUME NEW S, NEW s \in Seq(S), NEW e \in S, NEW n \in Nat, n <= Len(s)
    PROVE  /\ Append(s, e) \in Seq(S) /\ Len(Append(s, e)) = Len(s) + 1
           /\ Rest(Append(s, e), n) = Rest(s, n) \cup {e}
           /\ Distinct(s, n) /\ e \notin Rest(s, n) => Distinct(Append(s, e), n)
<1>1. /\ Append(s, e) \in Seq(S) /\ Len(Append(s, e)) = Len(s) + 1
      /\ \A i \in 1..Len(s) : Append(s, e)[i] = s[i]
      /\ Append(s, e)[Len(s) + 1] = e
  OBVIOUS
<1>2. Rest(Append(s, e), n) = Rest(s, n) \cup {e}
  <2>1. ASSUME NEW x \in Rest(Append(s, e), n) PROVE x \in Rest(s, n) \cup {e}
    <3>1. PICK i \in (n + 1)..(Len(s) + 1) : x = Append(s, e)[i]
      BY <1>1, <2>1 DEF Rest
    <3>2. CASE i = Len(s) + 1
      BY <1>1, <3>1, <3>2
    <3>3. CASE i # Len(s) + 1
      <4>1. i \in (n + 1)..Len(s) /\ i \in 1..Len(s)
        BY <3>3
      <4> QED
        BY <1>1, <3>1, <4>1 DEF Rest
    <3> QED
      BY <3>2, <3>3
  <2>2. ASSUME NEW i \in (n + 1)..Len(s) PROVE s[i] \in Rest(Append(s, e), n)
    <3>1. i \in (n + 1)..(Len(s) + 1) /\ i \in 1..Len(s)
      OBVIOUS
    <3> QED
      BY <1>1, <3>1 DEF Rest
  <2>3. e \in Rest(Append(s, e), n)
    <3>1. Len(s) + 1 \in (n + 1)..(Len(s) + 1)
      OBVIOUS
    <3> QED
      BY <1>1, <3>1 DEF Rest
  <2>4. \A x \in Rest(s, n) : x \in Rest(Append(s, e), n)
    BY <2>2 DEF Rest
  <2> QED
    BY <2>1, <2>3, <2>4
<1>3. ASSUME Distinct(s, n), e \notin Rest(s, n), NEW i \in (n + 1)..(Len(s) + 1),
             NEW j \in (n + 1)..(Len(s) + 1), Append(s, e)[i] = Append(s, e)[j]
      PROVE  i = j
  <2>1. \A k \in (n + 1)..(Len(s) + 1) :
            \/ k = Len(s) + 1 /\ Append(s, e)[k] = e
            \/ k \in (n + 1)..Len(s) /\ Append(s, e)[k] = s[k] /\ s[k] # e
    BY <1>1, <1>3 DEF Rest
  <2> QED
    BY <1>3, <2>1 DEF Distinct
<1>4. Distinct(s, n) /\ e \notin Rest(s, n) => Distinct(Append(s, e), n)
  BY <1>1, <1>3 DEF Distinct
<1> QED
  BY <1>1, <1>2, <1>4

\* The next element is passed.
LEMMA RestNext ==
    ASSUME NEW S, NEW s \in Seq(S), NEW n \in Nat, n < Len(s)
    PROVE  /\ s[n + 1] \in S
           /\ Rest(s, n) = Rest(s, n + 1) \cup {s[n + 1]}
           /\ Distinct(s, n) => Distinct(s, n + 1) /\ s[n + 1] \notin Rest(s, n + 1)
<1>1. \A i : i \in (n + 1)..Len(s) <=> i = n + 1 \/ i \in (n + 1 + 1)..Len(s)
  OBVIOUS
<1>2. Rest(s, n) = Rest(s, n + 1) \cup {s[n + 1]}
  BY <1>1 DEF Rest
<1>3. Distinct(s, n) => Distinct(s, n + 1) /\ s[n + 1] \notin Rest(s, n + 1)
  BY <1>1 DEF Distinct, Rest
<1> QED
  BY <1>2, <1>3

\* The first element is taken.
LEMMA RestTail ==
    ASSUME NEW S, NEW s \in Seq(S), s # <<>>
    PROVE  /\ Tail(s) \in Seq(S) /\ Len(Tail(s)) = Len(s) - 1 /\ Head(s) \in S
           /\ Rest(s, 0) = Rest(Tail(s), 0) \cup {Head(s)}
           /\ Distinct(s, 0) => Distinct(Tail(s), 0) /\ Head(s) \notin Rest(Tail(s), 0)
<1>1. /\ Tail(s) \in Seq(S) /\ Len(s) \in Nat \ {0} /\ Len(Tail(s)) = Len(s) - 1
      /\ Head(s) \in S /\ Head(s) = s[1]
      /\ \A i \in 1..(Len(s) - 1) : Tail(s)[i] = s[i + 1]
  OBVIOUS
<1>2. \A i : i \in 1..Len(s) <=> i = 1 \/ \E j \in 1..(Len(s) - 1) : i = j + 1
  <2>1. ASSUME NEW i \in 1..Len(s), i # 1 PROVE \E j \in 1..(Len(s) - 1) : i = j + 1
    <3>1. i - 1 \in 1..(Len(s) - 1) /\ i = (i - 1) + 1
      BY <1>1, <2>1
    <3> QED
      BY <3>1
  <2>2. 1 \in 1..Len(s) /\ \A j \in 1..(Len(s) - 1) : j + 1 \in 1..Len(s)
    BY <1>1
  <2> QED
    BY <2>1, <2>2
<1>3. Rest(s, 0) = {s[i] : i \in 1..Len(s)} /\ Rest(Tail(s), 0) = {Tail(s)[i] : i \in 1..(Len(s) - 1)}
  BY <1>1 DEF Rest
<1>4. Rest(s, 0) = Rest(Tail(s), 0) \cup {Head(s)}
  BY <1>1, <1>2, <1>3
<1>5. ASSUME Distinct(s, 0)
      PROVE  Distinct(Tail(s), 0) /\ Head(s) \notin Rest(Tail(s), 0)
  <2>1. \A i, j \in 1..Len(s) : s[i] = s[j] => i = j
    BY <1>5 DEF Distinct
  <2>2. \A i \in 1..(Len(s) - 1) : i + 1 \in 1..Len(s) /\ i + 1 # 1 /\ 1 \in 1..Len(s)
    BY <1>1
  <2>3. Head(s) \notin Rest(Tail(s), 0)
    BY <1>1, <1>3, <2>1, <2>2
  <2>4. \A i, j \in 1..(Len(s) - 1) : Tail(s)[i] = Tail(s)[j] => i = j
    BY <1>1, <2>1, <2>2
  <2> QED
    BY <1>1, <2>3, <2>4 DEF Distinct
<1> QED
  BY <1>1, <1>4, <1>5

\* Nothing is in an empty sequence.
LEMMA RestEmpty == Rest(<<>>, 0) = {} /\ Distinct(<<>>, 0) /\ Len(<<>>) = 0
BY DEF Rest, Distinct

\* Nothing is behind the last element.
LEMMA RestEnd ==
    ASSUME NEW S, NEW s \in Seq(S)
    PROVE  Rest(s, Len(s)) = {}
BY DEF Rest

-----------------------------------------------------------------------------
\* The places of an event.

\* The channel of an event is one of the two, and the places are sets of events.
LEMMA Places ==
    ASSUME TypeOK
    PROVE  /\ \A e \in Events : ChannelOf(e) \in Channels
           /\ \A c \in Channels : /\ Elements(chan[c]) = Rest(chan[c], 0)
                                  /\ Unprocessed(c) = Rest(batch[c], at[c])
                                  /\ Elements(chan[c]) \subseteq Events
                                  /\ Unprocessed(c) \subseteq Events
<1>1. \A c \in Channels : Elements(chan[c]) = Rest(chan[c], 0) /\ Unprocessed(c) = Rest(batch[c], at[c])
  BY DEF Elements, Unprocessed, Rest
<1>2. ASSUME NEW s \in Seq(Events), NEW n \in Nat PROVE Rest(s, n) \subseteq Events
  BY DEF Rest
<1> QED
  BY <1>1, <1>2 DEF TypeOK, ChannelOf, Channels

\* An event in memory is at one of the places.
LEMMA InMemoryPlaces ==
    \A e : e \in InMemory <=> \/ e \in unsent \/ e \in sending
                              \/ \E c \in Channels : e \in Elements(chan[c]) \/ e \in Unprocessed(c)
BY DEF InMemory

\* The same after a step.
LEMMA InMemoryPlacesNext ==
    \A e : e \in InMemory' <=> \/ e \in unsent' \/ e \in sending'
                               \/ \E c \in Channels : e \in Elements(chan'[c]) \/ e \in Unprocessed(c)'
BY DEF InMemory

\* The invariant holds initially.
LEMMA InitInv == Init => IInv
<1> SUFFICES ASSUME Init PROVE IInv
  OBVIOUS
<1>1. TypeOK /\ SavedOnce
  BY LimitsAssumption DEF Init, TypeOK, SavedOnce, WorkerPCs
<1>2. \A c \in Channels : chan[c] = <<>> /\ batch[c] = <<>> /\ at[c] = 0
  BY DEF Init
<1>3. \A c \in Channels : Elements(chan[c]) = {} /\ Unprocessed(c) = {}
  BY <1>1, <1>2, Places, RestEmpty
<1>4. \A c \in Channels : WorkerConsistent(c)
  BY <1>2, <1>3, RestEmpty, LimitsAssumption DEF WorkerConsistent
<1>5. InMemory = {}
  BY <1>3, InMemoryPlaces DEF Init
<1>6. Apart /\ OnItsWay
  BY <1>3, <1>5 DEF Init, Apart, OnItsWay, Settled
<1> QED
  BY <1>1, <1>4, <1>6 DEF IInv

\* Channels and batches are as before, and no worker comes back to its select.
LEMMA KeptPlaces ==
    ASSUME UNCHANGED <<chan, batch, at>>, NEW c \in Channels, WorkerConsistent(c),
           pc'[c] = "select" => pc[c] = "select"
    PROVE  Unprocessed(c)' = Unprocessed(c) /\ WorkerConsistent(c)'
<1>1. Unprocessed(c)' = Unprocessed(c)
  BY DEF Unprocessed
<1> QED
  BY <1>1 DEF WorkerConsistent

\* What is reported has just happened, and is nowhere yet.
LEMMA HappensInv ==
    ASSUME IInv, NEW es \in SUBSET Events, Happens(es)
    PROVE  IInv'
<1>1. TypeOK' /\ SavedOnce'
  BY DEF Happens, IInv, TypeOK, SavedOnce
<1>2. \A c \in Channels : Unprocessed(c)' = Unprocessed(c) /\ WorkerConsistent(c)'
  BY KeptPlaces DEF Happens, IInv
<1>3. es \cap InMemory = {} /\ \A e \in es : ~Settled(e)
  BY DEF Happens, IInv, OnItsWay
<1>4. \A e : Settled(e)' <=> Settled(e)
  BY DEF Happens, Settled
<1>5. InMemory' = InMemory \cup es
  BY <1>2, InMemoryPlaces, InMemoryPlacesNext DEF Happens
<1>6. Apart'
  BY <1>2, <1>3, InMemoryPlaces DEF Happens, IInv, Apart
<1>7. OnItsWay'
  BY <1>3, <1>4, <1>5 DEF Happens, IInv, OnItsWay
<1> QED
  BY <1>1, <1>2, <1>6, <1>7 DEF IInv

\* What its handler takes for failed is settled at once, and is nowhere.
LEMMA HappensUnreportedInv ==
    ASSUME IInv, NEW es \in SUBSET Events, HappensUnreported(es)
    PROVE  IInv'
<1>1. TypeOK' /\ SavedOnce'
  BY DEF HappensUnreported, IInv, TypeOK, SavedOnce, Events
<1>2. \A c \in Channels : Unprocessed(c)' = Unprocessed(c) /\ WorkerConsistent(c)'
  BY KeptPlaces DEF HappensUnreported, IInv
<1>3. es \cap InMemory = {} /\ es \cap due = {}
  BY DEF HappensUnreported, IInv, OnItsWay
<1>4. \A e : Settled(e)' <=> Settled(e) \/ e \in es
  BY DEF HappensUnreported, Settled
<1>5. InMemory' = InMemory
  BY <1>2, InMemoryPlaces, InMemoryPlacesNext DEF HappensUnreported
<1>6. Apart'
  BY <1>2 DEF HappensUnreported, IInv, Apart
<1>7. OnItsWay'
  BY <1>3, <1>4, <1>5 DEF HappensUnreported, IInv, OnItsWay
<1> QED
  BY <1>1, <1>2, <1>6, <1>7 DEF IInv

\* A goroutine takes the event over.
LEMMA SendEventInv ==
    ASSUME IInv, NEW e \in Events, SendEvent(e)
    PROVE  IInv'
<1>1. TypeOK' /\ SavedOnce'
  BY DEF SendEvent, IInv, TypeOK, SavedOnce
<1>2. \A c \in Channels : Unprocessed(c)' = Unprocessed(c) /\ WorkerConsistent(c)'
  BY KeptPlaces DEF SendEvent, IInv
<1>3. \A x : Settled(x)' <=> Settled(x)
  BY DEF SendEvent, Settled
<1>4. InMemory' = InMemory
  BY <1>2, InMemoryPlaces, InMemoryPlacesNext DEF SendEvent
<1>5. Apart'
  BY <1>2 DEF SendEvent, IInv, Apart
<1>6. OnItsWay'
  BY <1>3, <1>4 DEF SendEvent, IInv, OnItsWay
<1> QED
  BY <1>1, <1>2, <1>5, <1>6 DEF IInv

\* The event goes into the channel of its kind, where it was not yet.
LEMMA EnqueueInv ==
    ASSUME IInv, NEW e \in Events, Enqueue(e)
    PROVE  IInv'
<1> DEFINE k == ChannelOf(e)
<1>1. k \in Channels /\ chan[k] \in Seq(Events) /\ Elements(chan[k]) = Rest(chan[k], 0)
  BY Places DEF IInv, TypeOK
<1>2. /\ e \in sending /\ sending' = sending \ {e}
      /\ Len(chan[k]) < Capacity /\ chan' = [chan EXCEPT ![k] = Append(chan[k], e)]
      /\ UNCHANGED <<ctx, unsent, pc, batch, at, saved, logged, due, lost, unreported>>
  BY DEF Enqueue
<1> HIDE DEF k
<1>3. e \notin Elements(chan[k]) /\ e \notin Unprocessed(k) /\ e \notin unsent
  BY <1>1, <1>2 DEF IInv, Apart
<1>4. /\ Append(chan[k], e) \in Seq(Events) /\ Len(Append(chan[k], e)) = Len(chan[k]) + 1
      /\ Rest(Append(chan[k], e), 0) = Rest(chan[k], 0) \cup {e}
      /\ Distinct(chan[k], 0) => Distinct(Append(chan[k], e), 0)
  BY <1>1, <1>3, RestAppend
<1>5. /\ chan' \in [Channels -> Seq(Events)]
      /\ chan'[k] = Append(chan[k], e) /\ \A c \in Channels \ {k} : chan'[c] = chan[c]
  BY <1>1, <1>2, <1>4 DEF IInv, TypeOK
<1>6. \A c \in Channels : Len(chan'[c]) <= Capacity
  BY <1>1, <1>2, <1>4, <1>5, LimitsAssumption DEF IInv, TypeOK
<1>7. TypeOK' /\ SavedOnce'
  BY <1>2, <1>5, <1>6 DEF IInv, TypeOK, SavedOnce
<1>8. /\ \A c \in Channels : Unprocessed(c)' = Unprocessed(c)
      /\ Elements(chan'[k]) = Elements(chan[k]) \cup {e}
      /\ \A c \in Channels \ {k} : Elements(chan'[c]) = Elements(chan[c])
  BY <1>1, <1>2, <1>4, <1>5 DEF Elements, Rest, Unprocessed
<1>9. ASSUME NEW c \in Channels PROVE WorkerConsistent(c)'
  <2>1. CASE c = k
    BY <1>1, <1>2, <1>3, <1>4, <1>5, <1>8, <2>1 DEF IInv, WorkerConsistent, k
  <2>2. CASE c # k
    BY <1>2, <1>5, <1>8, <2>2 DEF IInv, WorkerConsistent
  <2> QED
    BY <2>1, <2>2
<1>10. \A x : Settled(x)' <=> Settled(x)
  BY <1>2 DEF Settled
<1>11. InMemory' = InMemory
  <2>1. ASSUME NEW x PROVE x \in InMemory' <=> x \in InMemory
    BY <1>1, <1>2, <1>8, InMemoryPlaces, InMemoryPlacesNext
  <2> QED
    BY <2>1
<1>12. Apart'
  BY <1>1, <1>2, <1>3, <1>8 DEF IInv, Apart
<1>13. OnItsWay'
  BY <1>2, <1>10, <1>11 DEF IInv, OnItsWay
<1> QED
  BY <1>7, <1>9, <1>12, <1>13 DEF IInv

\* An event goes from the channel into the batch, which has room for it.
LEMMA ReceiveInv ==
    ASSUME IInv, NEW k \in Channels, Receive(k)
    PROVE  IInv'
<1> DEFINE e == Head(chan[k])
<1>1. /\ chan[k] \in Seq(Events) /\ chan[k] # <<>> /\ Elements(chan[k]) = Rest(chan[k], 0)
      /\ batch[k] \in Seq(Events) /\ at[k] \in Nat /\ at[k] <= Len(batch[k])
      /\ Unprocessed(k) = Rest(batch[k], at[k])
      /\ pc[k] = "select" /\ at[k] = 0 /\ Len(batch[k]) < BatchLimit
  BY Places DEF IInv, TypeOK, WorkerConsistent, Receive
<1>2. /\ chan' = [chan EXCEPT ![k] = Tail(chan[k])]
      /\ batch' = [batch EXCEPT ![k] = Append(batch[k], e)]
      /\ pc' = [pc EXCEPT ![k] = IF Len(batch[k]) + 1 >= BatchLimit THEN "batch" ELSE "select"]
      /\ UNCHANGED <<ctx, unsent, sending, at, saved, logged, due, lost, unreported>>
  BY DEF Receive
<1>3. /\ Tail(chan[k]) \in Seq(Events) /\ Len(Tail(chan[k])) = Len(chan[k]) - 1 /\ e \in Events
      /\ Rest(chan[k], 0) = Rest(Tail(chan[k]), 0) \cup {e}
      /\ Distinct(chan[k], 0) => Distinct(Tail(chan[k]), 0) /\ e \notin Rest(Tail(chan[k]), 0)
  BY <1>1, RestTail
<1> HIDE DEF e
<1>4. e \notin Unprocessed(k)
  BY <1>1, <1>3 DEF IInv, WorkerConsistent
<1>5. /\ Append(batch[k], e) \in Seq(Events) /\ Len(Append(batch[k], e)) = Len(batch[k]) + 1
      /\ Rest(Append(batch[k], e), at[k]) = Rest(batch[k], at[k]) \cup {e}
      /\ Distinct(batch[k], at[k]) => Distinct(Append(batch[k], e), at[k])
  BY <1>1, <1>3, <1>4, RestAppend
<1>6. /\ chan' \in [Channels -> Seq(Events)]
      /\ chan'[k] = Tail(chan[k]) /\ \A c \in Channels \ {k} : chan'[c] = chan[c]
      /\ batch' \in [Channels -> Seq(Events)]
      /\ batch'[k] = Append(batch[k], e) /\ \A c \in Channels \ {k} : batch'[c] = batch[c]
      /\ pc' \in [Channels -> WorkerPCs]
      /\ pc'[k] = "select" => ~(Len(batch[k]) + 1 >= BatchLimit)
      /\ \A c \in Channels \ {k} : pc'[c] = pc[c]
  BY <1>2, <1>3, <1>5 DEF IInv, TypeOK, WorkerPCs
<1>7. /\ Len(chan[k]) \in Nat /\ Len(chan[k]) <= Capacity /\ Len(batch[k]) \in Nat
      /\ Capacity \in Nat /\ BatchLimit \in Nat
  BY <1>1, LimitsAssumption DEF IInv, TypeOK
<1>8. /\ Len(chan'[k]) <= Capacity /\ Len(batch'[k]) <= BatchLimit /\ at[k] <= Len(batch'[k])
      /\ pc'[k] = "select" => Len(batch'[k]) < BatchLimit
  BY <1>1, <1>3, <1>5, <1>6, <1>7
<1>9. TypeOK' /\ SavedOnce'
  BY <1>2, <1>6, <1>8 DEF IInv, TypeOK, SavedOnce
<1>10. /\ Elements(chan[k]) = Elements(chan'[k]) \cup {e}
       /\ Unprocessed(k)' = Unprocessed(k) \cup {e}
       /\ \A c \in Channels \ {k} : /\ Elements(chan'[c]) = Elements(chan[c])
                                    /\ Unprocessed(c)' = Unprocessed(c)
  <2>1. /\ Elements(chan'[k]) = Rest(Tail(chan[k]), 0)
        /\ Unprocessed(k)' = Rest(Append(batch[k], e), at[k])
    <3>1. Elements(chan'[k]) = Rest(chan'[k], 0) /\ Unprocessed(k)' = Rest(batch'[k], at'[k])
      BY DEF Elements, Rest, Unprocessed
    <3> QED
      BY <1>2, <1>6, <3>1
  <2>2. \A c \in Channels \ {k} : /\ Elements(chan'[c]) = Elements(chan[c])
                                  /\ Unprocessed(c)' = Unprocessed(c)
    BY <1>2, <1>6 DEF Unprocessed
  <2> QED
    BY <1>1, <1>3, <1>5, <2>1, <2>2
<1>11. e \notin Elements(chan'[k])
  <2>1. Elements(chan'[k]) = Rest(Tail(chan[k]), 0)
    BY <1>6 DEF Elements, Rest
  <2> QED
    BY <1>3, <2>1 DEF IInv, WorkerConsistent
<1>12. ASSUME NEW c \in Channels PROVE WorkerConsistent(c)'
  <2>1. CASE c = k
    BY <1>1, <1>2, <1>3, <1>5, <1>6, <1>8, <1>10, <1>11, <2>1 DEF IInv, WorkerConsistent
  <2>2. CASE c # k
    BY <1>2, <1>6, <1>10, <2>2 DEF IInv, WorkerConsistent
  <2> QED
    BY <2>1, <2>2
<1>13. \A x : Settled(x)' <=> Settled(x)
  BY <1>2 DEF Settled
<1>14. InMemory' = InMemory
  <2>1. ASSUME NEW x PROVE x \in InMemory' <=> x \in InMemory
    BY <1>2, <1>10, InMemoryPlaces, InMemoryPlacesNext
  <2> QED
    BY <2>1
<1>15. Apart'
  BY <1>2, <1>10 DEF IInv, Apart
<1>16. OnItsWay'
  BY <1>2, <1>13, <1>14 DEF IInv, OnItsWay
<1> QED
  BY <1>9, <1>12, <1>15, <1>16 DEF IInv

\* A worker leaves its select, or the context is cancelled: no event moves.
LEMMA QuietInv ==
    ASSUME IInv, UNCHANGED <<unsent, sending, chan, batch, at, saved, logged, due, lost, unreported>>,
           ctx' \in {"running", "cancelled"}, pc' \in [Channels -> WorkerPCs],
           \A c \in Channels : pc'[c] = "select" => pc[c] = "select"
    PROVE  IInv'
<1>1. TypeOK' /\ SavedOnce'
  BY DEF IInv, TypeOK, SavedOnce
<1>2. \A c \in Channels : Unprocessed(c)' = Unprocessed(c) /\ WorkerConsistent(c)'
  BY KeptPlaces DEF IInv
<1>3. \A x : Settled(x)' <=> Settled(x)
  BY DEF Settled
<1>4. InMemory' = InMemory
  BY DEF InMemory, Unprocessed
<1>5. Apart'
  BY <1>2 DEF IInv, Apart
<1>6. OnItsWay'
  BY <1>3, <1>4 DEF IInv, OnItsWay
<1> QED
  BY <1>1, <1>2, <1>5, <1>6 DEF IInv

\* One event is processed: it is saved or its loss is logged, for the first time.
LEMMA SaveLogInv ==
    ASSUME IInv, NEW k \in Channels, SaveLog(k)
    PROVE  IInv'
<1>1. /\ batch[k] \in Seq(Events) /\ at[k] \in Nat /\ at[k] < Len(batch[k])
      /\ Unprocessed(k) = Rest(batch[k], at[k]) /\ pc[k] # "select"
  BY Places DEF IInv, TypeOK, SaveLog, Processing
<1>a. PICK e \in Events : e = batch[k][at[k] + 1]
  BY <1>1, RestNext
<1>2. /\ at' = [at EXCEPT ![k] = at[k] + 1]
      /\ UNCHANGED <<ctx, unsent, sending, chan, pc, batch, due, lost, unreported>>
      /\ \/ saved' = [saved EXCEPT ![e] = saved[e] + 1] /\ logged' \in {logged, logged \cup {e}}
         \/ saved' = saved /\ logged' = logged \cup {e}
  BY <1>a DEF SaveLog
<1>3. /\ e \in Events /\ Rest(batch[k], at[k]) = Rest(batch[k], at[k] + 1) \cup {e}
      /\ Distinct(batch[k], at[k]) => Distinct(batch[k], at[k] + 1) /\ e \notin Rest(batch[k], at[k] + 1)
  BY <1>a, <1>1, RestNext
<1>4. /\ at' \in [Channels -> Nat] /\ at'[k] = at[k] + 1
      /\ \A c \in Channels \ {k} : at'[c] = at[c]
  BY <1>1, <1>2 DEF IInv, TypeOK
<1>5. \A c \in Channels : at'[c] <= Len(batch[c])
  <2>1. Len(batch[k]) \in Nat /\ \A c \in Channels : at[c] <= Len(batch[c])
    BY <1>1 DEF IInv, TypeOK
  <2>2. at[k] + 1 <= Len(batch[k])
    BY <1>1, <2>1
  <2> QED
    BY <1>4, <2>1, <2>2
<1>6. e \in due /\ ~Settled(e)
  BY <1>1, <1>3, InMemoryPlaces DEF IInv, OnItsWay
<1>7. saved \in [Events -> Nat] /\ saved[e] = 0
  BY <1>3, <1>6 DEF IInv, TypeOK, Settled
<1>8. /\ saved' \in [Events -> Nat] /\ saved'[e] \in {0, 1}
      /\ saved'[e] > 0 \/ e \in logged'
      /\ \A x \in Events \ {e} : saved'[x] = saved[x]
      /\ logged \subseteq logged' /\ logged' \subseteq logged \cup {e}
  BY <1>2, <1>3, <1>7
<1>9. TypeOK' /\ SavedOnce'
  <2>1. TypeOK'
    BY <1>2, <1>3, <1>4, <1>5, <1>8 DEF IInv, TypeOK
  <2>2. \A x \in Events : saved'[x] <= 1
    BY <1>8 DEF IInv, SavedOnce
  <2> QED
    BY <2>1, <2>2 DEF SavedOnce
<1>10. /\ Unprocessed(k) = Unprocessed(k)' \cup {e} /\ e \notin Unprocessed(k)'
       /\ \A c \in Channels \ {k} : Unprocessed(c)' = Unprocessed(c)
  <2>1. Unprocessed(k)' = Rest(batch'[k], at'[k])
    BY DEF Rest, Unprocessed
  <2>2. Unprocessed(k)' = Rest(batch[k], at[k] + 1)
    BY <1>2, <1>4, <2>1
  <2>3. \A c \in Channels \ {k} : Unprocessed(c)' = Unprocessed(c)
    BY <1>2, <1>4 DEF Unprocessed
  <2> QED
    BY <1>1, <1>3, <2>2, <2>3 DEF IInv, WorkerConsistent
<1>11. ASSUME NEW c \in Channels PROVE WorkerConsistent(c)'
  <2>1. CASE c = k
    BY <1>1, <1>2, <1>3, <1>4, <1>10, <2>1 DEF IInv, WorkerConsistent
  <2>2. CASE c # k
    BY <1>2, <1>4, <1>10, <2>2 DEF IInv, WorkerConsistent
  <2> QED
    BY <2>1, <2>2
<1>12. Apart'
  BY <1>2, <1>10 DEF IInv, Apart
<1>13. e \notin InMemory'
  <2>1. e \in Unprocessed(k) /\ e \notin unsent /\ e \notin sending /\ e \notin Elements(chan[k])
    BY <1>10 DEF IInv, Apart, WorkerConsistent
  <2>2. \A c \in Channels \ {k} : e \notin Elements(chan[c]) /\ e \notin Unprocessed(c)
    BY <2>1 DEF IInv, WorkerConsistent
  <2> QED
    BY <1>2, <1>10, <2>1, <2>2, InMemoryPlacesNext
<1>14. InMemory' = InMemory \ {e}
  <2>1. ASSUME NEW x, x # e PROVE x \in InMemory' <=> x \in InMemory
    BY <1>2, <1>10, <2>1, InMemoryPlaces, InMemoryPlacesNext
  <2> QED
    BY <1>13, <2>1
<1>15. Settled(e)' /\ \A x \in Events \ {e} : Settled(x)' <=> Settled(x)
  <2>1. Settled(e)'
    BY <1>8 DEF Settled
  <2>2. ASSUME NEW x \in Events \ {e} PROVE Settled(x)' <=> Settled(x)
    <3>1. saved'[x] = saved[x] /\ (x \in logged' <=> x \in logged)
          /\ lost' = lost /\ unreported' = unreported
      BY <1>2, <1>8
    <3> QED
      BY <3>1 DEF Settled
  <2> QED
    BY <2>1, <2>2
<1>16. OnItsWay'
  <2>1. due \subseteq Events /\ due' = due
    BY <1>2 DEF IInv, TypeOK
  <2>2. InMemory = {x \in due : ~Settled(x)} /\ \A x \in Events : Settled(x) => x \in due
    BY DEF IInv, OnItsWay
  <2>3. InMemory' = {x \in due : ~Settled(x)'}
    <3>1. ASSUME NEW x PROVE x \in InMemory' <=> x \in due /\ ~Settled(x)'
      BY <1>14, <1>15, <2>1, <2>2
    <3> QED
      BY <3>1
  <2>4. \A x \in Events : Settled(x)' => x \in due
    BY <1>6, <1>15, <2>2
  <2> QED
    BY <2>1, <2>3, <2>4 DEF OnItsWay
<1> QED
  BY <1>9, <1>11, <1>12, <1>16 DEF IInv

\* The batch is done and emptied: nothing of it was left.
LEMMA BatchDoneInv ==
    ASSUME IInv, NEW k \in Channels, BatchDone(k)
    PROVE  IInv'
<1>1. batch[k] \in Seq(Events) /\ Unprocessed(k) = Rest(batch[k], at[k]) /\ at[k] = Len(batch[k])
  BY Places DEF IInv, TypeOK, BatchDone
<1>2. Unprocessed(k) = {}
  BY <1>1, RestEnd
<1>3. /\ batch' \in [Channels -> Seq(Events)] /\ at' \in [Channels -> Nat] /\ pc' \in [Channels -> WorkerPCs]
      /\ batch'[k] = <<>> /\ at'[k] = 0
      /\ \A c \in Channels \ {k} : batch'[c] = batch[c] /\ at'[c] = at[c] /\ pc'[c] = pc[c]
      /\ UNCHANGED <<ctx, unsent, sending, chan, saved, logged, due, lost, unreported>>
  BY DEF BatchDone, IInv, TypeOK, WorkerPCs
<1>4. \A c \in Channels : Unprocessed(c)' = Unprocessed(c)
  <2>1. Unprocessed(k)' = Rest(batch'[k], at'[k])
    BY DEF Rest, Unprocessed
  <2>2. Unprocessed(k)' = {}
    BY <1>3, <2>1, RestEmpty
  <2>3. \A c \in Channels \ {k} : Unprocessed(c)' = Unprocessed(c)
    BY <1>3 DEF Unprocessed
  <2> QED
    BY <1>2, <2>2, <2>3
<1>5. \A c \in Channels : Len(batch'[c]) <= BatchLimit /\ at'[c] <= Len(batch'[c])
  <2>1. \A c \in Channels : Len(batch[c]) <= BatchLimit /\ at[c] <= Len(batch[c])
    BY DEF IInv, TypeOK
  <2>2. Len(<<>>) <= BatchLimit /\ 0 <= Len(<<>>)
    BY RestEmpty, LimitsAssumption
  <2> QED
    BY <1>3, <2>1, <2>2
<1>6. TypeOK' /\ SavedOnce'
  BY <1>3, <1>5 DEF IInv, TypeOK, SavedOnce
<1>7. ASSUME NEW c \in Channels PROVE WorkerConsistent(c)'
  <2>1. CASE c = k
    BY <1>3, <1>4, <2>1, RestEmpty, LimitsAssumption DEF IInv, WorkerConsistent
  <2>2. CASE c # k
    BY <1>3, <1>4, <2>2 DEF IInv, WorkerConsistent
  <2> QED
    BY <2>1, <2>2
<1>8. InMemory' = InMemory
  <2>1. ASSUME NEW x PROVE x \in InMemory' <=> x \in InMemory
    BY <1>3, <1>4, InMemoryPlaces, InMemoryPlacesNext
  <2> QED
    BY <2>1
<1>9. \A x : Settled(x)' <=> Settled(x)
  BY <1>3 DEF Settled
<1>10. Apart'
  BY <1>3, <1>4 DEF IInv, Apart
<1>11. OnItsWay'
  BY <1>3, <1>8, <1>9 DEF IInv, OnItsWay
<1> QED
  BY <1>6, <1>7, <1>10, <1>11 DEF IInv

\* A new process: what was in memory is lost, and recorded as lost.
LEMMA ExitInv == IInv /\ Exit => IInv'
<1> SUFFICES ASSUME IInv, Exit PROVE IInv'
  OBVIOUS
<1>1. InMemory \subseteq due /\ due \subseteq Events
  BY DEF IInv, TypeOK, OnItsWay
<1>2. /\ unsent' = {} /\ sending' = {} /\ lost' = lost \cup InMemory
      /\ UNCHANGED <<saved, logged, due, unreported>>
      /\ \A c \in Channels : chan'[c] = <<>> /\ batch'[c] = <<>> /\ at'[c] = 0
  BY DEF Exit
<1>3. TypeOK' /\ SavedOnce'
  BY <1>1, LimitsAssumption DEF Exit, IInv, TypeOK, SavedOnce, WorkerPCs
<1>4. \A c \in Channels : Elements(chan'[c]) = {} /\ Unprocessed(c)' = {}
  <2>1. \A c \in Channels : Elements(chan'[c]) = Rest(chan'[c], 0) /\ Unprocessed(c)' = Rest(batch'[c], at'[c])
    BY DEF Rest, Elements, Unprocessed
  <2> QED
    BY <1>2, <2>1, RestEmpty
<1>5. \A c \in Channels : WorkerConsistent(c)'
  BY <1>2, <1>4, RestEmpty, LimitsAssumption DEF WorkerConsistent
<1>6. InMemory' = {}
  BY <1>2, <1>4, InMemoryPlacesNext
<1>7. \A e \in Events : Settled(e)' <=> Settled(e) \/ e \in InMemory
  BY <1>2 DEF Settled
<1>8. Apart' /\ OnItsWay'
  BY <1>1, <1>2, <1>4, <1>6, <1>7 DEF IInv, Apart, OnItsWay
<1> QED
  BY <1>3, <1>5, <1>8 DEF IInv

\* Every step keeps the invariant.
LEMMA StepInv == IInv /\ [Next]_vars => IInv'
<1> SUFFICES ASSUME IInv, [Next]_vars PROVE IInv'
  OBVIOUS
<1>1. ASSUME NEW c \in Channels, Tick(c) \/ Stop(c) PROVE IInv'
  BY <1>1, QuietInv DEF Tick, Stop, IInv, TypeOK, WorkerPCs
<1>2. CASE Interrupt \/ UNCHANGED vars
  BY <1>2, QuietInv DEF Interrupt, vars, memory, IInv, TypeOK
<1> QED
  BY <1>1, <1>2, HappensInv, HappensUnreportedInv, SendEventInv, EnqueueInv, ReceiveInv,
     SaveLogInv, BatchDoneInv, ExitInv DEF Next, Worker

-----------------------------------------------------------------------------
\* Counting.

\* An element is behind the first n of a sequence without repetition once or never.
LEMMA OneOccurrence ==
    ASSUME NEW s, NEW n, NEW e, Distinct(s, n)
    PROVE  Cardinality({i \in (n + 1)..Len(s) : s[i] = e}) = IF e \in Rest(s, n) THEN 1 ELSE 0
<1>1. CASE e \in Rest(s, n)
  <2>1. PICK i \in (n + 1)..Len(s) : s[i] = e
    BY <1>1 DEF Rest
  <2>2. {j \in (n + 1)..Len(s) : s[j] = e} = {i}
    BY <2>1 DEF Distinct
  <2> QED
    BY <1>1, <2>2, FS_Singleton
<1>2. CASE e \notin Rest(s, n)
  <2>1. {j \in (n + 1)..Len(s) : s[j] = e} = {}
    BY <1>2 DEF Rest
  <2> QED
    BY <1>2, <2>1, FS_EmptySet
<1> QED
  BY <1>1, <1>2

\* Being in a set, counted.
LEMMA OneMember ==
    ASSUME NEW S, NEW e
    PROVE  Cardinality({e} \cap S) = IF e \in S THEN 1 ELSE 0
<1>1. CASE e \in S
  <2>1. {e} \cap S = {e}
    BY <1>1
  <2> QED
    BY <1>1, <2>1, FS_Singleton
<1>2. CASE e \notin S
  <2>1. {e} \cap S = {}
    BY <1>2
  <2> QED
    BY <1>2, <2>1, FS_EmptySet
<1> QED
  BY <1>1, <1>2

\* The places exclude each other, so that an event in memory is there once.
LEMMA InvAccounted == IInv => Accounted
<1> SUFFICES ASSUME IInv, NEW e \in Events
             PROVE  Copies(e) = IF e \in due /\ ~Settled(e) THEN 1 ELSE 0
  BY DEF Accounted
<1> DEFINE c == ChannelOf(e)
           A == Cardinality({i \in 1..Len(chan[c]) : chan[c][i] = e})
           B == Cardinality({i \in (at[c] + 1)..Len(batch[c]) : batch[c][i] = e})
           C == Cardinality({e} \cap unsent)
           D == Cardinality({e} \cap sending)
<1>1. Copies(e) = A + B + C + D
  BY DEF Copies
<1>2. c \in Channels /\ Elements(chan[c]) = Rest(chan[c], 0) /\ Unprocessed(c) = Rest(batch[c], at[c])
  BY Places DEF IInv
<1> HIDE DEF c
<1>3. A = IF e \in Elements(chan[c]) THEN 1 ELSE 0
  <2>1. Cardinality({i \in (0 + 1)..Len(chan[c]) : chan[c][i] = e}) = IF e \in Rest(chan[c], 0) THEN 1 ELSE 0
    BY <1>2, OneOccurrence DEF IInv, WorkerConsistent
  <2>2. 0 + 1 = 1
    OBVIOUS
  <2> QED
    BY <1>2, <2>1, <2>2
<1>4. B = IF e \in Unprocessed(c) THEN 1 ELSE 0
  BY <1>2, OneOccurrence DEF IInv, WorkerConsistent
<1>5. C = (IF e \in unsent THEN 1 ELSE 0) /\ D = (IF e \in sending THEN 1 ELSE 0)
  BY OneMember
<1>6. e \in due /\ ~Settled(e) <=> \/ e \in unsent \/ e \in sending
                                  \/ e \in Elements(chan[c]) \/ e \in Unprocessed(c)
  <2>1. \A k \in Channels : e \in Elements(chan[k]) \cup Unprocessed(k) => k = c
    BY DEF IInv, WorkerConsistent, c
  <2>2. e \in InMemory <=> e \in due /\ ~Settled(e)
    BY DEF IInv, OnItsWay
  <2> QED
    BY <1>2, <2>1, <2>2, InMemoryPlaces
<1>7. /\ ~(e \in unsent /\ e \in sending)
      /\ ~((e \in unsent \/ e \in sending) /\ (e \in Elements(chan[c]) \/ e \in Unprocessed(c)))
      /\ ~(e \in Elements(chan[c]) /\ e \in Unprocessed(c))
  BY <1>2 DEF IInv, Apart, WorkerConsistent
<1> HIDE DEF A, B, C, D
<1> QED
  BY <1>1, <1>3, <1>4, <1>5, <1>6, <1>7

-----------------------------------------------------------------------------

\* The inductive invariant of the pipeline.
THEOREM PipelineInvariant == Spec => []IInv
BY InitInv, StepInv, PTL DEF Spec

\* The variables keep their types: no channel and no batch exceeds its limit.
THEOREM TypeCorrect == Spec => []TypeOK
<1>1. IInv => TypeOK
  BY DEF IInv
<1> QED
  BY <1>1, PipelineInvariant, PTL

\* No event is saved twice.
THEOREM EventsAreSavedOnce == Spec => []SavedOnce
<1>1. IInv => SavedOnce
  BY DEF IInv
<1> QED
  BY <1>1, PipelineInvariant, PTL

\* No event disappears silently, and none is handed on twice.
THEOREM EventsAreAccountedFor == Spec => []Accounted
BY InvAccounted, PipelineInvariant, PTL

=============================================================================
