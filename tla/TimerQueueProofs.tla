-------------------------- MODULE TimerQueueProofs --------------------------
(***************************************************************************)
(* Proofs about TimerQueue, for every set of addresses, every choice of    *)
(* intervals and every bound.                                              *)
(***************************************************************************)
EXTENDS TimerQueue, SequenceTheorems, FiniteSetTheorems, TLAPS

USE AddrAssumption, TimeAssumption, CountAssumption
-----------------------------------------------------------------------------
(***************************************************************************)
(* The order of std::set.                                                  *)
(***************************************************************************)
\* A non-empty set of numbers has a least one.
LEMMA LeastNumber ==
  ASSUME NEW T \in SUBSET Nat, T # {}
  PROVE  \E n \in T : \A m \in T : n <= m
<1>. DEFINE Below == {0..n : n \in T}
<1>1. Below \subseteq FiniteSubsetsOf(Nat) /\ Below # {}
  <2>1. ASSUME NEW n \in T PROVE 0..n \in FiniteSubsetsOf(Nat)
    BY FS_Interval DEF FiniteSubsetsOf
  <2>. QED BY <2>1
<1>2. PICK X \in Below : \A Y \in Below : <<Y, X>> \notin StrictSubsetOrdering(Nat)
  BY <1>1, FS_StrictSubsetOrderingWellFounded, WFMin
<1>3. PICK n \in T : X = 0..n
  OBVIOUS
<1>4. ASSUME NEW m \in T PROVE n <= m
  <2>1. SUFFICES ASSUME m < n PROVE FALSE
    OBVIOUS
  <2>2. 0..m \subseteq 0..n /\ 0..m # 0..n
    BY <2>1
  <2>3. <<0..m, 0..n>> \in StrictSubsetOrdering(Nat)
    BY <2>2 DEF StrictSubsetOrdering
  <2>. QED BY <1>2, <1>3, <2>3
<1>. QED BY <1>4

\* begin() of a non-empty set of entries: the earliest expiration, then the least address.
LEMMA FirstProperties ==
  ASSUME NEW S \in SUBSET (Nat \X Addrs), S # {}
  PROVE  First(S) \in S /\ \A f \in S : First(S)[1] <= f[1]
<1>1. PICK w \in {e[1] : e \in S} : \A v \in {e[1] : e \in S} : w <= v
  <2>1. {e[1] : e \in S} \in SUBSET Nat /\ {e[1] : e \in S} # {}
    OBVIOUS
  <2>. QED BY <2>1, LeastNumber
<1>. DEFINE A == {e[2] : e \in {f \in S : f[1] = w}}
<1>2. PICK a \in A : \A b \in A : a <= b
  <2>1. A \in SUBSET Nat /\ A # {}
    OBVIOUS
  <2>. QED BY <2>1, LeastNumber
<1>3. PICK e \in S : e[1] = w /\ e[2] = a
  BY <1>2
<1>4. \A f \in S \ {e} : Before(e, f)
  <2>. SUFFICES ASSUME NEW f \in S \ {e} PROVE Before(e, f)
    OBVIOUS
  <2>1. e \in Nat \X Addrs /\ f \in Nat \X Addrs /\ e # f
    OBVIOUS
  <2>2. e[1] <= f[1] /\ e[1] \in Nat /\ f[1] \in Nat /\ e[2] \in Nat /\ f[2] \in Nat
    BY <1>1, <1>3, <2>1
  <2>3. e[1] = f[1] => e[2] <= f[2]
    BY <1>2, <1>3
  <2>4. e[1] # f[1] \/ e[2] # f[2]
    BY <2>1
  <2>. QED BY <2>2, <2>3, <2>4 DEF Before
<1>5. First(S) \in S /\ \A f \in S \ {First(S)} : Before(First(S), f)
  BY <1>3, <1>4 DEF First
<1>6. ASSUME NEW f \in S PROVE First(S)[1] <= f[1]
  <2>1. First(S)[1] \in Nat /\ f[1] \in Nat
    BY <1>5
  <2>. QED BY <1>5, <2>1 DEF Before
<1>. QED BY <1>5, <1>6

\* An address is allocated exactly if a Timer is there; of a free one the sequence reads 0.
LEMMA HeapCases ==
  ASSUME TypeOK, NEW a \in Addrs
  PROVE  \/ a \in Allocated /\ heap[a] \in Timer /\ heap[a].seq \in Nat \ {0}
         \/ a \notin Allocated /\ heap[a] = Free /\ heap[a].seq = 0
<1>1. Free.seq = 0
  BY DEF Free
<1>. QED BY <1>1 DEF TypeOK, Timer, Allocated
-----------------------------------------------------------------------------
(***************************************************************************)
(* new Timer.                                                              *)
(***************************************************************************)
LEMMA Allocation ==
  ASSUME TypeOK, SeqInv, NEW a \in Addrs, NEW t \in NewTimers, allocate(a, t)
  PROVE  /\ t \in Timer /\ t.seq = created + 1
         /\ heap' \in [Addrs -> Timer \cup {Free}]
         /\ created' = created + 1 /\ created' \in 0..MaxTimers
         /\ a \notin Allocated /\ Allocated' = Allocated \cup {a}
         /\ heap'[a] = t
         /\ \A b \in Allocated : heap'[b] = heap[b] /\ b # a
         /\ SeqInv'
<1>1. t \in Timer /\ t.seq = created + 1
  <2>1. created + 1 \in 1..MaxTimers
    BY DEF TypeOK, allocate
  <2>2. t.seq = created + 1 /\ t.when \in Nat /\ t.interval \in Nat
    <3>1. t.seq \in {created + 1} /\ t.when \in 1..MaxTime /\ t.interval \in Intervals
      BY DEF NewTimers
    <3>2. t.seq = created + 1
      BY <3>1
    <3>3. t.when \in Nat
      BY <3>1
    <3>4. t.interval \in Nat
      BY <3>1
    <3>. QED BY <3>2, <3>3, <3>4
  <2>3. t = [seq |-> t.seq, when |-> t.when, interval |-> t.interval]
    BY DEF NewTimers
  <2>. QED BY <2>1, <2>2, <2>3 DEF Timer
<1>2. /\ heap' = [heap EXCEPT ![a] = t] /\ a \notin Allocated
      /\ created' = created + 1 /\ created < MaxTimers
  BY DEF allocate
<1>3. heap' \in [Addrs -> Timer \cup {Free}] /\ created' \in 0..MaxTimers /\ heap'[a] = t
  BY <1>1, <1>2 DEF TypeOK
<1>4. \A b \in Addrs : b # a => heap'[b] = heap[b]
  BY <1>2 DEF TypeOK
<1>5. t # Free
  <2>1. Free.seq = 0
    BY DEF Free
  <2>. QED BY <1>1, <2>1 DEF TypeOK
<1>6. Allocated' = Allocated \cup {a}
  BY <1>3, <1>4, <1>5 DEF Allocated
<1>7. \A b \in Allocated : heap'[b] = heap[b] /\ b # a
  BY <1>2, <1>4 DEF Allocated
<1>8. SeqInv'
  BY <1>1, <1>2, <1>3, <1>6, <1>7 DEF SeqInv, TypeOK
<1>. QED BY <1>1, <1>2, <1>3, <1>6, <1>7, <1>8

\* What IInv says of the sets and queues, as one formula for the lemmas below.
Sound == /\ SeqInv /\ BatchInv /\ SameTimers /\ OneOwner /\ QueueInv /\ IdInv
         /\ RanInv /\ CancelInv

\* TimerIds, wherever they are, are pairs of an address and a number.
LEMMA KnownTyped ==
  ASSUME TypeOK
  PROVE  Known \subseteq TimerIds
<1>1. \A i \in 1..Len(queue) : queue[i].id \in TimerIds
  <2>1. \A i \in 1..Len(queue) : queue[i] \in Functors
    BY ElementOfSeq DEF TypeOK
  <2>. QED BY <2>1 DEF Functors
<1>2. \A i \in 1..Len(other) : other[i] \in TimerIds
  BY ElementOfSeq DEF TypeOK
<1>. QED BY <1>1, <1>2 DEF Known, TypeOK

LEMMA AddInductive ==
  ASSUME TypeOK, Sound, NEW a \in Addrs, NEW t \in NewTimers, addTimer(a, t)
  PROVE  TypeOK' /\ Sound'
<1>. USE DEF Sound
<1>1. /\ t \in Timer /\ t.seq = created + 1
      /\ heap' \in [Addrs -> Timer \cup {Free}]
      /\ created' = created + 1 /\ created' \in 0..MaxTimers
      /\ a \notin Allocated /\ Allocated' = Allocated \cup {a}
      /\ heap'[a] = t
      /\ \A b \in Allocated : heap'[b] = heap[b] /\ b # a
      /\ SeqInv'
  BY Allocation DEF addTimer
<1>2. /\ timers_' = timers_ \cup {<<t.when, a>>}
      /\ activeTimers_' = activeTimers_ \cup {<<a, t.seq>>}
      /\ ids' = ids \cup {<<a, t.seq>>}
      /\ armed' = IF earliestChanged(t.when) THEN resetTimerfd(t.when) ELSE armed
      /\ UNCHANGED <<now, at, batchNow, expired, toRun, running, queue, other, cancelled, ran,
                     cancelingTimers_, callingExpiredTimers_>>
  BY DEF addTimer, addTimerInLoop, Entry, ActiveTimer, batchVars
<1>3. TypeOK'
  <2>1. t.when \in Nat /\ t.seq \in Nat
    BY <1>1 DEF Timer
  <2>2. armed' \in Int
    BY <1>2, <2>1 DEF TypeOK, resetTimerfd
  <2>. QED BY <1>1, <1>2, <2>1, <2>2 DEF TypeOK, TimerIds
<1>4. BatchInv'
  BY <1>1, <1>2 DEF BatchInv
<1>5. SameTimers'
  <2>1. \A e \in timers_ : e[2] \in Allocated /\ heap[e[2]].when = e[1]
    BY DEF SameTimers
  <2>2. \A e \in timers_ : heap'[e[2]] = heap[e[2]]
    BY <1>1, <2>1
  <2>3. \A e \in timers_' : e[2] \in Allocated' /\ heap'[e[2]].when = e[1]
    BY <1>1, <1>2, <2>1, <2>2
  <2>4. activeTimers_ = {<<e[2], heap[e[2]].seq>> : e \in timers_}
    BY DEF SameTimers, ActiveTimer
  <2>5. activeTimers_' = {<<e[2], heap'[e[2]].seq>> : e \in timers_'}
    <3>1. activeTimers_ = {<<e[2], heap'[e[2]].seq>> : e \in timers_}
      BY <2>2, <2>4
    <3>2. <<a, t.seq>> = <<<<t.when, a>>[2], heap'[<<t.when, a>>[2]].seq>>
      BY <1>1
    <3>. QED BY <1>2, <3>1, <3>2
  <2>. QED BY <2>3, <2>5 DEF SameTimers, ActiveTimer
<1>6. Queued' = Queued
  BY <1>2 DEF Queued
<1>7. OneOwner'
  <2>1. Listed' = Listed \cup {a} /\ Batch' = Batch /\ Waiting' = Waiting
    <3>1. <<t.when, a>>[2] = a
      OBVIOUS
    <3>2. Listed' = Listed \cup {a}
      BY <1>2, <3>1 DEF Listed
    <3>. QED BY <1>2, <1>6, <3>2 DEF Batch, Waiting
  <2>2. \A e, f \in timers_' : e[2] = f[2] => e = f
    BY <1>1, <1>2 DEF OneOwner, SameTimers
  <2>. QED BY <1>1, <2>1, <2>2 DEF OneOwner
<1>8. QueueInv'
  BY <1>1, <1>2, <1>6 DEF QueueInv, IsAdd
<1>9. IdInv'
  <2>1. Known' = Known \cup {<<a, t.seq>>}
    BY <1>2 DEF Known
  <2>2. \A id \in Known : id[2] <= created /\ id[2] \in Nat
    BY KnownTyped DEF IdInv, TimerIds
  <2>. QED BY <1>1, <2>1, <2>2 DEF IdInv, SeqInv, TypeOK
<1>10. RanInv' /\ CancelInv'
  <2>1. Batch' = Batch
    BY <1>2 DEF Batch
  <2>2. t.seq \notin ran /\ t.seq \notin cancelled
    BY <1>1 DEF TypeOK
  <2>. QED BY <1>1, <1>2, <2>1, <2>2 DEF RanInv, CancelInv
<1>. QED BY <1>1, <1>3, <1>4, <1>5, <1>7, <1>8, <1>9, <1>10
-----------------------------------------------------------------------------
(***************************************************************************)
(* The queue of functors.                                                  *)
(***************************************************************************)
QueuedIds == {queue[i].id : i \in 1..Len(queue)}

\* Functors that add a Timer add different ones.
AddsDiffer == \A i, j \in 1..Len(queue) :
                 IsAdd(i) /\ IsAdd(j) /\ queue[i].id[1] = queue[j].id[1] => i = j

LEMMA AppendQueue ==
  ASSUME TypeOK, AddsDiffer, NEW f \in Functors, Len(queue) < MaxQueue,
         queue' = Append(queue, f)
  PROVE  /\ queue' \in Seq(Functors) /\ Len(queue') <= MaxQueue
         /\ QueuedIds' = QueuedIds \cup {f.id}
         /\ f.op = "cancel" => Queued' = Queued
         /\ f.op = "add" => Queued' = Queued \cup {f.id}
         /\ f.op = "cancel" \/ f.id[1] \notin Waiting => AddsDiffer'
<1>. PICK n \in Nat : n = Len(queue)
  BY LenProperties DEF TypeOK
<1>1. queue \in Seq(Functors)
  BY DEF TypeOK
<1>2. /\ queue' \in Seq(Functors) /\ Len(queue') = n + 1
      /\ \A i \in 1..n : queue'[i] = queue[i]
      /\ queue'[n + 1] = f
  BY <1>1, AppendProperties
<1>3. 1..(n + 1) = 1..n \cup {n + 1} /\ n + 1 \notin 1..n
  OBVIOUS
<1>4. QueuedIds' = QueuedIds \cup {f.id}
  BY <1>2, <1>3 DEF QueuedIds
<1>. DEFINE Adds == {j \in 1..n : queue[j].op = "add"}
            AddsThen == {j \in 1..(n + 1) : queue'[j].op = "add"}
<1>5. Queued = {queue[i].id : i \in Adds} /\ Queued' = {queue'[i].id : i \in AddsThen}
  BY <1>2 DEF Queued
<1>6. AddsThen = Adds \cup {j \in {n + 1} : f.op = "add"}
  BY <1>2, <1>3
<1>7. AddsDiffer' <=> \A i, j \in AddsThen : queue'[i].id[1] = queue'[j].id[1] => i = j
  BY <1>2 DEF AddsDiffer, IsAdd
<1>8. \A i, j \in Adds : queue[i].id[1] = queue[j].id[1] => i = j
  BY DEF AddsDiffer, IsAdd
<1>9. \A i \in Adds : queue'[i] = queue[i]
  BY <1>2
<1>10. ASSUME f.op = "cancel" PROVE Queued' = Queued /\ AddsDiffer'
  <2>1. AddsThen = Adds
    BY <1>6, <1>10
  <2>. QED BY <1>5, <1>7, <1>8, <1>9, <2>1
<1>11. ASSUME f.op = "add" PROVE Queued' = Queued \cup {f.id}
  <2>1. AddsThen = Adds \cup {n + 1}
    BY <1>6, <1>11
  <2>. QED BY <1>2, <1>5, <1>9, <2>1
<1>12. ASSUME f.op = "add", f.id[1] \notin Waiting PROVE AddsDiffer'
  <2>1. \A i \in Adds : queue[i].id[1] # f.id[1]
    BY <1>5, <1>12 DEF Waiting
  <2>2. AddsThen = Adds \cup {n + 1}
    BY <1>6, <1>12
  <2>. QED BY <1>2, <1>7, <1>8, <1>9, <2>1, <2>2
<1>13. f.op \in {"add", "cancel"}
  BY DEF Functors
<1>. QED BY <1>1, <1>2, <1>4, <1>10, <1>11, <1>12, <1>13

LEMMA TailQueue ==
  ASSUME TypeOK, AddsDiffer, queue # <<>>, queue' = Tail(queue)
  PROVE  /\ queue' \in Seq(Functors) /\ Len(queue') <= MaxQueue
         /\ Head(queue) \in Functors
         /\ QueuedIds = QueuedIds' \cup {Head(queue).id}
         /\ Head(queue).op = "cancel" => Queued' = Queued
         /\ Head(queue).op = "add" => /\ Queued = Queued' \cup {Head(queue).id}
                                      /\ \A id \in Queued' : id[1] # Head(queue).id[1]
         /\ AddsDiffer'
<1>. PICK n \in Nat : n = Len(queue)
  BY LenProperties DEF TypeOK
<1>. PICK f : f = Head(queue)
  OBVIOUS
<1>1. queue \in Seq(Functors) /\ n > 0 /\ f = queue[1]
  BY EmptySeq DEF TypeOK
<1>2. /\ queue' \in Seq(Functors) /\ Len(queue') = n - 1 /\ f \in Functors
      /\ \A i \in 1..(n - 1) : queue'[i] = queue[i + 1]
  BY <1>1, HeadTailProperties
<1>3. \A i \in 1..(n - 1) : i + 1 \in 1..n /\ i + 1 # 1
  BY <1>1
<1>4. \A i \in 1..n : i # 1 => i - 1 \in 1..(n - 1) /\ (i - 1) + 1 = i
  BY <1>1
<1>5. Len(queue') <= MaxQueue
  BY <1>1, <1>2 DEF TypeOK
<1>6. QueuedIds = QueuedIds' \cup {f.id}
  <2>1. QueuedIds' = {queue[i + 1].id : i \in 1..(n - 1)}
    BY <1>2 DEF QueuedIds
  <2>2. \A i \in 1..n : i = 1 \/ queue[i].id \in QueuedIds'
    BY <1>4, <2>1
  <2>3. QueuedIds = {queue[i].id : i \in 1..n}
    BY DEF QueuedIds
  <2>4. QueuedIds' \subseteq QueuedIds
    BY <1>3, <2>1, <2>3
  <2>5. f.id \in QueuedIds
    BY <1>1, <2>3
  <2>6. QueuedIds \subseteq QueuedIds' \cup {f.id}
    BY <1>1, <2>2, <2>3
  <2>. QED BY <2>4, <2>5, <2>6
<1>. DEFINE Adds == {j \in 1..n : queue[j].op = "add"}
            AddsThen == {j \in 1..(n - 1) : queue'[j].op = "add"}
<1>7. Queued = {queue[i].id : i \in Adds} /\ Queued' = {queue'[i].id : i \in AddsThen}
  BY <1>2 DEF Queued
<1>8. \A i \in AddsThen : i + 1 \in Adds \ {1} /\ queue'[i] = queue[i + 1]
  BY <1>2, <1>3
<1>9. \A i \in Adds \ {1} : i - 1 \in AddsThen /\ queue'[i - 1] = queue[i]
  BY <1>2, <1>4
<1>10. Queued' = {queue[i].id : i \in Adds \ {1}}
  BY <1>7, <1>8, <1>9
<1>11. \A i, j \in Adds : queue[i].id[1] = queue[j].id[1] => i = j
  BY DEF AddsDiffer, IsAdd
<1>12. AddsDiffer'
  <2>. SUFFICES ASSUME NEW i \in AddsThen, NEW j \in AddsThen,
                       queue'[i].id[1] = queue'[j].id[1]
                PROVE  i = j
    BY <1>2 DEF AddsDiffer, IsAdd
  <2>1. i + 1 = j + 1
    BY <1>8, <1>11
  <2>. QED BY <2>1
<1>13. ASSUME f.op = "cancel" PROVE Queued' = Queued
  <2>1. 1 \notin Adds
    BY <1>1, <1>13
  <2>. QED BY <1>7, <1>10, <2>1
<1>14. ASSUME f.op = "add"
       PROVE  Queued = Queued' \cup {f.id} /\ \A id \in Queued' : id[1] # f.id[1]
  <2>1. 1 \in Adds
    BY <1>1, <1>14
  <2>2. Adds = (Adds \ {1}) \cup {1}
    BY <2>1
  <2>3. Queued = Queued' \cup {f.id}
    BY <1>1, <1>7, <1>10, <2>2
  <2>. QED BY <1>1, <1>10, <1>11, <2>1, <2>3
<1>. QED BY <1>2, <1>5, <1>6, <1>12, <1>13, <1>14
-----------------------------------------------------------------------------
(***************************************************************************)
(* The other thread.                                                       *)
(***************************************************************************)
LEMMA OtherAddsInductive ==
  ASSUME TypeOK, Sound, NEW a \in Addrs, NEW t \in NewTimers, otherAdds(a, t)
  PROVE  TypeOK' /\ Sound'
<1>. USE DEF Sound
<1>1. /\ t \in Timer /\ t.seq = created + 1
      /\ heap' \in [Addrs -> Timer \cup {Free}]
      /\ created' = created + 1 /\ created' \in 0..MaxTimers
      /\ a \notin Allocated /\ Allocated' = Allocated \cup {a}
      /\ heap'[a] = t
      /\ \A b \in Allocated : heap'[b] = heap[b] /\ b # a
      /\ SeqInv'
  BY Allocation DEF otherAdds
<1>2. /\ queue' = Append(queue, [op |-> "add", id |-> <<a, t.seq>>])
      /\ other = <<>> /\ other' = <<<<a, t.seq>>>>
      /\ Len(queue) < MaxQueue
      /\ UNCHANGED <<now, timers_, activeTimers_, cancelingTimers_, callingExpiredTimers_, armed,
                     at, batchNow, expired, toRun, running, ids, cancelled, ran>>
  BY DEF otherAdds, ActiveTimer, setVars, batchVars
<1>3. <<a, t.seq>> \in TimerIds
  BY <1>1 DEF TimerIds, Timer
<1>. PICK f : f = [op |-> "add", id |-> <<a, t.seq>>]
  OBVIOUS
<1>4. f \in Functors /\ f.op = "add" /\ f.id = <<a, t.seq>> /\ f.id[1] = a
  BY <1>3 DEF Functors
<1>5. AddsDiffer /\ a \notin Waiting
  BY <1>1 DEF QueueInv, AddsDiffer, OneOwner
<1>6. /\ queue' \in Seq(Functors) /\ Len(queue') <= MaxQueue
      /\ QueuedIds' = QueuedIds \cup {<<a, t.seq>>}
      /\ Queued' = Queued \cup {<<a, t.seq>>}
      /\ AddsDiffer'
  BY <1>2, <1>4, <1>5, AppendQueue
<1>7. TypeOK'
  <2>1. other' \in Seq(TimerIds)
    BY <1>2, <1>3
  <2>. QED BY <1>1, <1>2, <1>6, <2>1 DEF TypeOK
<1>8. BatchInv'
  BY <1>1, <1>2 DEF BatchInv
<1>9. SameTimers'
  <2>1. \A e \in timers_ : e[2] \in Allocated /\ heap[e[2]].when = e[1]
    BY DEF SameTimers
  <2>2. \A e \in timers_ : heap'[e[2]] = heap[e[2]]
    BY <1>1, <2>1
  <2>3. \A e \in timers_' : e[2] \in Allocated' /\ heap'[e[2]].when = e[1]
    BY <1>1, <1>2, <2>1, <2>2
  <2>4. activeTimers_' = {<<e[2], heap'[e[2]].seq>> : e \in timers_'}
    <3>1. activeTimers_ = {<<e[2], heap[e[2]].seq>> : e \in timers_}
      BY DEF SameTimers, ActiveTimer
    <3>. QED BY <1>2, <2>2, <3>1
  <2>. QED BY <2>3, <2>4 DEF SameTimers, ActiveTimer
<1>10. OneOwner'
  <2>1. Listed' = Listed /\ Batch' = Batch
    BY <1>2 DEF Listed, Batch
  <2>2. Waiting' = Waiting \cup {a}
    <3>1. <<a, t.seq>>[1] = a
      OBVIOUS
    <3>. QED BY <1>6, <3>1 DEF Waiting
  <2>. QED BY <1>1, <1>2, <2>1, <2>2 DEF OneOwner
<1>11. QueueInv'
  <2>1. \A id \in Queued' : id[1] \in Allocated' /\ heap'[id[1]].seq = id[2]
    BY <1>1, <1>6 DEF QueueInv
  <2>. QED BY <1>6, <2>1 DEF QueueInv, AddsDiffer
<1>12. IdInv'
  <2>1. Known' = Known \cup {<<a, t.seq>>}
    <3>1. {other[i] : i \in 1..Len(other)} = {} /\ {other'[i] : i \in 1..Len(other')} = {<<a, t.seq>>}
      BY <1>2
    <3>. QED BY <1>2, <1>6, <3>1 DEF Known, QueuedIds
  <2>2. \A id \in Known : id[2] <= created /\ id[2] \in Nat
    BY KnownTyped DEF IdInv, TimerIds
  <2>. QED BY <1>1, <2>1, <2>2 DEF IdInv, SeqInv, TypeOK
<1>13. RanInv' /\ CancelInv'
  <2>1. Batch' = Batch
    BY <1>2 DEF Batch
  <2>2. t.seq \notin ran /\ t.seq \notin cancelled
    BY <1>1 DEF TypeOK
  <2>. QED BY <1>1, <1>2, <2>1, <2>2 DEF RanInv, CancelInv
<1>. QED BY <1>1, <1>7, <1>8, <1>9, <1>10, <1>11, <1>12, <1>13

\* The rest of Sound is about variables that a step of the other thread leaves alone.
LEMMA OthersUnchanged ==
  ASSUME TypeOK, Sound,
         UNCHANGED <<now, heap, created, setVars, at, expired, toRun, running, cancelled, ran>>,
         Queued' = Queued
  PROVE  /\ SeqInv' /\ BatchInv' /\ SameTimers' /\ OneOwner' /\ RanInv' /\ CancelInv'
         /\ Allocated' = Allocated
<1>. USE DEF Sound, setVars
<1>1. Allocated' = Allocated /\ Listed' = Listed /\ Batch' = Batch /\ Waiting' = Waiting
  BY DEF Allocated, Listed, Batch, Waiting
<1>2. SeqInv' /\ BatchInv'
  BY <1>1 DEF SeqInv, BatchInv
<1>3. SameTimers'
  BY <1>1 DEF SameTimers, ActiveTimer
<1>4. OneOwner'
  BY <1>1 DEF OneOwner
<1>5. RanInv' /\ CancelInv'
  BY <1>1 DEF RanInv, CancelInv
<1>. QED BY <1>1, <1>2, <1>3, <1>4, <1>5

LEMMA OtherReturnsInductive ==
  ASSUME TypeOK, Sound, otherReturns
  PROVE  TypeOK' /\ Sound'
<1>1. /\ other # <<>> /\ other' = <<>>
      /\ UNCHANGED <<now, heap, created, setVars, armed, batchVars, queue, cancelled, ran>>
  BY DEF otherReturns
<1>2. PICK a, s : /\ other[1] = <<a, s>> /\ <<a, s>> \in TimerIds
  <2>1. 1 \in 1..Len(other)
    BY <1>1, EmptySeq DEF TypeOK
  <2>2. other[1] \in TimerIds
    BY <2>1, ElementOfSeq DEF TypeOK
  <2>3. other[1] = <<other[1][1], other[1][2]>>
    BY <2>2 DEF TimerIds
  <2>. QED BY <2>2, <2>3
<1>3. PICK r \in sequenceRead(a, s) : ids' = ids \cup {<<a, r>>}
  BY <1>2 DEF otherReturns
<1>4. a \in Addrs /\ s \in Nat
  BY <1>2 DEF TimerIds
<1>5. \/ r = 0 \/ r = s
      \/ a \in Allocated /\ r = heap[a].seq /\ r \in Nat
  BY <1>3, <1>4, HeapCases DEF sequenceRead
<1>6. r \in Nat /\ <<a, r>> \in TimerIds
  BY <1>4, <1>5 DEF TimerIds
<1>7. TypeOK'
  BY <1>1, <1>3, <1>6, EmptySeq DEF TypeOK, setVars, batchVars
<1>8. Queued' = Queued
  BY <1>1 DEF Queued
<1>9. /\ SeqInv' /\ BatchInv' /\ SameTimers' /\ OneOwner' /\ RanInv' /\ CancelInv'
      /\ Allocated' = Allocated
  BY <1>1, <1>8, OthersUnchanged DEF batchVars
<1>10. QueueInv'
  BY <1>1, <1>8, <1>9 DEF Sound, QueueInv, IsAdd
<1>11. Known' \subseteq Known \cup {<<a, r>>} /\ <<a, s>> \in Known
  <2>1. Len(other) \in Nat /\ Len(other) > 0 /\ Len(<<>>) = 0
    BY <1>1, EmptySeq DEF TypeOK
  <2>2. {other'[i] : i \in 1..Len(other')} = {}
    BY <1>1
  <2>3. <<a, s>> \in {other[i] : i \in 1..Len(other)}
    BY <1>2, <2>1
  <2>. QED BY <1>1, <1>3, <2>2, <2>3 DEF Known
<1>12. IdInv'
  <2>1. r <= created
    BY <1>5, <1>11 DEF IdInv, Sound, SeqInv, TypeOK
  <2>2. \A b \in Allocated : heap[b].seq = r => b = a
    <3>1. \A b \in Allocated : heap[b].seq # 0
      BY DEF Sound, SeqInv, TypeOK
    <3>. QED BY <1>5, <1>11, <3>1 DEF Sound, IdInv, SeqInv
  <2>. QED BY <1>1, <1>9, <1>11, <2>1, <2>2 DEF Sound, IdInv
<1>. QED BY <1>7, <1>9, <1>10, <1>12 DEF Sound

LEMMA OtherCancelsInductive ==
  ASSUME TypeOK, Sound, NEW id \in ids, otherCancels(id)
  PROVE  TypeOK' /\ Sound'
<1>1. /\ Len(queue) < MaxQueue /\ queue' = Append(queue, [op |-> "cancel", id |-> id])
      /\ UNCHANGED <<now, heap, created, setVars, armed, batchVars, other, ids, cancelled, ran>>
  BY DEF otherCancels
<1>. PICK f : f = [op |-> "cancel", id |-> id]
  OBVIOUS
<1>2. f \in Functors /\ f.op = "cancel" /\ f.id = id
  BY DEF TypeOK, Functors
<1>3. /\ queue' \in Seq(Functors) /\ Len(queue') <= MaxQueue
      /\ QueuedIds' = QueuedIds \cup {id} /\ Queued' = Queued /\ AddsDiffer'
  <2>1. AddsDiffer
    BY DEF Sound, QueueInv, AddsDiffer
  <2>. QED BY <1>1, <1>2, <2>1, AppendQueue
<1>4. TypeOK'
  BY <1>1, <1>3 DEF TypeOK, setVars, batchVars
<1>5. /\ SeqInv' /\ BatchInv' /\ SameTimers' /\ OneOwner' /\ RanInv' /\ CancelInv'
      /\ Allocated' = Allocated
  BY <1>1, <1>3, OthersUnchanged DEF batchVars
<1>6. QueueInv'
  <2>1. \A i \in Queued' : i[1] \in Allocated' /\ heap'[i[1]].seq = i[2]
    BY <1>1, <1>3, <1>5 DEF Sound, QueueInv
  <2>. QED BY <1>3, <2>1 DEF QueueInv, AddsDiffer
<1>7. IdInv'
  <2>1. Known' = Known
    BY <1>1, <1>3 DEF Known, QueuedIds
  <2>. QED BY <1>1, <1>5, <2>1 DEF Sound, IdInv
<1>. QED BY <1>4, <1>5, <1>6, <1>7 DEF Sound
-----------------------------------------------------------------------------
(***************************************************************************)
(* cancelInLoop, called by cancel or from the queue.                       *)
(***************************************************************************)
\* The TimerId is in the set: this very Timer is removed and deleted.
LEMMA CancelListed ==
  ASSUME TypeOK, Sound, NEW id \in activeTimers_, cancelInLoop(id)
  PROVE  \E e \in timers_ :
           /\ id = <<e[2], heap[e[2]].seq>> /\ e[2] \in Allocated
           /\ timers_' = timers_ \ {e} /\ activeTimers_' = activeTimers_ \ {id}
           /\ heap' = [heap EXCEPT ![e[2]] = Free]
           /\ Allocated' = Allocated \ {e[2]}
           /\ \A b \in Allocated' : heap'[b] = heap[b]
           /\ cancelingTimers_' = cancelingTimers_
<1>. USE DEF Sound
<1>1. PICK e \in timers_ : id = <<e[2], heap[e[2]].seq>>
  BY DEF SameTimers, ActiveTimer
<1>2. e \in Nat \X Addrs /\ e[2] \in Allocated /\ heap[e[2]].when = e[1]
  BY DEF TypeOK, SameTimers
<1>3. found(id) = {id} /\ id[1] = e[2]
  BY <1>1 DEF found
<1>4. /\ timers_' = timers_ \ {<<heap[e[2]].when, e[2]>>}
      /\ heap' = [heap EXCEPT ![e[2]] = Free]
      /\ activeTimers_' = activeTimers_ \ {id}
      /\ cancelingTimers_' = cancelingTimers_
  BY <1>3 DEF cancelInLoop, deleted, Entry
<1>5. <<heap[e[2]].when, e[2]>> = e
  BY <1>2
<1>6. Allocated' = Allocated \ {e[2]} /\ \A b \in Allocated' : heap'[b] = heap[b]
  BY <1>2, <1>4 DEF Allocated, TypeOK
<1>. QED BY <1>1, <1>2, <1>4, <1>5, <1>6

LEMMA CancelInductive ==
  ASSUME TypeOK, Sound, NEW id \in Known, cancelInLoop(id),
         UNCHANGED <<now, created, armed, batchVars, other, ids, ran>>,
         queue' \in Seq(Functors), Len(queue') <= MaxQueue,
         Queued' = Queued, Known' \subseteq Known, AddsDiffer'
  PROVE  TypeOK' /\ Sound'
<1>. USE DEF Sound, batchVars
<1>1. id \in TimerIds /\ id[2] \in 0..created /\ created \in Nat
  <2>1. id \in TimerIds
    BY KnownTyped
  <2>. QED BY <2>1 DEF TimerIds, IdInv, TypeOK
<1>2. /\ cancelled' = IF id \in Queued THEN cancelled ELSE cancelled \cup {id[2]}
      /\ callingExpiredTimers_' = callingExpiredTimers_
  BY DEF cancelInLoop
<1>3. cancelled' \subseteq cancelled \cup {id[2]} /\ cancelled' \subseteq 0..created'
  BY <1>1, <1>2 DEF TypeOK
<1>4. Batch' = Batch /\ Waiting' = Waiting
  BY DEF Batch, Waiting
<1>5. CASE id \in activeTimers_
  <2>1. PICK e \in timers_ :
           /\ id = <<e[2], heap[e[2]].seq>> /\ e[2] \in Allocated
           /\ timers_' = timers_ \ {e} /\ activeTimers_' = activeTimers_ \ {id}
           /\ heap' = [heap EXCEPT ![e[2]] = Free]
           /\ Allocated' = Allocated \ {e[2]}
           /\ \A b \in Allocated' : heap'[b] = heap[b]
           /\ cancelingTimers_' = cancelingTimers_
    BY <1>5, CancelListed
  <2>2. TypeOK'
    <3>1. heap' \in [Addrs -> Timer \cup {Free}]
      BY <2>1 DEF TypeOK
    <3>. QED BY <1>2, <1>3, <2>1, <3>1 DEF TypeOK
  <2>3. e[2] \in Listed /\ e[2] \notin Batch /\ e[2] \notin Waiting
    BY DEF OneOwner, Listed
  <2>4. SeqInv'
    BY <2>1 DEF SeqInv
  <2>5. BatchInv'
    <3>1. \A f \in expired : f[2] # e[2]
      BY <2>3 DEF Batch
    <3>. QED BY <2>1, <3>1 DEF BatchInv
  <2>6. \A f \in timers_' : f[2] # e[2] /\ f[2] \in Allocated' /\ heap'[f[2]] = heap[f[2]]
    <3>1. \A f \in timers_' : f[2] # e[2]
      BY <2>1 DEF OneOwner
    <3>. QED BY <2>1, <3>1 DEF SameTimers
  <2>7. SameTimers'
    <3>1. activeTimers_ = {<<f[2], heap[f[2]].seq>> : f \in timers_}
      BY DEF SameTimers, ActiveTimer
    <3>2. \A f \in timers_' : f \in timers_ /\ <<f[2], heap[f[2]].seq>> # id
      BY <2>1, <2>6
    <3>3. activeTimers_' = {<<f[2], heap[f[2]].seq>> : f \in timers_'}
      BY <2>1, <3>1, <3>2
    <3>4. activeTimers_' = {<<f[2], heap'[f[2]].seq>> : f \in timers_'}
      BY <2>6, <3>3
    <3>5. \A f \in timers_' : heap'[f[2]].when = f[1]
      BY <2>1, <2>6 DEF SameTimers
    <3>. QED BY <2>6, <3>4, <3>5 DEF SameTimers, ActiveTimer
  <2>8. OneOwner'
    <3>1. Listed' = Listed \ {e[2]}
      BY <2>1, <2>6 DEF Listed
    <3>. QED BY <1>4, <2>1, <2>3, <3>1 DEF OneOwner
  <2>9. QueueInv'
    <3>1. \A i \in Queued : i[1] # e[2] /\ i[1] \in Allocated /\ heap[i[1]].seq = i[2]
      BY <2>3 DEF Waiting, QueueInv
    <3>2. \A i \in Queued' : i[1] \in Allocated' /\ heap'[i[1]].seq = i[2]
      BY <2>1, <3>1
    <3>. QED BY <3>2 DEF QueueInv, AddsDiffer
  <2>10. IdInv'
    BY <2>1 DEF IdInv
  <2>11. RanInv'
    BY <1>4, <2>1 DEF RanInv
  <2>12. CancelInv'
    <3>1. \A b \in Allocated' : heap[b].seq # id[2]
      BY <2>1 DEF SeqInv
    <3>2. ASSUME NEW b \in Allocated', heap'[b].seq \in cancelled'
          PROVE  b \in Batch /\ <<b, heap'[b].seq>> \in cancelingTimers_'
      <4>1. b \in Allocated /\ heap'[b] = heap[b]
        BY <2>1
      <4>2. heap[b].seq \in cancelled
        BY <1>3, <3>1, <3>2, <4>1
      <4>. QED BY <2>1, <4>1, <4>2 DEF CancelInv
    <3>. QED BY <1>4, <3>2 DEF CancelInv
  <2>. QED BY <2>2, <2>4, <2>5, <2>7, <2>8, <2>9, <2>10, <2>11, <2>12
<1>6. CASE id \notin activeTimers_
  <2>1. /\ cancelingTimers_' = canceling(id)
        /\ UNCHANGED <<timers_, heap, activeTimers_>>
    <3>1. found(id) = {}
      BY <1>6 DEF found
    <3>. QED BY <3>1 DEF cancelInLoop
  <2>2. TypeOK'
    <3>1. cancelingTimers_' \subseteq TimerIds
      BY <1>1, <2>1 DEF canceling, TypeOK
    <3>. QED BY <1>2, <1>3, <2>1, <3>1 DEF TypeOK
  <2>3. Allocated' = Allocated /\ Listed' = Listed
    BY <2>1 DEF Allocated, Listed
  <2>4. SeqInv' /\ BatchInv'
    BY <2>1, <2>3 DEF SeqInv, BatchInv
  <2>5. SameTimers'
    BY <2>1, <2>3 DEF SameTimers, ActiveTimer
  <2>6. OneOwner'
    BY <1>4, <2>1, <2>3 DEF OneOwner
  <2>7. QueueInv'
    <3>1. \A i \in Queued' : i[1] \in Allocated' /\ heap'[i[1]].seq = i[2]
      BY <2>1, <2>3 DEF QueueInv
    <3>. QED BY <3>1 DEF QueueInv, AddsDiffer
  <2>8. IdInv' /\ RanInv'
    BY <1>4, <2>1, <2>3 DEF IdInv, RanInv
  <2>9. ASSUME NEW b \in Allocated, heap[b].seq \in cancelled'
        PROVE  b \in Batch /\ <<b, heap[b].seq>> \in cancelingTimers_'
    <3>1. CASE heap[b].seq \in cancelled
      BY <2>1, <3>1 DEF CancelInv, canceling
    <3>2. CASE heap[b].seq \notin cancelled
      <4>1. id \notin Queued /\ heap[b].seq = id[2]
        BY <1>2, <2>9, <3>2
      <4>2. id = <<b, heap[b].seq>>
        <5>1. b = id[1]
          BY <4>1 DEF IdInv
        <5>. QED BY <1>1, <4>1, <5>1 DEF TimerIds
      <4>3. b \notin Waiting
        <5>. SUFFICES ASSUME NEW i \in Queued, i[1] = b PROVE FALSE
          BY DEF Waiting
        <5>1. i \in Known
          BY DEF Queued, Known
        <5>2. i \in TimerIds /\ heap[b].seq = i[2]
          BY <5>1, KnownTyped DEF QueueInv
        <5>3. i = <<b, heap[b].seq>>
          BY <5>2 DEF TimerIds
        <5>. QED BY <4>1, <4>2, <5>3
      <4>4. b \notin Listed
        <5>. SUFFICES ASSUME NEW e \in timers_, e[2] = b PROVE FALSE
          BY DEF Listed
        <5>1. <<b, heap[b].seq>> \in activeTimers_
          BY DEF SameTimers, ActiveTimer
        <5>. QED BY <1>6, <4>2, <5>1
      <4>5. b \in Batch
        BY <4>3, <4>4 DEF OneOwner
      <4>6. callingExpiredTimers_
        BY <4>5 DEF Batch, BatchInv, TypeOK
      <4>. QED BY <2>1, <4>2, <4>5, <4>6 DEF canceling
    <3>. QED BY <3>1, <3>2
  <2>10. CancelInv'
    BY <1>4, <2>1, <2>3, <2>9 DEF CancelInv
  <2>. QED BY <2>2, <2>4, <2>5, <2>6, <2>7, <2>8, <2>10
<1>. QED BY <1>5, <1>6

LEMMA CancelNowInductive ==
  ASSUME TypeOK, Sound, NEW id \in ids, cancel(id)
  PROVE  TypeOK' /\ Sound'
<1>1. /\ cancelInLoop(id)
      /\ UNCHANGED <<now, created, armed, batchVars, queue, other, ids, ran>>
  BY DEF cancel, userVars
<1>2. /\ queue' \in Seq(Functors) /\ Len(queue') <= MaxQueue
      /\ Queued' = Queued /\ Known' = Known /\ id \in Known
  BY <1>1 DEF TypeOK, Queued, Known
<1>3. AddsDiffer'
  BY <1>1 DEF Sound, QueueInv, AddsDiffer, IsAdd
<1>. QED BY <1>1, <1>2, <1>3, CancelInductive

LEMMA CallCancelInductive ==
  ASSUME TypeOK, Sound, callCancelInLoop
  PROVE  TypeOK' /\ Sound' /\ Head(queue).id \in Known
<1>1. /\ queue # <<>> /\ Head(queue).op = "cancel" /\ queue' = Tail(queue)
      /\ cancelInLoop(Head(queue).id)
      /\ UNCHANGED <<now, created, armed, batchVars, other, ids, ran>>
  BY DEF callCancelInLoop
<1>2. /\ queue' \in Seq(Functors) /\ Len(queue') <= MaxQueue
      /\ QueuedIds = QueuedIds' \cup {Head(queue).id}
      /\ Queued' = Queued /\ AddsDiffer'
  <2>1. AddsDiffer
    BY DEF Sound, QueueInv, AddsDiffer
  <2>. QED BY <1>1, <2>1, TailQueue
<1>3. Known' \subseteq Known /\ Head(queue).id \in Known
  BY <1>1, <1>2 DEF Known, QueuedIds
<1>. QED BY <1>1, <1>2, <1>3, CancelInductive
-----------------------------------------------------------------------------
(***************************************************************************)
(* The other steps of the loop.                                            *)
(***************************************************************************)
\* addTimerInLoop from the queue: the Timer is there, as it was made.
LEMMA CallAddInductive ==
  ASSUME TypeOK, Sound, callAddTimerInLoop
  PROVE  TypeOK' /\ Sound'
<1>. USE DEF Sound, batchVars
<1>. PICK f : f = Head(queue)
  OBVIOUS
<1>. DEFINE a == f.id[1]
<1>1. /\ queue # <<>> /\ f.op = "add" /\ queue' = Tail(queue)
      /\ timers_' = timers_ \cup {<<heap[a].when, a>>}
      /\ activeTimers_' = activeTimers_ \cup {<<a, heap[a].seq>>}
      /\ armed' = IF earliestChanged(heap[a].when) THEN resetTimerfd(heap[a].when) ELSE armed
      /\ UNCHANGED <<now, heap, created, batchVars, other, ids, cancelled, ran,
                     cancelingTimers_, callingExpiredTimers_>>
  BY DEF callAddTimerInLoop, addTimerInLoop, Entry, ActiveTimer
<1>2. /\ queue' \in Seq(Functors) /\ Len(queue') <= MaxQueue
      /\ QueuedIds = QueuedIds' \cup {f.id}
      /\ Queued = Queued' \cup {f.id}
      /\ \A id \in Queued' : id[1] # a
      /\ AddsDiffer'
  <2>1. AddsDiffer
    BY DEF QueueInv, AddsDiffer
  <2>. QED BY <1>1, <2>1, TailQueue
<1>3. a \in Waiting /\ a \in Allocated /\ a \in Addrs /\ a \notin Listed /\ a \notin Batch
  <2>1. a \in Waiting
    BY <1>2 DEF Waiting
  <2>. QED BY <2>1 DEF OneOwner, Allocated
<1>4. heap[a].when \in Nat /\ heap[a].seq \in Nat
  BY <1>3, HeapCases DEF Timer
<1>5. TypeOK'
  <2>1. armed' \in Int
    BY <1>1, <1>4 DEF TypeOK, resetTimerfd
  <2>2. timers_' \subseteq Nat \X Addrs
    BY <1>1, <1>3, <1>4 DEF TypeOK
  <2>3. activeTimers_' \subseteq TimerIds
    BY <1>1, <1>3, <1>4 DEF TypeOK, TimerIds
  <2>. QED BY <1>1, <1>2, <2>1, <2>2, <2>3 DEF TypeOK
<1>6. Allocated' = Allocated /\ Batch' = Batch
  BY <1>1 DEF Allocated, Batch
<1>7. SeqInv' /\ BatchInv'
  BY <1>1, <1>6 DEF SeqInv, BatchInv
<1>8. SameTimers'
  <2>1. \A e \in timers_' : e[2] \in Allocated' /\ heap'[e[2]].when = e[1]
    BY <1>1, <1>3, <1>6 DEF SameTimers
  <2>2. activeTimers_ = {<<e[2], heap[e[2]].seq>> : e \in timers_}
    BY DEF SameTimers, ActiveTimer
  <2>3. <<a, heap[a].seq>> = <<<<heap[a].when, a>>[2], heap[<<heap[a].when, a>>[2]].seq>>
    OBVIOUS
  <2>4. activeTimers_' = {<<e[2], heap'[e[2]].seq>> : e \in timers_'}
    BY <1>1, <2>2, <2>3
  <2>. QED BY <2>1, <2>4 DEF SameTimers, ActiveTimer
<1>9. OneOwner'
  <2>1. Listed' = Listed \cup {a}
    <3>1. <<heap[a].when, a>>[2] = a
      OBVIOUS
    <3>. QED BY <1>1, <3>1 DEF Listed
  <2>2. Waiting = Waiting' \cup {a} /\ a \notin Waiting'
    BY <1>2 DEF Waiting
  <2>3. \A e, g \in timers_' : e[2] = g[2] => e = g
    <3>1. \A e \in timers_ : e[2] # a
      BY <1>3 DEF Listed
    <3>. QED BY <1>1, <3>1 DEF OneOwner
  <2>. QED BY <1>3, <1>6, <2>1, <2>2, <2>3 DEF OneOwner
<1>10. QueueInv'
  <2>1. \A id \in Queued' : id[1] \in Allocated' /\ heap'[id[1]].seq = id[2]
    BY <1>1, <1>2, <1>6 DEF QueueInv
  <2>. QED BY <1>2, <2>1 DEF QueueInv, AddsDiffer
<1>11. IdInv'
  <2>1. Known' \subseteq Known
    BY <1>1, <1>2 DEF Known, QueuedIds
  <2>. QED BY <1>1, <1>6, <2>1 DEF IdInv
<1>12. RanInv' /\ CancelInv'
  BY <1>1, <1>6 DEF RanInv, CancelInv
<1>. QED BY <1>5, <1>7, <1>8, <1>9, <1>10, <1>11, <1>12

\* The queue and the ids are left alone.
LEMMA UserUnchanged ==
  ASSUME TypeOK, Sound, UNCHANGED <<heap, created, queue, other, ids>>
  PROVE  /\ SeqInv' /\ QueueInv' /\ IdInv'
         /\ Allocated' = Allocated /\ Waiting' = Waiting
<1>. USE DEF Sound
<1>1. Queued' = Queued /\ Known' = Known /\ Allocated' = Allocated
  BY DEF Queued, Known, Allocated
<1>2. Waiting' = Waiting
  BY <1>1 DEF Waiting
<1>3. SeqInv' /\ IdInv'
  BY <1>1 DEF SeqInv, IdInv
<1>4. QueueInv'
  BY <1>1 DEF QueueInv, IsAdd
<1>. QED BY <1>1, <1>2, <1>3, <1>4

LEMMA HandleReadInductive ==
  ASSUME TypeOK, Sound, handleRead
  PROVE  TypeOK' /\ Sound'
<1>. USE DEF Sound
<1>. DEFINE E == {e \in timers_ : e[1] <= now}
<1>1. /\ at = "idle" /\ armed' = Never /\ batchNow' = now /\ expired' = E /\ toRun' = E
      /\ timers_' = timers_ \ E
      /\ activeTimers_' = activeTimers_ \ {<<e[2], heap[e[2]].seq>> : e \in E}
      /\ callingExpiredTimers_' = TRUE /\ cancelingTimers_' = {} /\ at' = "batch"
      /\ UNCHANGED <<now, heap, created, running, queue, other, ids, cancelled, ran>>
  BY DEF handleRead, getExpired, erased, ActiveTimer, userVars
<1>2. /\ SeqInv' /\ QueueInv' /\ IdInv'
      /\ Allocated' = Allocated /\ Waiting' = Waiting
  BY <1>1, UserUnchanged
<1>3. TypeOK'
  <2>1. callingExpiredTimers_' = (at' # "idle")
    BY <1>1
  <2>2. E \subseteq Nat \X Addrs /\ timers_' \subseteq Nat \X Addrs /\ activeTimers_' \subseteq TimerIds
    BY <1>1 DEF TypeOK
  <2>3. armed' \in Int /\ batchNow' \in Nat
    BY <1>1 DEF TypeOK, Never
  <2>. QED BY <1>1, <2>1, <2>2, <2>3 DEF TypeOK
<1>4. BatchInv'
  BY <1>1, <1>2 DEF BatchInv, SameTimers
<1>5. SameTimers'
  <2>1. activeTimers_ = {<<e[2], heap[e[2]].seq>> : e \in timers_}
    BY DEF SameTimers, ActiveTimer
  <2>2. \A e \in timers_ \ E, f \in E : <<e[2], heap[e[2]].seq>> # <<f[2], heap[f[2]].seq>>
    BY DEF OneOwner
  <2>3. activeTimers_' = {<<e[2], heap[e[2]].seq>> : e \in timers_ \ E}
    BY <1>1, <2>1, <2>2
  <2>. QED BY <1>1, <1>2, <2>3 DEF SameTimers, ActiveTimer
<1>6. Batch = {} /\ Listed = Listed' \cup Batch' /\ Listed' \cap Batch' = {}
  BY <1>1 DEF Batch, Listed, OneOwner, BatchInv
<1>7. OneOwner'
  BY <1>1, <1>2, <1>6 DEF OneOwner
<1>8. RanInv' /\ CancelInv'
  BY <1>1, <1>2, <1>6 DEF RanInv, CancelInv
<1>. QED BY <1>2, <1>3, <1>4, <1>5, <1>7, <1>8

\* The batch, in the order of the expirations.
LEMMA RunNext ==
  ASSUME TypeOK, Sound, run
  PROVE  \E e \in toRun :
           /\ e \in expired /\ e[2] \in Allocated /\ e[2] \in Addrs
           /\ heap[e[2]].when = e[1] /\ e[1] <= now
           /\ toRun' = toRun \ {e} /\ running' = heap[e[2]].seq
           /\ ran' = IF heap[e[2]].interval = 0 THEN ran \cup {heap[e[2]].seq} ELSE ran
           /\ heap[e[2]].seq \in 1..created
<1>1. toRun # {} /\ toRun \in SUBSET (Nat \X Addrs)
  BY DEF run, TypeOK
<1>2. First(toRun) \in toRun
  BY <1>1, FirstProperties
<1>3. First(toRun) \in expired
  BY <1>2 DEF TypeOK
<1>4. First(toRun)[2] \in Addrs
  BY <1>1, <1>2
<1>. QED BY <1>2, <1>3, <1>4 DEF run, Sound, BatchInv, SeqInv

LEMMA RunInductive ==
  ASSUME TypeOK, Sound, run
  PROVE  TypeOK' /\ Sound'
<1>. USE DEF Sound
<1>1. PICK e \in toRun :
           /\ e \in expired /\ e[2] \in Allocated /\ e[2] \in Addrs
           /\ heap[e[2]].when = e[1] /\ e[1] <= now
           /\ toRun' = toRun \ {e} /\ running' = heap[e[2]].seq
           /\ ran' = IF heap[e[2]].interval = 0 THEN ran \cup {heap[e[2]].seq} ELSE ran
           /\ heap[e[2]].seq \in 1..created
  BY RunNext
<1>2. /\ at = "batch" /\ at' = "callback"
      /\ UNCHANGED <<now, heap, created, timers_, activeTimers_, cancelingTimers_,
                     callingExpiredTimers_, armed, batchNow, expired, queue, other, ids, cancelled>>
  BY DEF run, setVars, userVars
<1>3. /\ SeqInv' /\ QueueInv' /\ IdInv'
      /\ Allocated' = Allocated /\ Waiting' = Waiting
  BY <1>2, UserUnchanged
<1>4. TypeOK'
  <2>1. callingExpiredTimers_' = (at' # "idle")
    BY <1>2 DEF TypeOK
  <2>2. running' \in Nat
    BY <1>1 DEF TypeOK
  <2>3. toRun' \subseteq expired /\ ran' \subseteq ran \cup {heap[e[2]].seq}
    BY <1>1 DEF TypeOK
  <2>4. ran' \subseteq 1..created
    BY <1>1, <2>3 DEF TypeOK
  <2>. QED BY <1>2, <2>1, <2>2, <2>3, <2>4 DEF TypeOK
<1>5. BatchInv'
  BY <1>2, <1>3 DEF BatchInv
<1>6. SameTimers' /\ OneOwner' /\ CancelInv'
  <2>1. Listed' = Listed /\ Batch' = Batch
    BY <1>2 DEF Listed, Batch
  <2>. QED BY <1>2, <1>3, <2>1 DEF SameTimers, ActiveTimer, OneOwner, CancelInv
<1>7. RanInv'
  <2>1. \A f \in expired : f[2] = e[2] => f = e
    <3>1. \A f \in expired : f[1] = heap[f[2]].when /\ f \in Nat \X Addrs
      BY DEF BatchInv, TypeOK
    <3>. QED BY <1>1, <3>1
  <2>2. ASSUME NEW b \in Allocated, heap[b].seq \in ran'
        PROVE  heap[b].interval = 0 /\ b \in Batch' /\ \A f \in toRun' : f[2] # b
    <3>1. Batch' = Batch
      BY <1>2 DEF Batch
    <3>2. CASE heap[b].seq \in ran
      BY <1>1, <3>1, <3>2 DEF RanInv
    <3>3. CASE heap[b].seq \notin ran
      <4>1. b = e[2] /\ heap[b].interval = 0
        BY <1>1, <2>2, <3>3 DEF SeqInv
      <4>2. b \in Batch
        BY <1>1, <4>1 DEF Batch
      <4>3. \A f \in toRun' : f[2] # b
        BY <1>1, <2>1, <4>1 DEF TypeOK
      <4>. QED BY <3>1, <4>1, <4>2, <4>3
    <3>. QED BY <3>2, <3>3
  <2>. QED BY <1>2, <1>3, <2>2 DEF RanInv
<1>. QED BY <1>3, <1>4, <1>5, <1>6, <1>7

\* A callback returns, or time passes.
LEMMA IdleInductive ==
  ASSUME TypeOK, Sound, runReturns \/ tick
  PROVE  TypeOK' /\ Sound'
<1>. USE DEF Sound
<1>1. /\ UNCHANGED <<heap, created, timers_, activeTimers_, cancelingTimers_, callingExpiredTimers_,
                     armed, batchNow, expired, toRun, queue, other, ids, cancelled, ran>>
      /\ now' \in 1..MaxTime /\ now' >= now
      /\ \/ at' = at /\ running' = running
         \/ at = "callback" /\ at' = "batch" /\ running' = 0
  BY DEF runReturns, tick, setVars, batchVars, userVars, TypeOK
<1>2. /\ SeqInv' /\ QueueInv' /\ IdInv'
      /\ Allocated' = Allocated /\ Waiting' = Waiting
  BY <1>1, UserUnchanged
<1>3. TypeOK'
  BY <1>1 DEF TypeOK
<1>4. BatchInv'
  <2>1. \A e \in expired : e[1] \in Nat
    BY DEF TypeOK
  <2>. QED BY <1>1, <1>2, <2>1 DEF BatchInv, TypeOK
<1>5. SameTimers' /\ OneOwner' /\ RanInv' /\ CancelInv'
  <2>1. Listed' = Listed /\ Batch' = Batch
    BY <1>1 DEF Listed, Batch
  <2>. QED BY <1>1, <1>2, <2>1 DEF SameTimers, ActiveTimer, OneOwner, RanInv, CancelInv
<1>. QED BY <1>2, <1>3, <1>4, <1>5

\* The end of handleRead: repeating Timers that nobody cancelled go back, the others are deleted.
Again == {e[2] : e \in {f \in expired : Restarts(f)}}

HeapReset(A) ==
  /\ heap' \in [Addrs -> Timer \cup {Free}]
  /\ Allocated' = Allocated \ (Batch \ A)
  /\ \A b \in Allocated' : heap'[b].seq = heap[b].seq /\ heap'[b].interval = heap[b].interval
  /\ \A b \in Allocated' \ A : heap'[b] = heap[b]
  /\ \A b \in A : heap[b].interval # 0 /\ <<b, heap[b].seq>> \notin cancelingTimers_

SetsReset(A) ==
  /\ timers_' = timers_ \cup {<<heap'[b].when, b>> : b \in A}
  /\ activeTimers_' = activeTimers_ \cup {<<b, heap[b].seq>> : b \in A}

LEMMA ResetEffect ==
  ASSUME TypeOK, Sound, reset, NEW A, A = Again
  PROVE  A \subseteq Batch /\ HeapReset(A) /\ SetsReset(A)
<1>. USE DEF Sound
<1>1. /\ heap' = [a \in Addrs |-> IF a \in Batch \ A THEN Free
                                  ELSE IF a \in A THEN restarted(heap[a]) ELSE heap[a]]
      /\ timers_' = timers_ \cup {<<restarted(heap[a]).when, a>> : a \in A}
      /\ activeTimers_' = activeTimers_ \cup {<<a, heap[a].seq>> : a \in A}
  BY DEF reset, Batch, Entry, ActiveTimer, Again
<1>2. A \subseteq Batch /\ Batch \subseteq Allocated /\ Allocated \subseteq Addrs
  BY DEF Again, Batch, OneOwner, Allocated
<1>3. ASSUME NEW b \in Allocated
      PROVE  /\ restarted(heap[b]) \in Timer /\ restarted(heap[b]) # Free
             /\ restarted(heap[b]).seq = heap[b].seq
             /\ restarted(heap[b]).interval = heap[b].interval
  <2>1. heap[b] \in Timer /\ heap[b].seq # 0 /\ heap[b].interval \in Nat
    BY <1>2, HeapCases DEF Timer
  <2>2. batchNow + heap[b].interval \in Nat
    BY <2>1 DEF TypeOK
  <2>3. restarted(heap[b]) = [heap[b] EXCEPT !.when = batchNow + heap[b].interval]
    BY DEF restarted
  <2>4. /\ restarted(heap[b]) \in Timer
        /\ restarted(heap[b]).seq = heap[b].seq
        /\ restarted(heap[b]).interval = heap[b].interval
    BY <2>1, <2>2, <2>3 DEF Timer
  <2>5. Free.seq = 0
    BY DEF Free
  <2>. QED BY <2>1, <2>4, <2>5
<1>4. heap' \in [Addrs -> Timer \cup {Free}]
  <2>1. ASSUME NEW a \in Addrs PROVE heap'[a] \in Timer \cup {Free}
    BY <1>1, <1>2, <1>3 DEF TypeOK
  <2>2. heap' = [a \in Addrs |-> heap'[a]]
    BY <1>1
  <2>. QED BY <2>1, <2>2
<1>5. \A a \in Addrs : /\ a \in Batch \ A => heap'[a] = Free
                       /\ a \in A => heap'[a] = restarted(heap[a])
                       /\ a \notin Batch => heap'[a] = heap[a]
  BY <1>1, <1>2
<1>6. Allocated' = Allocated \ (Batch \ A)
  BY <1>2, <1>3, <1>5 DEF Allocated
<1>7. /\ \A b \in Allocated' : heap'[b].seq = heap[b].seq /\ heap'[b].interval = heap[b].interval
      /\ \A b \in Allocated' \ A : heap'[b] = heap[b]
  BY <1>2, <1>3, <1>5, <1>6
<1>8. \A b \in A : heap[b].interval # 0 /\ <<b, heap[b].seq>> \notin cancelingTimers_
  <2>1. \A b \in A : heap[b].interval > 0 /\ <<b, heap[b].seq>> \notin cancelingTimers_
    BY DEF Again, Restarts, ActiveTimer
  <2>. QED BY <2>1
<1>9. timers_' = timers_ \cup {<<heap'[b].when, b>> : b \in A}
  BY <1>1, <1>2, <1>5
<1>10. activeTimers_' = activeTimers_ \cup {<<b, heap[b].seq>> : b \in A}
  BY <1>1
<1>11. HeapReset(A)
  BY <1>4, <1>6, <1>7, <1>8 DEF HeapReset
<1>12. SetsReset(A)
  BY <1>9, <1>10 DEF SetsReset
<1>. QED BY <1>2, <1>11, <1>12

LEMMA ResetInductive ==
  ASSUME TypeOK, Sound, reset
  PROVE  TypeOK' /\ Sound'
<1>. USE DEF Sound
<1>. PICK A : A = Again
  OBVIOUS
<1>1.      /\ A \subseteq Batch
           /\ heap' \in [Addrs -> Timer \cup {Free}]
           /\ Allocated' = Allocated \ (Batch \ A)
           /\ \A b \in Allocated' : heap'[b].seq = heap[b].seq /\ heap'[b].interval = heap[b].interval
           /\ \A b \in Allocated' \ A : heap'[b] = heap[b]
           /\ \A b \in A : heap[b].interval # 0 /\ <<b, heap[b].seq>> \notin cancelingTimers_
           /\ timers_' = timers_ \cup {<<heap'[b].when, b>> : b \in A}
           /\ activeTimers_' = activeTimers_ \cup {<<b, heap[b].seq>> : b \in A}
  BY ResetEffect DEF HeapReset, SetsReset
<1>2. /\ at = "batch" /\ toRun = {} /\ armed' = rearmed(timers_')
      /\ callingExpiredTimers_' = FALSE /\ expired' = {} /\ batchNow' = 0 /\ at' = "idle"
      /\ UNCHANGED <<now, created, cancelingTimers_, toRun, running, queue, other, ids, cancelled, ran>>
  BY DEF reset, userVars
<1>3. Queued' = Queued /\ Known' = Known /\ Waiting' = Waiting /\ Batch' = {}
  BY <1>2 DEF Queued, Known, Waiting, Batch
<1>4. A \subseteq Allocated' /\ A \subseteq Allocated /\ Allocated \subseteq Addrs
  BY <1>1 DEF OneOwner, Allocated
<1>5. \A b \in A : heap'[b].when \in Nat /\ heap[b].seq \in Nat /\ b \in Addrs
  <2>1. Free.seq = 0
    BY DEF Free
  <2>2. \A b \in A : heap'[b] \in Timer
    BY <1>1, <1>4 DEF Allocated
  <2>. QED BY <1>4, <2>2, HeapCases DEF Timer
<1>6. timers_' \subseteq Nat \X Addrs
  BY <1>1, <1>5 DEF TypeOK
<1>7. TypeOK'
  <2>1. armed' \in Int
    <3>1. timers_' # {} => First(timers_')[1] \in Nat
      BY <1>6, FirstProperties
    <3>. QED BY <1>2, <3>1 DEF TypeOK, rearmed, resetTimerfd
  <2>2. activeTimers_' \subseteq TimerIds
    BY <1>1, <1>5 DEF TypeOK, TimerIds
  <2>3. callingExpiredTimers_' = (at' # "idle")
    BY <1>2
  <2>. QED BY <1>1, <1>2, <1>6, <2>1, <2>2, <2>3 DEF TypeOK
<1>8. SeqInv'
  BY <1>1, <1>2 DEF SeqInv
<1>9. BatchInv'
  BY <1>2 DEF BatchInv
<1>10. \A e \in timers_ : e[2] \notin Batch /\ e[2] \in Allocated' /\ heap'[e[2]] = heap[e[2]]
  <2>1. \A e \in timers_ : e[2] \notin Batch /\ e[2] \in Allocated
    BY DEF OneOwner, Listed
  <2>. QED BY <1>1, <2>1
<1>11. SameTimers'
  <2>1. \A e \in timers_' : e[2] \in Allocated' /\ heap'[e[2]].when = e[1]
    <3>1. \A e \in timers_ : e[2] \in Allocated' /\ heap'[e[2]].when = e[1]
      BY <1>10 DEF SameTimers
    <3>2. \A b \in A : b \in Allocated'
      BY <1>4
    <3>3. ASSUME NEW b \in A, NEW e, e = <<heap'[b].when, b>>
          PROVE  e[2] \in Allocated' /\ heap'[e[2]].when = e[1]
      BY <3>2, <3>3
    <3>. QED BY <1>1, <3>1, <3>3
  <2>2. activeTimers_ = {<<e[2], heap[e[2]].seq>> : e \in timers_}
    BY DEF SameTimers, ActiveTimer
  <2>3. activeTimers_ = {<<e[2], heap'[e[2]].seq>> : e \in timers_}
    BY <1>10, <2>2
  <2>. DEFINE New == {<<heap'[b].when, b>> : b \in A}
  <2>4. \A b \in A : heap'[b].seq = heap[b].seq
    BY <1>1, <1>4
  <2>5. {<<e[2], heap'[e[2]].seq>> : e \in New} = {<<b, heap[b].seq>> : b \in A}
    <3>1. \A b \in A : <<heap'[b].when, b>>[2] = b
      OBVIOUS
    <3>2. \A b \in A : <<b, heap[b].seq>> = <<<<heap'[b].when, b>>[2], heap'[<<heap'[b].when, b>>[2]].seq>>
      BY <2>4, <3>1
    <3>3. ASSUME NEW e \in New PROVE <<e[2], heap'[e[2]].seq>> \in {<<b, heap[b].seq>> : b \in A}
      <4>1. PICK b \in A : e = <<heap'[b].when, b>>
        OBVIOUS
      <4>2. <<e[2], heap'[e[2]].seq>> = <<b, heap[b].seq>>
        BY <3>2, <4>1
      <4>. QED BY <4>2
    <3>4. ASSUME NEW b \in A PROVE <<b, heap[b].seq>> \in {<<e[2], heap'[e[2]].seq>> : e \in New}
      <4>1. <<heap'[b].when, b>> \in New
        OBVIOUS
      <4>. QED BY <3>2, <4>1
    <3>. HIDE DEF New
    <3>. QED BY <3>3, <3>4
  <2>6. activeTimers_' = {<<e[2], heap'[e[2]].seq>> : e \in timers_'}
    BY <1>1, <2>3, <2>5
  <2>. QED BY <2>1, <2>6 DEF SameTimers, ActiveTimer
<1>12. OneOwner'
  <2>1. Listed' = Listed \cup A
    <3>1. {e[2] : e \in {<<heap'[b].when, b>> : b \in A}} = A
      <4>1. \A b \in A : b = <<heap'[b].when, b>>[2]
        OBVIOUS
      <4>. QED BY <4>1
    <3>. QED BY <1>1, <3>1 DEF Listed
  <2>2. \A e, f \in timers_' : e[2] = f[2] => e = f
    <3>1. \A e \in timers_ : e[2] \notin A
      BY <1>1, <1>10
    <3>. QED BY <1>1, <3>1 DEF OneOwner
  <2>3. Allocated' = Waiting' \cup Listed' \cup Batch'
    BY <1>1, <1>3, <2>1 DEF OneOwner
  <2>4. Waiting' \cap Listed' = {}
    BY <1>1, <1>3, <2>1 DEF OneOwner
  <2>. QED BY <1>3, <2>2, <2>3, <2>4 DEF OneOwner
<1>13. QueueInv'
  <2>1. \A id \in Queued : id[1] \in Waiting /\ id[1] \in Allocated /\ heap[id[1]].seq = id[2]
    BY DEF QueueInv, Waiting
  <2>2. \A id \in Queued : id[1] \in Allocated' /\ heap'[id[1]].seq = id[2]
    BY <1>1, <2>1 DEF OneOwner
  <2>. QED BY <1>2, <1>3, <2>2 DEF QueueInv, IsAdd
<1>14. IdInv'
  BY <1>1, <1>2, <1>3 DEF IdInv
<1>15. \A b \in Allocated' : b \in Allocated /\ (b \in Batch => b \in A)
  BY <1>1
<1>16. RanInv'
  <2>1. ASSUME NEW b \in Allocated', heap[b].seq \in ran PROVE FALSE
    <3>1. b \in Allocated /\ b \in A /\ heap[b].interval = 0
      BY <1>15, <2>1 DEF RanInv
    <3>. QED BY <1>1, <3>1
  <2>. QED BY <1>1, <1>2, <2>1 DEF RanInv
<1>17. CancelInv'
  <2>1. ASSUME NEW b \in Allocated', heap[b].seq \in cancelled PROVE FALSE
    BY <1>1, <1>15, <2>1 DEF CancelInv
  <2>. QED BY <1>1, <1>2, <2>1 DEF CancelInv
<1>. QED BY <1>7, <1>8, <1>9, <1>11, <1>12, <1>13, <1>14, <1>16, <1>17
-----------------------------------------------------------------------------
(***************************************************************************)
(* The timerfd.                                                            *)
(***************************************************************************)
\* When a timerfd set at time n for expiration w fires at the latest.
Limit(w, n) == IF w > n THEN w ELSE n + 1

\* EarliestArmed, said of every timer instead of the first.
AllArmed == at = "idle" => \A e \in timers_ : armed # Never /\ armed <= Limit(e[1], now)

\* What holds of the first timer holds of all, and conversely.
LEMMA FirstLimit ==
  ASSUME NEW S \in SUBSET (Nat \X Addrs), S # {}, NEW n \in Nat, NEW k \in Int
  PROVE  /\ First(S)[1] \in Nat
         /\ (k <= Limit(First(S)[1], n)) <=> (\A e \in S : k <= Limit(e[1], n))
<1>1. First(S) \in S /\ \A f \in S : First(S)[1] <= f[1]
  BY FirstProperties
<1>2. First(S)[1] \in Nat /\ \A f \in S : f[1] \in Nat
  BY <1>1
<1>3. \A f \in S : Limit(First(S)[1], n) <= Limit(f[1], n) /\ Limit(f[1], n) \in Nat
  BY <1>1, <1>2 DEF Limit
<1>4. Limit(First(S)[1], n) \in Nat
  BY <1>2 DEF Limit
<1>. QED BY <1>1, <1>2, <1>3, <1>4

LEMMA ArmedForAll ==
  ASSUME TypeOK
  PROVE  EarliestArmed <=> AllArmed
<1>1. timers_ \in SUBSET (Nat \X Addrs) /\ now \in Nat /\ armed \in Int
  BY DEF TypeOK
<1>2. timers_ # {} => ((armed <= Limit(First(timers_)[1], now))
                         <=> (\A e \in timers_ : armed <= Limit(e[1], now)))
  BY <1>1, FirstLimit
<1>. QED BY <1>2 DEF EarliestArmed, AllArmed, Limit

LEMMA ResetTimerfd ==
  ASSUME TypeOK, NEW w \in Nat
  PROVE  resetTimerfd(w) = Limit(w, now) /\ resetTimerfd(w) # Never
BY DEF TypeOK, resetTimerfd, Limit, Never

\* A new timer: the timerfd is set again exactly if the timer is the earliest.
LEMMA AddArms ==
  ASSUME TypeOK, AllArmed, NEW a \in Addrs, NEW t, t.when \in Nat, addTimerInLoop(a, t),
         UNCHANGED <<now, at>>
  PROVE  AllArmed'
<1>. SUFFICES ASSUME at = "idle", NEW e \in timers_'
              PROVE  armed' # Never /\ armed' <= Limit(e[1], now)
  BY DEF AllArmed
<1>1. /\ timers_' = timers_ \cup {<<t.when, a>>}
      /\ armed' = IF earliestChanged(t.when) THEN resetTimerfd(t.when) ELSE armed
  BY DEF addTimerInLoop, Entry
<1>2. e[1] = t.when \/ e \in timers_
  BY <1>1
<1>3. \A f \in timers_ : f[1] \in Nat /\ First(timers_)[1] <= f[1] /\ First(timers_)[1] \in Nat
  BY FirstProperties DEF TypeOK
<1>4. CASE earliestChanged(t.when)
  <2>1. armed' = Limit(t.when, now) /\ armed' # Never
    BY <1>1, <1>4, ResetTimerfd
  <2>2. e[1] \in Nat /\ t.when <= e[1]
    BY <1>2, <1>3, <1>4 DEF earliestChanged
  <2>. QED BY <2>1, <2>2 DEF Limit, TypeOK
<1>5. CASE ~earliestChanged(t.when)
  <2>1. armed' = armed /\ timers_ # {} /\ ~(t.when < First(timers_)[1])
    BY <1>1, <1>5 DEF earliestChanged
  <2>2. First(timers_) \in timers_
    BY <2>1, FirstProperties DEF TypeOK
  <2>3. armed # Never /\ armed <= Limit(First(timers_)[1], now)
    BY <2>2 DEF AllArmed
  <2>4. First(timers_)[1] \in Nat /\ e[1] \in Nat /\ First(timers_)[1] <= e[1]
    BY <1>2, <1>3, <2>1, <2>2
  <2>. QED BY <2>1, <2>3, <2>4 DEF Limit, TypeOK
<1>. QED BY <1>4, <1>5

\* The end of reset: the timerfd is set for the first timer.
LEMMA ResetArms ==
  ASSUME TypeOK, TypeOK', reset
  PROVE  AllArmed'
<1>1. armed' = rearmed(timers_') /\ now' = now
  BY DEF reset
<1>2. timers_' \in SUBSET (Nat \X Addrs) /\ now \in Nat /\ armed' \in Int
  BY DEF TypeOK
<1>. SUFFICES ASSUME timers_' # {}
              PROVE  armed' # Never /\ \A e \in timers_' : armed' <= Limit(e[1], now)
  BY <1>1 DEF AllArmed
<1>3. First(timers_')[1] \in Nat
  BY <1>2, FirstLimit
<1>4. armed' = Limit(First(timers_')[1], now) /\ armed' # Never
  BY <1>1, <1>3, ResetTimerfd DEF rearmed
<1>5. armed' <= Limit(First(timers_')[1], now)
  BY <1>2, <1>4
<1>. QED BY <1>2, <1>4, <1>5, FirstLimit

LEMMA CancelShrinks ==
  ASSUME TypeOK, Sound, NEW id \in Known, cancelInLoop(id)
  PROVE  timers_' \subseteq timers_
<1>1. CASE id \in activeTimers_
  BY <1>1, CancelListed
<1>2. CASE id \notin activeTimers_
  <2>1. found(id) = {}
    BY <1>2 DEF found
  <2>. QED BY <2>1 DEF cancelInLoop
<1>. QED BY <1>1, <1>2

LEMMA ArmedInductive ==
  ASSUME TypeOK, Sound, TypeOK', AllArmed, [Next]_vars
  PROVE  AllArmed'
<1>. USE DEF setVars, batchVars, userVars
<1>1. ASSUME timers_' \subseteq timers_, UNCHANGED <<now, at, armed>> PROVE AllArmed'
  BY <1>1 DEF AllArmed
<1>2. CASE UNCHANGED vars
  BY <1>1, <1>2 DEF vars
<1>3. CASE handleRead \/ run \/ runReturns
  BY <1>3 DEF handleRead, run, runReturns, AllArmed
<1>4. CASE reset
  BY <1>4, ResetArms
<1>5. ASSUME NEW a \in Addrs, NEW t \in NewTimers, addTimer(a, t) PROVE AllArmed'
  <2>1. t.when \in Nat
    <3>1. t.when \in 1..MaxTime
      BY DEF NewTimers
    <3>. QED BY <3>1
  <2>. QED BY <1>5, <2>1, AddArms DEF addTimer
<1>6. ASSUME NEW a \in Addrs, NEW t \in NewTimers, otherAdds(a, t) PROVE AllArmed'
  BY <1>1, <1>6 DEF otherAdds
<1>7. ASSUME NEW id \in ids, cancel(id) PROVE AllArmed'
  <2>1. id \in Known
    BY DEF Known
  <2>2. timers_' \subseteq timers_
    BY <1>7, <2>1, CancelShrinks DEF cancel
  <2>. QED BY <1>1, <1>7, <2>2 DEF cancel
<1>8. ASSUME NEW id \in ids, otherCancels(id) PROVE AllArmed'
  BY <1>1, <1>8 DEF otherCancels
<1>9. CASE otherReturns
  BY <1>1, <1>9 DEF otherReturns
<1>10. CASE callAddTimerInLoop
  <2>. PICK a : a = Head(queue).id[1]
    OBVIOUS
  <2>1. addTimerInLoop(a, heap[a]) /\ UNCHANGED <<now, at>>
    BY <1>10 DEF callAddTimerInLoop
  <2>2. a \in Addrs /\ heap[a].when \in Nat
    <3>1. a \in Waiting
      <4>1. Queued = Queued' \cup {Head(queue).id}
        <5>1. AddsDiffer
          BY DEF Sound, QueueInv, AddsDiffer
        <5>. QED BY <1>10, <5>1, TailQueue DEF callAddTimerInLoop
      <4>. QED BY <4>1 DEF Waiting
    <3>2. a \in Allocated /\ a \in Addrs
      BY <3>1 DEF Sound, OneOwner, Allocated
    <3>. QED BY <3>2, HeapCases DEF Timer
  <2>. QED BY <2>1, <2>2, AddArms
<1>11. CASE callCancelInLoop
  <2>1. timers_' \subseteq timers_
    BY <1>11, CallCancelInductive, CancelShrinks DEF callCancelInLoop
  <2>. QED BY <1>1, <1>11, <2>1 DEF callCancelInLoop
<1>12. CASE tick
  <2>1. now' = now + 1 /\ UNCHANGED <<timers_, at, armed>>
    BY <1>12 DEF tick
  <2>2. \A e \in timers_ : Limit(e[1], now) <= Limit(e[1], now') /\ Limit(e[1], now) \in Nat
                            /\ Limit(e[1], now') \in Nat
    BY <2>1 DEF Limit, TypeOK
  <2>. QED BY <2>1, <2>2, SMTT(60) DEF AllArmed, TypeOK
<1>. QED BY <1>2, <1>3, <1>4, <1>5, <1>6, <1>7, <1>8, <1>9, <1>10, <1>11, <1>12 DEF Next
-----------------------------------------------------------------------------
(***************************************************************************)
(* The inductive invariant.                                                *)
(***************************************************************************)
LEMMA InitSound ==
  ASSUME Init
  PROVE  IInv
<1>. USE DEF Init
<1>1. TypeOK
  <2>1. heap \in [Addrs -> Timer \cup {Free}]
    OBVIOUS
  <2>2. queue \in Seq(Functors) /\ Len(queue) = 0 /\ other \in Seq(TimerIds)
    OBVIOUS
  <2>3. now \in 1..MaxTime
    OBVIOUS
  <2>4. callingExpiredTimers_ = (at # "idle")
    OBVIOUS
  <2>5. armed \in Int /\ created \in 0..MaxTimers /\ Len(queue) <= MaxQueue
    BY <2>2 DEF Never
  <2>6. timers_ = {} /\ activeTimers_ = {} /\ cancelingTimers_ = {} /\ expired = {} /\ toRun = {}
        /\ ids = {} /\ cancelled = {} /\ ran = {} /\ batchNow = 0 /\ running = 0 /\ at = "idle"
    OBVIOUS
  <2>. QED BY ONLY <2>1, <2>2, <2>3, <2>4, <2>5, <2>6 DEF TypeOK
<1>2. Allocated = {} /\ Queued = {} /\ Known = {} /\ Listed = {} /\ Batch = {}
  BY DEF Allocated, Queued, Known, Listed, Batch
<1>3. Waiting = {}
  BY <1>2 DEF Waiting
<1>4. SeqInv /\ BatchInv /\ SameTimers
  BY <1>2 DEF SeqInv, BatchInv, SameTimers
<1>5. OneOwner /\ QueueInv /\ IdInv /\ RanInv /\ CancelInv /\ EarliestArmed
  BY <1>2, <1>3 DEF OneOwner, QueueInv, IdInv, RanInv, CancelInv, EarliestArmed
<1>. QED BY <1>1, <1>4, <1>5 DEF IInv

LEMMA NextSound ==
  ASSUME TypeOK, Sound, [Next]_vars
  PROVE  TypeOK' /\ Sound'
<1>1. CASE UNCHANGED vars
  <2>1. UNCHANGED <<now, heap, created, timers_, activeTimers_, cancelingTimers_,
                    callingExpiredTimers_, armed, at, batchNow, expired, toRun, running, queue,
                    other, ids, cancelled, ran>>
    BY <1>1 DEF vars, setVars, batchVars, userVars
  <2>2. TypeOK'
    BY <2>1 DEF TypeOK
  <2>3. Queued' = Queued
    BY <2>1 DEF Queued
  <2>4. SeqInv' /\ BatchInv' /\ SameTimers' /\ OneOwner' /\ RanInv' /\ CancelInv'
    BY <2>1, <2>3, OthersUnchanged DEF setVars
  <2>5. QueueInv' /\ IdInv'
    BY <2>1, UserUnchanged
  <2>. QED BY <2>2, <2>4, <2>5 DEF Sound
<1>2. ASSUME NEW a \in Addrs, NEW t \in NewTimers, addTimer(a, t) \/ otherAdds(a, t)
      PROVE  TypeOK' /\ Sound'
  BY <1>2, AddInductive, OtherAddsInductive
<1>3. ASSUME NEW id \in ids, cancel(id) \/ otherCancels(id) PROVE TypeOK' /\ Sound'
  BY <1>3, CancelNowInductive, OtherCancelsInductive
<1>. QED BY <1>1, <1>2, <1>3, HandleReadInductive, RunInductive, IdleInductive, ResetInductive,
            OtherReturnsInductive, CallAddInductive, CallCancelInductive DEF Next

(***************************************************************************)
(* Inductive: the invariant of TimerQueue holds for every heap, every      *)
(* number of timers, every bound on time and on the functors queued.       *)
(***************************************************************************)
THEOREM Inductive == Spec => []IInv
<1>1. Init => IInv
  BY InitSound
<1>2. IInv /\ [Next]_vars => IInv'
  <2>. SUFFICES ASSUME IInv, [Next]_vars PROVE IInv'
    OBVIOUS
  <2>1. TypeOK /\ Sound /\ EarliestArmed
    BY DEF IInv, Sound
  <2>2. TypeOK' /\ Sound'
    BY <2>1, NextSound
  <2>3. AllArmed
    BY <2>1, ArmedForAll
  <2>4. AllArmed'
    BY <2>1, <2>2, <2>3, ArmedInductive
  <2>5. (TypeOK => (EarliestArmed <=> AllArmed))'
    BY ArmedForAll, PTL
  <2>6. EarliestArmed'
    BY <2>2, <2>4, <2>5
  <2>. QED BY <2>2, <2>6 DEF IInv, Sound
<1>. QED BY <1>1, <1>2, PTL DEF Spec

(***************************************************************************)
(* Typed: the state keeps its types; in particular callingExpiredTimers_  *)
(* is set in handleRead and nowhere else, and only sequences that were     *)
(* given out are in ran and cancelled.                                     *)
(***************************************************************************)
THEOREM Typed == Spec => []TypeOK
<1>1. IInv => TypeOK
  BY DEF IInv
<1>. QED BY <1>1, Inductive, PTL

(***************************************************************************)
(* SetsAgree: timers_ and activeTimers_ hold the same timers after every   *)
(* insert, cancelInLoop, getExpired and reset, as their assertions say,    *)
(* and none of them was deleted.                                           *)
(***************************************************************************)
THEOREM SetsAgree == Spec => []SameTimers
<1>1. IInv => SameTimers
  BY DEF IInv
<1>. QED BY <1>1, Inductive, PTL

(***************************************************************************)
(* OwnedOnce: every Timer on the heap is in exactly one place, the sets, a *)
(* functor or the batch of handleRead, so that none leaks and none is      *)
(* deleted twice, whoever cancels it and whatever reuses its address.      *)
(***************************************************************************)
THEOREM OwnedOnce == Spec => []OneOwner
<1>1. IInv => OneOwner
  BY DEF IInv
<1>. QED BY <1>1, Inductive, PTL

(***************************************************************************)
(* ArmedForEarliest: outside handleRead the timerfd fires no later than   *)
(* the earliest timer expires, or a tick from now if that is past, after   *)
(* every addTimerInLoop, cancelInLoop and reset: no timer is forgotten.    *)
(***************************************************************************)
THEOREM ArmedForEarliest == Spec => []EarliestArmed
<1>1. IInv => EarliestArmed
  BY DEF IInv
<1>. QED BY <1>1, Inductive, PTL

(***************************************************************************)
(* A callback starts only in run; the timer called is the next of the      *)
(* batch, which BatchInv, RanInv and CancelInv speak of.                   *)
(***************************************************************************)
LEMMA OnlyRunStarts ==
  ASSUME TypeOK, Sound, [Next]_vars, NEW s, Starts(s)
  PROVE  run /\ s # 0
<1>. USE DEF setVars, batchVars, userVars
<1>1. at = "batch" /\ running = 0 /\ running' # running /\ s # 0
  BY DEF Starts, Sound, BatchInv
<1>2. ASSUME NEW a \in Addrs, NEW t \in NewTimers, addTimer(a, t) \/ otherAdds(a, t) PROVE FALSE
  BY <1>1, <1>2 DEF addTimer, otherAdds
<1>3. ASSUME NEW id \in ids, cancel(id) \/ otherCancels(id) PROVE FALSE
  BY <1>1, <1>3 DEF cancel, otherCancels
<1>4. CASE handleRead \/ runReturns \/ reset \/ otherReturns \/ tick \/ UNCHANGED vars
  BY <1>1, <1>4 DEF handleRead, runReturns, reset, otherReturns, tick, vars
<1>5. CASE callAddTimerInLoop \/ callCancelInLoop
  BY <1>1, <1>5 DEF callAddTimerInLoop, callCancelInLoop
<1>. QED BY <1>1, <1>2, <1>3, <1>4, <1>5 DEF Next

(***************************************************************************)
(* Calls: a callback is called when it is due, a one-shot timer once, and  *)
(* a cancelled timer only in the batch that it was in when it was          *)
(* cancelled (handleRead, cancelInLoop).                                   *)
(***************************************************************************)
THEOREM Calls == Spec => CallsLegal
<1>. DEFINE Legal ==
       /\ \A a \in Addrs : Starts(heap[a].seq) => heap[a].when <= now
       /\ \A s \in ran : ~Starts(s)
       /\ \A s \in cancelled : Starts(s) => \E e \in toRun : <<e[2], s>> \in cancelingTimers_
<1>1. IInv /\ [Next]_vars => [Legal]_vars
  <2>. SUFFICES ASSUME IInv, [Next]_vars PROVE Legal
    OBVIOUS
  <2>1. TypeOK /\ Sound
    BY DEF IInv, Sound
  <2>2. ASSUME NEW s, Starts(s)
        PROVE  \E e \in toRun :
                 /\ e[2] \in Allocated /\ heap[e[2]].seq = s /\ heap[e[2]].when <= now
                 /\ s # 0
    <3>1. run /\ s # 0
      BY <2>1, <2>2, OnlyRunStarts
    <3>. QED BY <2>1, <2>2, <3>1, RunNext DEF Starts
  <2>3. ASSUME NEW a \in Addrs, Starts(heap[a].seq) PROVE heap[a].when <= now
    <3>1. PICK e \in toRun : /\ e[2] \in Allocated /\ heap[e[2]].seq = heap[a].seq
                             /\ heap[e[2]].when <= now /\ heap[a].seq # 0
      BY <2>2, <2>3
    <3>2. a \in Allocated
      BY <2>1, <3>1, HeapCases
    <3>. QED BY <2>1, <3>1, <3>2 DEF Sound, SeqInv
  <2>4. ASSUME NEW s \in ran, Starts(s) PROVE FALSE
    BY <2>1, <2>2, <2>4 DEF Sound, RanInv
  <2>5. ASSUME NEW s \in cancelled, Starts(s)
        PROVE  \E e \in toRun : <<e[2], s>> \in cancelingTimers_
    BY <2>1, <2>2, <2>5 DEF Sound, CancelInv
  <2>. QED BY <2>3, <2>4, <2>5
<1>. QED BY <1>1, Inductive, PTL DEF Spec, CallsLegal

\* cancelInLoop removes the timer its TimerId names, and no other.
LEMMA CancelRemoves ==
  ASSUME TypeOK, Sound, NEW id \in Known, cancelInLoop(id), NEW e \in activeTimers_ \ activeTimers_'
  PROVE  e[2] \in cancelled'
<1>1. CASE id \in activeTimers_
  <2>1. PICK f \in timers_ : id = <<f[2], heap[f[2]].seq>> /\ activeTimers_' = activeTimers_ \ {id}
    BY <1>1, CancelListed
  <2>2. e = id /\ f[2] \in Listed
    BY <2>1 DEF Listed
  <2>3. id \notin Queued
    <3>1. f[2] \notin Waiting
      BY <2>2 DEF Sound, OneOwner
    <3>. QED BY <2>1, <3>1 DEF Waiting
  <2>. QED BY <2>2, <2>3 DEF cancelInLoop
<1>2. CASE id \notin activeTimers_
  <2>1. found(id) = {}
    BY <1>2 DEF found
  <2>. QED BY <2>1 DEF cancelInLoop
<1>. QED BY <1>1, <1>2

(***************************************************************************)
(* Removals: a timer leaves the sets only into the batch of handleRead or  *)
(* because the TimerId of that very timer was cancelled, even if a stale   *)
(* TimerId names an address that is in use again.                          *)
(***************************************************************************)
THEOREM Removals == Spec => OnlyCancelledVanish
<1>. DEFINE Vanish == \A e \in activeTimers_ \ activeTimers_' : e[2] \in cancelled' \/ at' = "batch"
<1>1. IInv /\ [Next]_vars => [Vanish]_vars
  <2>. USE DEF setVars, batchVars, userVars
  <2>. SUFFICES ASSUME IInv, [Next]_vars, NEW e \in activeTimers_ \ activeTimers_', at' # "batch"
                PROVE  e[2] \in cancelled'
    OBVIOUS
  <2>1. TypeOK /\ Sound
    BY DEF IInv, Sound
  <2>2. ASSUME NEW a \in Addrs, NEW t \in NewTimers, addTimer(a, t) \/ otherAdds(a, t) PROVE FALSE
    BY <2>2 DEF addTimer, otherAdds, addTimerInLoop
  <2>3. ASSUME NEW id \in ids, cancel(id) PROVE e[2] \in cancelled'
    BY <2>1, <2>3, CancelRemoves DEF Known, cancel
  <2>4. ASSUME NEW id \in ids, otherCancels(id) PROVE FALSE
    BY <2>4 DEF otherCancels
  <2>5. CASE handleRead \/ run \/ runReturns \/ reset \/ otherReturns \/ tick \/ UNCHANGED vars
    BY <2>5 DEF handleRead, run, runReturns, reset, otherReturns, tick, vars
  <2>6. CASE callAddTimerInLoop
    BY <2>6 DEF callAddTimerInLoop, addTimerInLoop
  <2>7. CASE callCancelInLoop
    BY <2>1, <2>7, CallCancelInductive, CancelRemoves DEF callCancelInLoop
  <2>. QED BY <2>2, <2>3, <2>4, <2>5, <2>6, <2>7 DEF Next
<1>. QED BY <1>1, Inductive, PTL DEF Spec, OnlyCancelledVanish
=============================================================================
