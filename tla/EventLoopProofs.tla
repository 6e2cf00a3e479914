-------------------------- MODULE EventLoopProofs --------------------------
(***************************************************************************)
(* Proofs about EventLoop, for every set of threads and channels and every *)
(* bound.                                                                  *)
(***************************************************************************)
EXTENDS EventLoop, SequenceTheorems, TLAPS

USE DEF Locations, UserCode

-----------------------------------------------------------------------------
(***************************************************************************)
(* Sequences.                                                              *)
(***************************************************************************)
\* A non-empty sequence is its head before its tail.
LEMMA HeadBeforeTail ==
  ASSUME NEW S, NEW f \in Seq(S), f # <<>>
  PROVE  /\ Head(f) \in S /\ Tail(f) \in Seq(S)
         /\ <<Head(f)>> \o Tail(f) = f
<1>1. Head(f) \in S /\ Tail(f) \in Seq(S) /\ Len(Tail(f)) = Len(f) - 1
  BY HeadTailProperties
<1>2. \A i \in 1..Len(Tail(f)) : Tail(f)[i] = f[i + 1]
  BY HeadTailProperties
<1>3. Len(f) \in Nat /\ Len(f) > 0 /\ Head(f) = f[1]
  BY EmptySeq, LenProperties
<1>4. <<Head(f)>> \in Seq(S) /\ Len(<<Head(f)>>) = 1 /\ <<Head(f)>>[1] = Head(f)
  BY <1>1
<1>5. /\ <<Head(f)>> \o Tail(f) \in Seq(S)
      /\ Len(<<Head(f)>> \o Tail(f)) = 1 + (Len(f) - 1)
      /\ \A i \in 1..Len(f) : (<<Head(f)>> \o Tail(f))[i]
                                 = IF i <= 1 THEN <<Head(f)>>[i] ELSE Tail(f)[i - 1]
  BY <1>1, <1>3, <1>4, ConcatProperties
<1>6. \A i \in 1..Len(f) : (<<Head(f)>> \o Tail(f))[i] = f[i]
  BY <1>1, <1>2, <1>3, <1>4, <1>5
<1>. QED BY <1>1, <1>3, <1>5, <1>6, SeqEqual

\* The first functor of a batch may be moved behind the executed ones.
LEMMA MoveHead ==
  ASSUME NEW S, NEW e \in Seq(S), NEW f \in Seq(S), f # <<>>
  PROVE  Append(e, Head(f)) \o Tail(f) = e \o f
<1>1. Head(f) \in S /\ Tail(f) \in Seq(S) /\ <<Head(f)>> \o Tail(f) = f
  BY HeadBeforeTail
<1>2. Append(e, Head(f)) = e \o <<Head(f)>> /\ <<Head(f)>> \in Seq(S)
  BY <1>1, AppendIsConcat
<1>. QED BY <1>1, <1>2, ConcatAssociative, SMTT(60)

\* Appending to the last of two sequences appends to the whole.
LEMMA AppendRight ==
  ASSUME NEW S, NEW s \in Seq(S), NEW p \in Seq(S), NEW x \in S
  PROVE  s \o Append(p, x) = Append(s \o p, x)
<1>1. Append(p, x) = p \o <<x>> /\ <<x>> \in Seq(S)
  BY AppendIsConcat
<1>2. s \o p \in Seq(S)
  BY ConcatProperties
<1>3. Append(s \o p, x) = (s \o p) \o <<x>>
  BY <1>2, AppendIsConcat
<1>. QED BY <1>1, <1>3, ConcatAssociative

\* Counting one further.
LEMMA CountOn ==
  ASSUME NEW n \in Nat
  PROVE  Append([k \in 1..n |-> k], n + 1) = [k \in 1..(n + 1) |-> k]
<1>1. [k \in 1..n |-> k] \in Seq(Nat) /\ Len([k \in 1..n |-> k]) = n
  OBVIOUS
<1>2. [k \in 1..(n + 1) |-> k] \in Seq(Nat) /\ Len([k \in 1..(n + 1) |-> k]) = n + 1
  OBVIOUS
<1>3. /\ Append([k \in 1..n |-> k], n + 1) \in Seq(Nat)
      /\ Len(Append([k \in 1..n |-> k], n + 1)) = n + 1
      /\ \A i \in 1..n : Append([k \in 1..n |-> k], n + 1)[i] = [k \in 1..n |-> k][i]
      /\ Append([k \in 1..n |-> k], n + 1)[n + 1] = n + 1
  BY <1>1, AppendProperties
<1>4. \A i \in 1..(n + 1) :
         Append([k \in 1..n |-> k], n + 1)[i] = [k \in 1..(n + 1) |-> k][i]
  BY <1>3
<1>. QED BY <1>2, <1>3, <1>4, SeqEqual

\* The head and the tail of a concatenation whose first part is not empty.
LEMMA HeadTailConcat ==
  ASSUME NEW S, NEW f \in Seq(S), NEW p \in Seq(S), f # <<>>
  PROVE  /\ f \o p # <<>>
         /\ Head(f \o p) = Head(f)
         /\ Tail(f \o p) = Tail(f) \o p
<1>1. /\ f \o p \in Seq(S)
      /\ Len(f \o p) = Len(f) + Len(p)
      /\ \A i \in 1..Len(f) + Len(p) :
            (f \o p)[i] = IF i <= Len(f) THEN f[i] ELSE p[i - Len(f)]
  BY ConcatProperties
<1>2. Len(f) \in Nat /\ Len(f) > 0 /\ Len(p) \in Nat
  BY EmptySeq, LenProperties
<1>3. f \o p # <<>> /\ Head(f \o p) = Head(f)
  BY <1>1, <1>2, EmptySeq
<1>4. /\ Tail(f) \in Seq(S) /\ Len(Tail(f)) = Len(f) - 1
      /\ \A i \in 1..(Len(f) - 1) : Tail(f)[i] = f[i + 1]
  BY HeadTailProperties
<1>5. /\ Tail(f \o p) \in Seq(S) /\ Len(Tail(f \o p)) = Len(f) + Len(p) - 1
      /\ \A i \in 1..(Len(f) + Len(p) - 1) : Tail(f \o p)[i] = (f \o p)[i + 1]
  BY <1>1, <1>3, HeadTailProperties
<1>6. /\ Tail(f) \o p \in Seq(S) /\ Len(Tail(f) \o p) = Len(f) - 1 + Len(p)
      /\ \A i \in 1..(Len(f) - 1 + Len(p)) :
            (Tail(f) \o p)[i] = IF i <= Len(f) - 1 THEN Tail(f)[i] ELSE p[i - (Len(f) - 1)]
  BY <1>2, <1>4, ConcatProperties
<1>7. \A i \in 1..(Len(f) + Len(p) - 1) : Tail(f \o p)[i] = (Tail(f) \o p)[i]
  BY <1>1, <1>2, <1>4, <1>5, <1>6
<1>. QED BY <1>2, <1>3, <1>5, <1>6, <1>7, SeqEqual
-----------------------------------------------------------------------------
(***************************************************************************)
(* Types.                                                                  *)
(***************************************************************************)
LEMMA TypeInit ==
  ASSUME Init
  PROVE  TypeOK
<1>1. <<>> \in Seq(1..MaxFunctors)
  OBVIOUS
<1>2. 0 \in 0..MaxFunctors
  BY BoundAssumption
<1>. QED BY <1>1, <1>2 DEF Init, TypeOK

LEMMA TypeInductive ==
  ASSUME TypeOK, [Next]_vars
  PROVE  TypeOK'
<1>. USE BoundAssumption DEF TypeOK
<1>1. CASE loop
  BY <1>1 DEF loop, loopVars, eventVars, queueVars
<1>2. CASE WhileTest
  BY <1>2 DEF WhileTest, loopVars, eventVars, queueVars
<1>3. CASE pollWoken
  BY <1>3 DEF pollWoken, polled, loopVars, eventVars, queueVars
<1>4. CASE pollIo
  BY <1>4 DEF pollIo, polled, loopVars, eventVars, queueVars
<1>5. CASE pollTimeout
  BY <1>5 DEF pollTimeout, polled, loopVars, eventVars, queueVars
<1>6. ASSUME NEW c \in Channels \cup {Wakeup}, handleEvent(c) PROVE TypeOK'
  BY <1>6 DEF handleEvent, handleRead, loopVars, eventVars, queueVars
<1>7. CASE callbackReturn
  BY <1>7 DEF callbackReturn, loopVars, eventVars, queueVars
<1>8. CASE eventsDone
  BY <1>8 DEF eventsDone, loopVars, eventVars, queueVars
<1>9. CASE doPendingFunctors
  BY <1>9 DEF doPendingFunctors, swappedOut, loopVars, eventVars, queueVars
<1>10. CASE callFunctor
  BY <1>10 DEF callFunctor, loopVars, eventVars, queueVars
<1>11. CASE functorReturn
  BY <1>11 DEF functorReturn, loopVars, eventVars, queueVars
<1>12. CASE functorsDone
  BY <1>12 DEF functorsDone, loopVars, eventVars, queueVars
<1>13. CASE ownerQueueInLoop
  BY <1>13 DEF ownerQueueInLoop, push, NeedsWakeup, loopVars, eventVars, queueVars
<1>14. CASE ownerQuit
  BY <1>14 DEF ownerQuit, loopVars, eventVars, queueVars
<1>15. ASSUME NEW c \in Channels, updateChannel(c) PROVE TypeOK'
  BY <1>15 DEF updateChannel, loopVars, eventVars, queueVars
<1>16. ASSUME NEW c \in Channels, removeChannel(c) PROVE TypeOK'
  BY <1>16 DEF removeChannel, MayRemove, loopVars, eventVars, queueVars
<1>17. ASSUME NEW t \in Threads, queueInLoop(t) PROVE TypeOK'
  BY <1>17 DEF queueInLoop, push, NeedsWakeup, loopVars, eventVars, queueVars
<1>18. ASSUME NEW t \in Threads, wakeup(t) PROVE TypeOK'
  BY <1>18 DEF wakeup, loopVars, eventVars, queueVars
<1>19. ASSUME NEW t \in Threads, quit(t) PROVE TypeOK'
  BY <1>19 DEF quit, afterQuit, loopVars, eventVars, queueVars
<1>20. CASE UNCHANGED vars
  BY <1>20 DEF vars, loopVars, eventVars, queueVars, loopVars, eventVars, queueVars
<1>. QED
  BY <1>1, <1>2, <1>3, <1>4, <1>5, <1>6, <1>7, <1>8, <1>9, <1>10, <1>11, <1>12, <1>13, <1>14, <1>15, <1>16, <1>17, <1>18, <1>19, <1>20 DEF Next, OwnerRuns, OwnerCalls

(***************************************************************************)
(* TypeCorrect: the variables of EventLoop keep their types; in particular *)
(* whatever doPendingFunctors calls was queued before.                     *)
(***************************************************************************)
THEOREM TypeCorrect == Spec => []TypeOK
<1>1. Init => TypeOK
  BY TypeInit
<1>2. TypeOK /\ [Next]_vars => TypeOK'
  BY TypeInductive
<1>. QED BY <1>1, <1>2, PTL DEF Spec
-----------------------------------------------------------------------------
(***************************************************************************)
(* The other parts of the invariant, each preserved by every step.         *)
(***************************************************************************)
LEMMA PlacesInductive ==
  ASSUME TypeOK, Places, [Next]_vars
  PROVE  Places'
<1>. USE DEF TypeOK, Places
<1>1. CASE loop
  BY <1>1 DEF loop, loopVars, eventVars, queueVars
<1>2. CASE WhileTest
  BY <1>2 DEF WhileTest, loopVars, eventVars, queueVars
<1>3. CASE pollWoken
  BY <1>3 DEF pollWoken, polled, loopVars, eventVars, queueVars
<1>4. CASE pollIo
  BY <1>4 DEF pollIo, polled, loopVars, eventVars, queueVars
<1>5. CASE pollTimeout
  BY <1>5 DEF pollTimeout, polled, loopVars, eventVars, queueVars
<1>6. ASSUME NEW c \in Channels \cup {Wakeup}, handleEvent(c) PROVE Places'
  BY <1>6 DEF handleEvent, handleRead, loopVars, eventVars, queueVars
<1>7. CASE callbackReturn
  BY <1>7 DEF callbackReturn, loopVars, eventVars, queueVars
<1>8. CASE eventsDone
  BY <1>8 DEF eventsDone, loopVars, eventVars, queueVars
<1>9. CASE doPendingFunctors
  BY <1>9 DEF doPendingFunctors, swappedOut, loopVars, eventVars, queueVars
<1>10. CASE callFunctor
  BY <1>10 DEF callFunctor, loopVars, eventVars, queueVars
<1>11. CASE functorReturn
  BY <1>11 DEF functorReturn, loopVars, eventVars, queueVars
<1>12. CASE functorsDone
  BY <1>12 DEF functorsDone, loopVars, eventVars, queueVars
<1>13. CASE ownerQueueInLoop
  BY <1>13 DEF ownerQueueInLoop, push, NeedsWakeup, loopVars, eventVars, queueVars
<1>14. CASE ownerQuit
  BY <1>14 DEF ownerQuit, loopVars, eventVars, queueVars
<1>15. ASSUME NEW c \in Channels, updateChannel(c) PROVE Places'
  BY <1>15 DEF updateChannel, loopVars, eventVars, queueVars
<1>16. ASSUME NEW c \in Channels, removeChannel(c) PROVE Places'
  BY <1>16 DEF removeChannel, MayRemove, loopVars, eventVars, queueVars
<1>17. ASSUME NEW t \in Threads, queueInLoop(t) PROVE Places'
  BY <1>17 DEF queueInLoop, push, NeedsWakeup, loopVars, eventVars, queueVars
<1>18. ASSUME NEW t \in Threads, wakeup(t) PROVE Places'
  BY <1>18 DEF wakeup, loopVars, eventVars, queueVars
<1>19. ASSUME NEW t \in Threads, quit(t) PROVE Places'
  BY <1>19 DEF quit, afterQuit, loopVars, eventVars, queueVars
<1>20. CASE UNCHANGED vars
  BY <1>20 DEF vars, loopVars, eventVars, queueVars
<1>. QED
  BY <1>1, <1>2, <1>3, <1>4, <1>5, <1>6, <1>7, <1>8, <1>9, <1>10, <1>11, <1>12, <1>13, <1>14, <1>15, <1>16, <1>17, <1>18, <1>19, <1>20 DEF Next, OwnerRuns, OwnerCalls

LEMMA QuitInductive ==
  ASSUME TypeOK, NoLostQuit, [Next]_vars
  PROVE  NoLostQuit'
<1>. USE DEF TypeOK, NoLostQuit, Signalled
<1>1. CASE loop
  BY <1>1 DEF loop, loopVars, eventVars, queueVars
<1>2. CASE WhileTest
  BY <1>2 DEF WhileTest, loopVars, eventVars, queueVars
<1>3. CASE pollWoken
  BY <1>3 DEF pollWoken, polled, loopVars, eventVars, queueVars
<1>4. CASE pollIo
  BY <1>4 DEF pollIo, polled, loopVars, eventVars, queueVars
<1>5. CASE pollTimeout
  BY <1>5 DEF pollTimeout, polled, loopVars, eventVars, queueVars
<1>6. ASSUME NEW c \in Channels \cup {Wakeup}, handleEvent(c) PROVE NoLostQuit'
  BY <1>6 DEF handleEvent, handleRead, loopVars, eventVars, queueVars
<1>7. CASE callbackReturn
  BY <1>7 DEF callbackReturn, loopVars, eventVars, queueVars
<1>8. CASE eventsDone
  BY <1>8 DEF eventsDone, loopVars, eventVars, queueVars
<1>9. CASE doPendingFunctors
  BY <1>9 DEF doPendingFunctors, swappedOut, loopVars, eventVars, queueVars
<1>10. CASE callFunctor
  BY <1>10 DEF callFunctor, loopVars, eventVars, queueVars
<1>11. CASE functorReturn
  BY <1>11 DEF functorReturn, loopVars, eventVars, queueVars
<1>12. CASE functorsDone
  BY <1>12 DEF functorsDone, loopVars, eventVars, queueVars
<1>13. CASE ownerQueueInLoop
  BY <1>13 DEF ownerQueueInLoop, loopVars
<1>14. CASE ownerQuit
  BY <1>14 DEF ownerQuit, loopVars, eventVars, queueVars
<1>15. ASSUME NEW c \in Channels, updateChannel(c) PROVE NoLostQuit'
  BY <1>15 DEF updateChannel, loopVars, eventVars, queueVars
<1>16. ASSUME NEW c \in Channels, removeChannel(c) PROVE NoLostQuit'
  BY <1>16 DEF removeChannel, MayRemove, loopVars, eventVars, queueVars
<1>17. ASSUME NEW t \in Threads, queueInLoop(t) PROVE NoLostQuit'
  BY <1>17 DEF queueInLoop, push, NeedsWakeup, loopVars, eventVars, queueVars
<1>18. ASSUME NEW t \in Threads, wakeup(t) PROVE NoLostQuit'
  BY <1>18 DEF wakeup, loopVars
<1>19. ASSUME NEW t \in Threads, quit(t) PROVE NoLostQuit'
  BY <1>19 DEF quit, afterQuit, loopVars, eventVars, queueVars
<1>20. CASE UNCHANGED vars
  BY <1>20 DEF vars, loopVars, eventVars, queueVars
<1>. QED
  BY <1>1, <1>2, <1>3, <1>4, <1>5, <1>6, <1>7, <1>8, <1>9, <1>10, <1>11, <1>12, <1>13, <1>14, <1>15, <1>16, <1>17, <1>18, <1>19, <1>20 DEF Next, OwnerRuns, OwnerCalls

LEMMA WakeInductive ==
  ASSUME TypeOK, Places, WakeInv, [Next]_vars
  PROVE  WakeInv'
<1>. USE OwnerAssumption DEF TypeOK, Places, WakeInv, Waiting, Signalled
<1>1. CASE loop
  BY <1>1 DEF loop, loopVars, eventVars, queueVars
<1>2. CASE WhileTest
  BY <1>2 DEF WhileTest, loopVars, eventVars, queueVars
<1>3. CASE pollWoken
  BY <1>3 DEF pollWoken, polled, loopVars, eventVars, queueVars
<1>4. CASE pollIo
  BY <1>4 DEF pollIo, polled, loopVars, eventVars, queueVars
<1>5. CASE pollTimeout
  BY <1>5 DEF pollTimeout, polled, loopVars, eventVars, queueVars
<1>6. ASSUME NEW c \in Channels \cup {Wakeup}, handleEvent(c) PROVE WakeInv'
  BY <1>6 DEF handleEvent, handleRead, loopVars, eventVars, queueVars
<1>7. CASE callbackReturn
  BY <1>7 DEF callbackReturn, loopVars, eventVars, queueVars
<1>8. CASE eventsDone
  BY <1>8 DEF eventsDone, loopVars, eventVars, queueVars
<1>9. CASE doPendingFunctors
  BY <1>9 DEF doPendingFunctors, swappedOut, loopVars, eventVars, queueVars
<1>10. CASE callFunctor
  BY <1>10 DEF callFunctor, loopVars, eventVars, queueVars
<1>11. CASE functorReturn
  BY <1>11 DEF functorReturn, loopVars, eventVars, queueVars
<1>12. CASE functorsDone
  BY <1>12 DEF functorsDone, loopVars, eventVars, queueVars
<1>13. CASE ownerQueueInLoop
  BY <1>13 DEF ownerQueueInLoop, push, NeedsWakeup, eventVars, loopVars
<1>14. CASE ownerQuit
  BY <1>14 DEF ownerQuit, loopVars, eventVars, queueVars
<1>15. ASSUME NEW c \in Channels, updateChannel(c) PROVE WakeInv'
  BY <1>15 DEF updateChannel, loopVars, eventVars, queueVars
<1>16. ASSUME NEW c \in Channels, removeChannel(c) PROVE WakeInv'
  BY <1>16 DEF removeChannel, MayRemove, loopVars, eventVars, queueVars
<1>17. ASSUME NEW t \in Threads, queueInLoop(t) PROVE WakeInv'
  BY <1>17 DEF queueInLoop, push, NeedsWakeup, loopVars, eventVars, queueVars
<1>18. ASSUME NEW t \in Threads, wakeup(t) PROVE WakeInv'
  BY <1>18 DEF wakeup, queueVars, loopVars, eventVars
<1>19. ASSUME NEW t \in Threads, quit(t) PROVE WakeInv'
  BY <1>19 DEF quit, afterQuit, loopVars, eventVars, queueVars
<1>20. CASE UNCHANGED vars
  BY <1>20 DEF vars, loopVars, eventVars, queueVars
<1>. QED
  BY <1>1, <1>2, <1>3, <1>4, <1>5, <1>6, <1>7, <1>8, <1>9, <1>10, <1>11, <1>12, <1>13, <1>14, <1>15, <1>16, <1>17, <1>18, <1>19, <1>20 DEF Next, OwnerRuns, OwnerCalls

-----------------------------------------------------------------------------
(***************************************************************************)
(* The queue.  Only three kinds of step touch it: a push, the swap and the *)
(* call of a functor.                                                      *)
(***************************************************************************)
QueueUntouched == UNCHANGED <<executed, functors, pendingFunctors_, issued>>

LEMMA QueueSteps ==
  ASSUME [Next]_vars
  PROVE  QueueUntouched \/ push \/ doPendingFunctors \/ callFunctor
<1>. USE DEF QueueUntouched
<1>1. CASE loop
  BY <1>1 DEF loop, loopVars, eventVars, queueVars
<1>2. CASE WhileTest
  BY <1>2 DEF WhileTest, loopVars, eventVars, queueVars
<1>3. CASE pollWoken
  BY <1>3 DEF pollWoken, polled, loopVars, eventVars, queueVars
<1>4. CASE pollIo
  BY <1>4 DEF pollIo, polled, loopVars, eventVars, queueVars
<1>5. CASE pollTimeout
  BY <1>5 DEF pollTimeout, polled, loopVars, eventVars, queueVars
<1>6. ASSUME NEW c \in Channels \cup {Wakeup}, handleEvent(c) PROVE QueueUntouched \/ push
  BY <1>6 DEF handleEvent, handleRead, loopVars, eventVars, queueVars
<1>7. CASE callbackReturn
  BY <1>7 DEF callbackReturn, loopVars, eventVars, queueVars
<1>8. CASE eventsDone
  BY <1>8 DEF eventsDone, loopVars, eventVars, queueVars
<1>9. CASE doPendingFunctors
  BY <1>9
<1>10. CASE callFunctor
  BY <1>10
<1>11. CASE functorReturn
  BY <1>11 DEF functorReturn, loopVars, eventVars, queueVars
<1>12. CASE functorsDone
  BY <1>12 DEF functorsDone, loopVars, eventVars, queueVars
<1>13. CASE ownerQueueInLoop
  BY <1>13 DEF ownerQueueInLoop
<1>14. CASE ownerQuit
  BY <1>14 DEF ownerQuit, loopVars, eventVars, queueVars
<1>15. ASSUME NEW c \in Channels, updateChannel(c) PROVE QueueUntouched \/ push
  BY <1>15 DEF updateChannel, loopVars, eventVars, queueVars
<1>16. ASSUME NEW c \in Channels, removeChannel(c) PROVE QueueUntouched \/ push
  BY <1>16 DEF removeChannel, MayRemove, loopVars, eventVars, queueVars
<1>17. ASSUME NEW t \in Threads, queueInLoop(t) PROVE QueueUntouched \/ push
  BY <1>17 DEF queueInLoop
<1>18. ASSUME NEW t \in Threads, wakeup(t) PROVE QueueUntouched \/ push
  BY <1>18 DEF wakeup, loopVars, eventVars, queueVars
<1>19. ASSUME NEW t \in Threads, quit(t) PROVE QueueUntouched \/ push
  BY <1>19 DEF quit, afterQuit, loopVars, eventVars, queueVars
<1>20. CASE UNCHANGED vars
  BY <1>20 DEF vars, loopVars, eventVars, queueVars
<1>. QED
  BY <1>1, <1>2, <1>3, <1>4, <1>5, <1>6, <1>7, <1>8, <1>9, <1>10, <1>11, <1>12, <1>13, <1>14, <1>15, <1>16, <1>17, <1>18, <1>19, <1>20 DEF Next, OwnerRuns, OwnerCalls

LEMMA OrderInductive ==
  ASSUME TypeOK, Places, EachOnceInOrder, [Next]_vars
  PROVE  EachOnceInOrder'
<1>. DEFINE S == 1..MaxFunctors
<1>1. executed \in Seq(S) /\ functors \in Seq(S) /\ pendingFunctors_ \in Seq(S)
  BY DEF TypeOK
<1>2. CASE QueueUntouched
  BY <1>2 DEF QueueUntouched, EachOnceInOrder
<1>3. CASE push
  <2>1. issued \in Nat /\ issued + 1 \in S
    BY <1>3, BoundAssumption DEF push, TypeOK
  <2>2. executed \o functors \in Seq(S)
    BY <1>1, ConcatProperties
  <2>3. (executed \o functors) \o Append(pendingFunctors_, issued + 1)
           = Append((executed \o functors) \o pendingFunctors_, issued + 1)
    BY <1>1, <2>1, <2>2, AppendRight
  <2>4. Append([k \in 1..issued |-> k], issued + 1) = [k \in 1..(issued + 1) |-> k]
    BY <2>1, CountOn
  <2>. QED BY <1>3, <2>3, <2>4 DEF push, EachOnceInOrder
<1>4. CASE doPendingFunctors
  <2>1. functors = <<>>
    BY <1>4 DEF doPendingFunctors, Places
  <2>2. executed \o pendingFunctors_ \in Seq(S)
    BY <1>1, ConcatProperties
  <2>3. /\ executed \o <<>> = executed
        /\ (executed \o pendingFunctors_) \o <<>> = executed \o pendingFunctors_
    BY <1>1, <2>2, ConcatEmptySeq
  <2>. QED BY <1>4, <2>1, <2>3 DEF doPendingFunctors, swappedOut, EachOnceInOrder
<1>5. CASE callFunctor
  <2>1. Append(executed, Head(functors)) \o Tail(functors) = executed \o functors
    BY <1>1, <1>5, MoveHead DEF callFunctor
  <2>. QED BY <1>5, <2>1 DEF callFunctor, EachOnceInOrder
<1>. QED BY <1>2, <1>3, <1>4, <1>5, QueueSteps
-----------------------------------------------------------------------------
(***************************************************************************)
(* The theorems.                                                           *)
(***************************************************************************)
LEMMA InitEstablishes ==
  ASSUME Init
  PROVE  IInv
<1>1. TypeOK
  BY TypeInit
<1>2. EachOnceInOrder
  <2>1. <<>> \o <<>> \o <<>> = <<>>
    BY ConcatEmptySeq, EmptySeq
  <2>2. [k \in 1..0 |-> k] = <<>>
    OBVIOUS
  <2>. QED BY <2>1, <2>2 DEF Init, EachOnceInOrder
<1>. QED BY <1>1, <1>2 DEF Init, IInv, Places, NoLostQuit, WakeInv, Waiting

\* IInv is an inductive invariant.
LEMMA Inductive == Spec => []IInv
<1>1. Init => IInv
  BY InitEstablishes
<1>2. IInv /\ [Next]_vars => IInv'
  BY TypeInductive, PlacesInductive, QuitInductive, OrderInductive, WakeInductive DEF IInv
<1>. QED BY <1>1, <1>2, PTL DEF Spec

(***************************************************************************)
(* Safety: whatever the threads and the callbacks do, quit() is never      *)
(* slept through, nor a functor that another thread, a callback or a       *)
(* functor queued; and every queued functor is executed at most once, none *)
(* is skipped, all in the order of the pushes.                             *)
(***************************************************************************)
THEOREM Safety == Spec => [](NoLostQuit /\ NoLostWakeup /\ EachOnceInOrder)
<1>1. Spec => []IInv
  BY Inductive
<1>2. IInv => NoLostQuit /\ NoLostWakeup /\ EachOnceInOrder
  BY DEF IInv, WakeInv, NoLostWakeup
<1>. QED BY <1>1, <1>2, PTL

(***************************************************************************)
(* Refinement: pendingFunctors_ and the local vector of doPendingFunctors, *)
(* one after the other, are one FIFO queue.                                *)
(***************************************************************************)
THEOREM Refinement == Spec => QueuePromise
<1>. DEFINE S == 1..MaxFunctors
<1>1. Init => Promise!Init
  BY ConcatEmptySeq, EmptySeq DEF Init, Promise!Init
<1>2. IInv /\ [Next]_vars => [Promise!Next]_(Promise!vars)
  <2>. SUFFICES ASSUME IInv, [Next]_vars
                PROVE  Promise!Next \/ UNCHANGED Promise!vars
    OBVIOUS
  <2>1. executed \in Seq(S) /\ functors \in Seq(S) /\ pendingFunctors_ \in Seq(S)
    BY DEF IInv, TypeOK
  <2>2. CASE QueueUntouched
    BY <2>2 DEF QueueUntouched, Promise!vars
  <2>3. CASE push
    <3>1. issued + 1 \in S
      BY <2>3, BoundAssumption DEF push, IInv, TypeOK
    <3>2. functors \o Append(pendingFunctors_, issued + 1)
             = Append(functors \o pendingFunctors_, issued + 1)
      BY <2>1, <3>1, AppendRight
    <3>3. Promise!Enqueue(issued + 1)
      BY <2>3, <3>2 DEF push, Promise!Enqueue
    <3>. QED BY <3>1, <3>3 DEF Promise!Next
  <2>4. CASE doPendingFunctors
    <3>1. functors = <<>>
      BY <2>4 DEF doPendingFunctors, IInv, Places
    <3>2. /\ <<>> \o pendingFunctors_ = pendingFunctors_
          /\ pendingFunctors_ \o <<>> = pendingFunctors_
      BY <2>1, ConcatEmptySeq
    <3>. QED BY <2>4, <3>1, <3>2 DEF doPendingFunctors, swappedOut, Promise!vars
  <2>5. CASE callFunctor
    <3>1. functors # <<>>
      BY <2>5 DEF callFunctor
    <3>2. LET q == functors \o pendingFunctors_
          IN  /\ q # <<>>
              /\ Head(q) = Head(functors)
              /\ Tail(q) = Tail(functors) \o pendingFunctors_
      BY <2>1, <3>1, HeadTailConcat
    <3>3. Promise!Execute
      BY <2>5, <3>2 DEF callFunctor, Promise!Execute
    <3>. QED BY <3>3 DEF Promise!Next
  <2>. QED BY <2>2, <2>3, <2>4, <2>5, QueueSteps
<1>3. Spec => []IInv
  BY Inductive
<1>. QED BY <1>1, <1>2, <1>3, PTL DEF Spec, QueuePromise, Promise!Spec
=============================================================================
