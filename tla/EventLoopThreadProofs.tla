----------------------- MODULE EventLoopThreadProofs -----------------------
(***************************************************************************)
(* Proofs about EventLoopThread, for every set of threads and channels and *)
(* every bound.  The loop inside the thread takes only steps of EventLoop, *)
(* so what EventLoopProofs shows of a loop holds of this one; the handover *)
(* of the loop to its creator needs an invariant of its own.               *)
(***************************************************************************)
EXTENDS EventLoopThread, EventLoopProofs

-----------------------------------------------------------------------------
(***************************************************************************)
(* The loop of the thread is an EventLoop.                                 *)
(***************************************************************************)
LEMMA LoopSteps ==
  ASSUME [ThreadNext]_allVars
  PROVE  [Next]_vars
<1>. USE CreatorAssumption DEF Next
<1>1. CASE startLoop \/ startLoopTest \/ dtorJoin \/ threadFuncPublish \/ threadFuncReturn
  BY <1>1 DEF startLoop, startLoopTest, dtorJoin, threadFuncPublish, threadFuncReturn
<1>2. CASE dtor
  BY <1>2 DEF dtor, dtorQuit
<1>3. CASE threadFuncLoop
  BY <1>3 DEF threadFuncLoop
<1>4. CASE creatorUses \/ creatorWakes
  BY <1>4 DEF creatorUses, creatorWakes
<1>5. ASSUME NEW t \in Threads, otherUses(t) \/ otherWakes(t)
      PROVE  Next
  BY <1>5 DEF otherUses, otherWakes
<1>6. CASE ioRuns
  BY <1>6 DEF ioRuns
<1>7. CASE ioUser
  BY <1>7 DEF ioUser
<1>8. CASE ioCallback
  BY <1>8 DEF ioCallback
<1>9. CASE Done \/ UNCHANGED allVars
  BY <1>9 DEF Done, allVars
<1>. QED
  BY <1>1, <1>2, <1>3, <1>4, <1>5, <1>6, <1>7, <1>8, <1>9 DEF ThreadNext

(***************************************************************************)
(* LoopRefined: what runs in the thread, with all that its creator and     *)
(* other threads do to it, is a behaviour of one EventLoop.                *)
(***************************************************************************)
THEOREM LoopRefined == ThreadSpec => Spec
<1>1. ThreadInit => Init
  BY DEF ThreadInit
<1>2. [ThreadNext]_allVars => [Next]_vars
  BY LoopSteps
<1>. QED BY <1>1, <1>2, PTL DEF ThreadSpec, Spec

(***************************************************************************)
(* LoopSafe: the loop of an EventLoopThread, whatever its callback_, its   *)
(* users and its own callbacks do, executes what is queued once and in     *)
(* order, and sleeps neither through a quit() it would have to see nor on  *)
(* a functor that another thread, a callback or a functor queued.          *)
(***************************************************************************)
THEOREM LoopSafe ==
  ThreadSpec => [](TypeOK /\ NoLostQuit /\ NoLostWakeup /\ EachOnceInOrder)
BY LoopRefined, TypeCorrect, Safety, PTL

(***************************************************************************)
(* LoopQueue: to the creator and the other threads of an EventLoopThread,  *)
(* runInLoop and queueInLoop are one FIFO queue of functors.               *)
(***************************************************************************)
THEOREM LoopQueue == ThreadSpec => QueuePromise
BY LoopRefined, Refinement, PTL

-----------------------------------------------------------------------------
(***************************************************************************)
(* The handover.                                                           *)
(***************************************************************************)
LEMMA HandoverInductive ==
  ASSUME TypeOK, HandoverInv, [ThreadNext]_allVars
  PROVE  HandoverInv'
<1>. USE DEF HandoverInv, loopVars, eventVars, queueVars, vars, threadVars
<1>1. CASE startLoop
  BY <1>1 DEF startLoop
<1>2. CASE startLoopTest
  BY <1>2 DEF startLoopTest, loopSet
<1>3. CASE dtor
  BY <1>3 DEF dtor, dtorQuit, quit
<1>4. CASE dtorJoin
  BY <1>4 DEF dtorJoin
<1>5. CASE threadFuncPublish
  BY <1>5 DEF threadFuncPublish, notified
<1>6. CASE threadFuncLoop
  BY <1>6 DEF threadFuncLoop, loop
<1>7. CASE threadFuncReturn
  BY <1>7 DEF threadFuncReturn
<1>8. CASE creatorUses \/ creatorWakes
  BY <1>8 DEF creatorUses, creatorWakes, queueInLoop, wakeup
<1>9. ASSUME NEW t \in Threads, otherUses(t) \/ otherWakes(t)
      PROVE  HandoverInv'
  BY <1>9 DEF otherUses, otherWakes, queueInLoop, quit, wakeup
<1>10. CASE ioRuns
  BY <1>10
     DEF ioRuns, OwnerRuns, WhileTest, pollWoken, polled, handleEvent, handleRead, callbackReturn,
         eventsDone, doPendingFunctors, callFunctor, functorReturn, functorsDone
<1>11. CASE ioUser
  BY <1>11
     DEF ioUser, pollIo, pollTimeout, polled, OwnerCalls, ownerQueueInLoop, ownerQuit,
         updateChannel, removeChannel
<1>12. CASE ioCallback
  BY <1>12
     DEF ioCallback, OwnerCalls, ownerQueueInLoop, ownerQuit, updateChannel, removeChannel
<1>13. CASE Done \/ UNCHANGED allVars
  BY <1>13 DEF Done, allVars
<1>. QED
  BY <1>1, <1>2, <1>3, <1>4, <1>5, <1>6, <1>7, <1>8, <1>9, <1>10, <1>11, <1>12, <1>13
     DEF ThreadNext

(***************************************************************************)
(* StartHandsOver: the pointer that startLoop returned is set and points   *)
(* to a loop that exists until the destructor or a callback quits it,      *)
(* whichever of the two threads gets the mutex first.                      *)
(***************************************************************************)
THEOREM StartHandsOver == ThreadSpec => []StartedLoopAlive
<1>. DEFINE I == TypeOK /\ HandoverInv
<1>1. ThreadInit => I
  BY TypeInit DEF ThreadInit, Init, HandoverInv
<1>2. I /\ [ThreadNext]_allVars => I'
  BY LoopSteps, TypeInductive, HandoverInductive
<1>3. I => StartedLoopAlive
  BY DEF HandoverInv, StartedLoopAlive, loopAlive
<1>. QED BY <1>1, <1>2, <1>3, PTL DEF ThreadSpec
=============================================================================
