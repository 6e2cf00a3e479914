---------------------------- MODULE FunctorQueue ----------------------------
(***************************************************************************)
(* What EventLoop::queueInLoop and EventLoop::doPendingFunctors promise    *)
(* together: one FIFO queue, filled by any thread and emptied by the loop  *)
(* thread, each functor executed exactly once and in the order in which    *)
(* the calls of queueInLoop took the lock.  The two vectors, the swap and  *)
(* the wake-up descriptor of the implementation do not appear.             *)
(***************************************************************************)
EXTENDS Sequences

CONSTANT Functors      \* what may be queued

VARIABLES queue,       \* queued and not yet executed, oldest first
          executed     \* executed, in the order of execution

vars == <<queue, executed>>

Init == queue = <<>> /\ executed = <<>>

Enqueue(f) == /\ queue' = Append(queue, f)
              /\ UNCHANGED executed

Execute == /\ queue # <<>>
           /\ executed' = Append(executed, Head(queue))
           /\ queue' = Tail(queue)

Next == Execute \/ \E f \in Functors : Enqueue(f)

Spec == Init /\ [][Next]_vars
=============================================================================
