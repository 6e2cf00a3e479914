----------------------------- MODULE EventLoop -----------------------------
(***************************************************************************)
(* muduo::net::EventLoop: one loop, the thread that created it (Owner) and *)
(* the threads that call queueInLoop and quit on it.                       *)
(*                                                                         *)
(* The owner's program counter `at' is where EventLoop::loop stands; the   *)
(* counter pc[t] of another thread says whether it stands between the      *)
(* first effect of queueInLoop or quit and the wakeup() that follows.      *)
(* User code (callbacks and functors) runs at UserCode and may call any    *)
(* operation of the loop.  The owner's own wakeup() is part of its         *)
(* queueInLoop: the owner is not in poll() then, and nobody else reads     *)
(* the descriptor.  An assertion that fails aborts the process: the owner  *)
(* stays at "aborted", whatever the other threads still do by then.        *)
(***************************************************************************)
EXTENDS Integers, Sequences

CONSTANTS Threads,      \* threads other than the loop's own
          Owner,        \* the thread that created the loop
          Channels,     \* the user's channels
          Wakeup,       \* wakeupChannel_
          NULL,         \* no channel
          MaxFunctors   \* bound: calls of queueInLoop

ASSUME OwnerAssumption == Owner \notin Threads
ASSUME WakeupAssumption == Wakeup \notin Channels /\ NULL \notin Channels \cup {Wakeup}
ASSUME BoundAssumption == MaxFunctors \in Nat

VARIABLES at,                       \* where the owner is in loop()
          pc,                       \* where each other thread is
          looping_, quit_,
          eventHandling_, callingPendingFunctors_,
          activeChannels_,          \* what poll() returned
          toHandle,                 \* the rest of the iteration over it
          currentActiveChannel_,
          channels,                 \* user channels the poller knows
          wakeupFd,                 \* is the eventfd readable, its counter not zero?
          pendingFunctors_,
          functors,                 \* local vector of doPendingFunctors
          issued,                   \* functors queued so far
          executed,                 \* history: functors called, in order
          quiet                     \* history: functors the owner queued outside loop()

loopVars == <<looping_, quit_>>
eventVars == <<eventHandling_, activeChannels_, toHandle, currentActiveChannel_>>
queueVars == <<pendingFunctors_, functors, issued, executed, quiet,
               callingPendingFunctors_>>
vars == <<at, pc, loopVars, eventVars, queueVars, channels, wakeupFd>>

UserCode == {"idle", "callback", "functor"}
Locations == UserCode \cup {"while", "poll", "events", "pending", "functors", "aborted"}

Init == /\ at = "idle"
        /\ pc = [t \in Threads |-> "idle"]
        /\ looping_ = FALSE /\ quit_ = FALSE
        /\ eventHandling_ = FALSE /\ callingPendingFunctors_ = FALSE
        /\ activeChannels_ = {} /\ toHandle = {} /\ currentActiveChannel_ = NULL
        /\ channels = {}
        /\ wakeupFd = FALSE
        /\ pendingFunctors_ = <<>> /\ functors = <<>>
        /\ issued = 0 /\ executed = <<>> /\ quiet = {}
-----------------------------------------------------------------------------
(***************************************************************************)
(* The loop.                                                               *)
(***************************************************************************)
loop == /\ at = "idle"
        /\ ~looping_
        /\ looping_' = TRUE
        /\ quit_' = FALSE
        /\ at' = "while"
        /\ UNCHANGED <<pc, eventVars, queueVars, channels, wakeupFd>>

WhileTest == /\ at = "while"
             /\ IF quit_ THEN /\ looping_' = FALSE
                              /\ at' = "idle"
                              /\ UNCHANGED activeChannels_
                         ELSE /\ activeChannels_' = {}
                              /\ at' = "poll"
                              /\ UNCHANGED looping_
             /\ UNCHANGED <<pc, quit_, eventHandling_, toHandle,
                            currentActiveChannel_, queueVars, channels, wakeupFd>>

\* poll() returned the channels of A; the iteration over them begins.
polled(A) == /\ at = "poll"
             /\ activeChannels_' = A
             /\ toHandle' = A
             /\ eventHandling_' = TRUE
             /\ at' = "events"
             /\ UNCHANGED <<pc, loopVars, currentActiveChannel_, queueVars,
                            channels, wakeupFd>>

\* The wake-up descriptor is readable, other channels may be ready too.
pollWoken == /\ wakeupFd
             /\ \E ready \in SUBSET channels : polled(ready \cup {Wakeup})

\* Only channels of the user are ready.
pollIo == /\ ~wakeupFd
          /\ \E ready \in SUBSET channels \ {{}} : polled(ready)

\* Nothing happens for kPollTimeMs, ten seconds.
pollTimeout == ~wakeupFd /\ polled({})

(***************************************************************************)
(* handleEvent: the wake-up channel drains the eventfd, any other channel  *)
(* runs its user's callback.                                               *)
(***************************************************************************)
handleRead == /\ wakeupFd' = FALSE
              /\ at' = "events"

handleEvent(c) == /\ at = "events"
                  /\ c \in toHandle
                  /\ toHandle' = toHandle \ {c}
                  /\ currentActiveChannel_' = c
                  /\ IF c = Wakeup THEN handleRead
                                   ELSE at' = "callback" /\ UNCHANGED wakeupFd
                  /\ UNCHANGED <<pc, loopVars, eventHandling_, activeChannels_,
                                 queueVars, channels>>

callbackReturn == /\ at = "callback"
                  /\ at' = "events"
                  /\ UNCHANGED <<pc, loopVars, eventVars, queueVars, channels, wakeupFd>>

eventsDone == /\ at = "events"
              /\ toHandle = {}
              /\ currentActiveChannel_' = NULL
              /\ eventHandling_' = FALSE
              /\ at' = "pending"
              /\ UNCHANGED <<pc, loopVars, activeChannels_, toHandle, queueVars,
                             channels, wakeupFd>>

\* Mutant: the vector is copied, not swapped.
copied == pendingFunctors_

\* What the vector pendingFunctors_ holds once it was swapped with an empty one.
swappedOut == <<>>

doPendingFunctors == /\ at = "pending"
                     /\ callingPendingFunctors_' = TRUE
                     /\ functors' = pendingFunctors_
                     /\ pendingFunctors_' = swappedOut
                     /\ at' = "functors"
                     /\ UNCHANGED <<pc, loopVars, eventVars, issued, executed, quiet,
                                    channels, wakeupFd>>

\* Mutant: the batch is called from its back.
callFunctorLast == /\ at = "functors"
                   /\ functors # <<>>
                   /\ executed' = Append(executed, functors[Len(functors)])
                   /\ functors' = SubSeq(functors, 1, Len(functors) - 1)
                   /\ at' = "functor"
                   /\ UNCHANGED <<pc, loopVars, eventVars, pendingFunctors_, issued, quiet,
                                  callingPendingFunctors_, channels, wakeupFd>>

\* Mutant: the index runs up to size(), one functor too far.
callFunctorTooFar == /\ at = "functors"
                     /\ executed' = Append(executed, IF functors = <<>> THEN 0
                                                                      ELSE Head(functors))
                     /\ functors' = IF functors = <<>> THEN <<>> ELSE Tail(functors)
                     /\ at' = "functor"
                     /\ UNCHANGED <<pc, loopVars, eventVars, pendingFunctors_, issued, quiet,
                                    callingPendingFunctors_, channels, wakeupFd>>

callFunctor == /\ at = "functors"
               /\ functors # <<>>
               /\ executed' = Append(executed, Head(functors))
               /\ functors' = Tail(functors)
               /\ at' = "functor"
               /\ UNCHANGED <<pc, loopVars, eventVars, pendingFunctors_, issued, quiet,
                              callingPendingFunctors_, channels, wakeupFd>>

functorReturn == /\ at = "functor"
                 /\ at' = "functors"
                 /\ UNCHANGED <<pc, loopVars, eventVars, queueVars, channels, wakeupFd>>

functorsDone == /\ at = "functors"
                /\ functors = <<>>
                /\ callingPendingFunctors_' = FALSE
                /\ at' = "while"
                /\ UNCHANGED <<pc, loopVars, eventVars, pendingFunctors_, functors,
                               issued, executed, quiet, channels, wakeupFd>>
-----------------------------------------------------------------------------
(***************************************************************************)
(* What threads call.  wakeup() adds one to the eventfd's counter, which   *)
(* makes it readable until handleRead empties it.                          *)
(***************************************************************************)
wakeup(t) == /\ pc[t] = "wake"
             /\ wakeupFd' = TRUE
             /\ pc' = [pc EXCEPT ![t] = "idle"]
             /\ UNCHANGED <<at, loopVars, eventVars, queueVars, channels>>

\* Mutant: the owner never needs a wake-up.
NeedsWakeupOthers(t) == t # Owner

NeedsWakeup(t) == t # Owner \/ callingPendingFunctors_

\* The push, under mutex_: functors are numbered in the order of the pushes.
push == /\ issued < MaxFunctors
        /\ issued' = issued + 1
        /\ pendingFunctors_' = Append(pendingFunctors_, issued + 1)
        /\ UNCHANGED <<functors, executed, callingPendingFunctors_>>

queueInLoop(t) == /\ pc[t] = "idle"
                  /\ push
                  /\ pc' = [pc EXCEPT ![t] = IF NeedsWakeup(t) THEN "wake" ELSE "idle"]
                  /\ UNCHANGED <<at, quiet, loopVars, eventVars, channels, wakeupFd>>

ownerQueueInLoop == /\ at \in UserCode
                    /\ push
                    /\ wakeupFd' = (NeedsWakeup(Owner) \/ wakeupFd)
                    /\ quiet' = IF at = "idle" THEN quiet \cup {issued + 1} ELSE quiet
                    /\ UNCHANGED <<at, pc, loopVars, eventVars, channels>>

\* Mutant: quit() does not wake the loop.
afterQuitSilent == "idle"

\* Where quit() leaves a thread that is not the owner: about to wake the loop.
afterQuit == "wake"

quit(t) == /\ pc[t] = "idle"
           /\ quit_' = TRUE
           /\ pc' = [pc EXCEPT ![t] = afterQuit]
           /\ UNCHANGED <<at, looping_, eventVars, queueVars, channels, wakeupFd>>

ownerQuit == /\ at \in UserCode
             /\ quit_' = TRUE
             /\ UNCHANGED <<at, pc, looping_, eventVars, queueVars, channels, wakeupFd>>

(***************************************************************************)
(* updateChannel and removeChannel, by user code of the owner.             *)
(***************************************************************************)
\* The assertion in removeChannel, and the poller's that it knows the channel.
MayRemove(c) == /\ c \in channels
                /\ eventHandling_ => \/ currentActiveChannel_ = c
                                     \/ c \notin activeChannels_

updateChannel(c) == /\ at \in UserCode
                    /\ channels' = channels \cup {c}
                    /\ UNCHANGED <<at, pc, loopVars, eventVars, queueVars, wakeupFd>>

removeChannel(c) == /\ at \in UserCode
                    /\ IF MayRemove(c) THEN channels' = channels \ {c} /\ UNCHANGED at
                                       ELSE at' = "aborted" /\ UNCHANGED channels
                    /\ UNCHANGED <<pc, loopVars, eventVars, queueVars, wakeupFd>>
-----------------------------------------------------------------------------
\* The steps the owner takes without waiting for anybody.
OwnerRuns == \/ WhileTest
             \/ pollWoken
             \/ \E c \in Channels \cup {Wakeup} : handleEvent(c)
             \/ callbackReturn
             \/ eventsDone
             \/ doPendingFunctors
             \/ callFunctor
             \/ functorReturn
             \/ functorsDone

OwnerCalls == \/ ownerQueueInLoop
              \/ ownerQuit
              \/ \E c \in Channels : updateChannel(c) \/ removeChannel(c)

Next == \/ loop
        \/ OwnerRuns
        \/ pollIo
        \/ pollTimeout
        \/ OwnerCalls
        \/ \E t \in Threads : queueInLoop(t) \/ wakeup(t) \/ quit(t)

Spec == Init /\ [][Next]_vars

(***************************************************************************)
(* A thread that can run does run, callbacks and functors return.  Nothing *)
(* is assumed of pollTimeout: a wake-up must not wait for the ten seconds; *)
(* nor of descriptors becoming ready, nor of user code calling loop().     *)
(***************************************************************************)
Fairness == WF_vars(OwnerRuns) /\ \A t \in Threads : WF_vars(wakeup(t))

FairSpec == Spec /\ Fairness
-----------------------------------------------------------------------------
TypeOK == /\ at \in Locations
          /\ pc \in [Threads -> {"idle", "wake"}]
          /\ looping_ \in BOOLEAN /\ quit_ \in BOOLEAN
          /\ eventHandling_ \in BOOLEAN /\ callingPendingFunctors_ \in BOOLEAN
          /\ activeChannels_ \subseteq Channels \cup {Wakeup}
          /\ toHandle \subseteq Channels \cup {Wakeup}
          /\ currentActiveChannel_ \in Channels \cup {Wakeup, NULL}
          /\ channels \subseteq Channels
          /\ wakeupFd \in BOOLEAN
          /\ pendingFunctors_ \in Seq(1..MaxFunctors)
          /\ functors \in Seq(1..MaxFunctors)
          /\ issued \in 0..MaxFunctors
          /\ executed \in Seq(1..MaxFunctors)
          /\ quiet \subseteq 1..MaxFunctors

Signalled == wakeupFd \/ \E t \in Threads : pc[t] = "wake"

\* A functor is pending that the owner did not queue outside loop().
Waiting == \E i \in 1..Len(pendingFunctors_) : pendingFunctors_[i] \notin quiet

(***************************************************************************)
(* NoLostWakeup: the owner never sleeps in poll() on a functor that        *)
(* another thread, a callback or a functor queued and that nobody has      *)
(* signalled or is about to signal (EventLoop::queueInLoop).  It does      *)
(* sleep on what the owner queued before loop(), although the comment in   *)
(* queueInLoop exempts only event callbacks from waking it.                *)
(***************************************************************************)
NoLostWakeup == at = "poll" /\ Waiting => Signalled

(***************************************************************************)
(* NoLostQuit: the owner never sleeps in poll() on a quit() it has not     *)
(* seen and that nobody signals (EventLoop::quit).                         *)
(***************************************************************************)
NoLostQuit == at = "poll" /\ quit_ => Signalled

(***************************************************************************)
(* EachOnceInOrder: what was executed, what the current batch still holds  *)
(* and what is pending are together all functors ever queued, once each    *)
(* and in the order of the pushes (queueInLoop and doPendingFunctors).     *)
(***************************************************************************)
EachOnceInOrder == executed \o functors \o pendingFunctors_ = [k \in 1..issued |-> k]

(***************************************************************************)
(* QueuePromise: the two vectors, swapped by doPendingFunctors, implement  *)
(* one FIFO queue.                                                         *)
(***************************************************************************)
Promise == INSTANCE FunctorQueue WITH Functors <- 1..MaxFunctors,
                                      queue <- functors \o pendingFunctors_
QueuePromise == Promise!Spec

(***************************************************************************)
(* FunctorsRun: a functor queued by another thread, a callback or a        *)
(* functor is called, unless loop() returns or a callback's assertion      *)
(* fails first, without the help of the poll timeout.                      *)
(***************************************************************************)
FunctorsRun == \A k \in 1..MaxFunctors :
                  (issued >= k /\ looping_ /\ k \notin quiet)
                     ~> (Len(executed) >= k \/ ~looping_ \/ at = "aborted")

(***************************************************************************)
(* QuitEndsLoop: a quit() during loop() makes loop() return, again without *)
(* the help of the poll timeout, unless a callback's assertion fails.      *)
(***************************************************************************)
QuitEndsLoop == (quit_ /\ looping_) ~> (~looping_ \/ at = "aborted")
-----------------------------------------------------------------------------
(***************************************************************************)
(* The inductive invariant behind the properties above.  Places ties the   *)
(* owner's location to the flags and the batch; WakeInv says where a       *)
(* waiting functor must already be signalled: everywhere but between the   *)
(* return of poll() and the swap.                                          *)
(***************************************************************************)
Places == /\ at \in {"events", "callback"} => eventHandling_
          /\ at \notin {"events", "callback", "aborted"} => toHandle = {}
          /\ at = "callback" => currentActiveChannel_ \notin toHandle
          /\ at \in {"functors", "functor"} => callingPendingFunctors_
          /\ at \notin {"functors", "functor", "aborted"} => functors = <<>>
          /\ toHandle \subseteq activeChannels_

WakeInv == at \notin {"events", "callback", "pending", "aborted"} /\ Waiting => Signalled

IInv == TypeOK /\ Places /\ NoLostQuit /\ EachOnceInOrder /\ WakeInv
=============================================================================
