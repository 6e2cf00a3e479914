-------------------------- MODULE EventLoopThread --------------------------
(***************************************************************************)
(* muduo::net::EventLoopThread: the thread that owns an EventLoop for the  *)
(* length of threadFunc, and the thread (Creator) that starts it, uses the *)
(* loop and destroys the EventLoopThread object.  The steps of the loop    *)
(* itself are those of EventLoop, whose Owner is the new thread.  The flag *)
(* exiting_ is written by the destructor and never read, and is left out.  *)
(***************************************************************************)
EXTENDS EventLoop

CONSTANT Creator       \* the thread that has the EventLoopThread object

ASSUME CreatorAssumption == Creator \in Threads

VARIABLES io,          \* where threadFunc stands
          creator,     \* where the creator stands
          loop_,       \* is the member loop_ set?
          early        \* history: the destructor ran before loop() was entered

threadVars == <<io, creator, loop_, early>>
allVars == <<vars, threadVars>>

\* The EventLoop, a local variable of threadFunc, exists.
loopAlive == io \in {"init", "published", "looping"}

ThreadInit == /\ Init
              /\ io = "none"
              /\ creator = "new"
              /\ loop_ = FALSE
              /\ early = FALSE
-----------------------------------------------------------------------------
startLoop == /\ creator = "new"
             /\ io' = "init"
             /\ creator' = "check"
             /\ UNCHANGED <<vars, loop_, early>>

\* Mutant: one wait, without a test.
loopSetAlways == TRUE

\* The condition the waiting loop of startLoop tests, under mutex_.
loopSet == loop_

startLoopTest == /\ creator = "check"
                 /\ creator' = IF loopSet THEN "running" ELSE "blocked"
                 /\ UNCHANGED <<vars, io, loop_, early>>

\* Mutant: nobody is notified.
notifyNobody == creator

\* cond_.notify() wakes the creator if it waits.
notified == IF creator = "blocked" THEN "check" ELSE creator

threadFuncPublish == /\ io = "init" /\ at = "idle"
                     /\ loop_' = TRUE
                     /\ creator' = notified
                     /\ io' = "published"
                     /\ UNCHANGED <<vars, early>>

threadFuncLoop == /\ io = "published"
                  /\ loop
                  /\ io' = "looping"
                  /\ UNCHANGED <<creator, loop_, early>>

\* loop() returned: the EventLoop on the stack is destroyed, the thread ends.
threadFuncReturn == /\ io = "looping"
                    /\ at = "idle"
                    /\ io' = "exited"
                    /\ UNCHANGED <<vars, creator, loop_, early>>

\* Mutant: the destructor only sets the flag.
dtorQuitSilent == /\ quit_' = TRUE
                  /\ UNCHANGED <<at, pc, looping_, eventVars, queueVars, channels, wakeupFd>>

\* The destructor calls loop_->quit(), whose wakeup() is a step of its own.
dtorQuit == quit(Creator)

dtor == /\ creator = "running"
        /\ dtorQuit
        /\ creator' = "join"
        /\ early' = (io = "published")
        /\ UNCHANGED <<io, loop_>>

dtorJoin == /\ creator = "join"
            /\ pc[Creator] = "idle"
            /\ io = "exited"
            /\ creator' = "gone"
            /\ UNCHANGED <<vars, io, loop_, early>>

\* The creator uses the loop, while it exists, until it destroys the object.
creatorUses == /\ creator = "running"
               /\ loopAlive
               /\ queueInLoop(Creator)
               /\ UNCHANGED threadVars

creatorWakes == wakeup(Creator) /\ UNCHANGED threadVars

\* Threads that the creator has given the loop to use it, and may quit it, until then.
otherUses(t) == /\ creator = "running"
                /\ loopAlive
                /\ t # Creator
                /\ queueInLoop(t) \/ quit(t)
                /\ UNCHANGED threadVars

otherWakes(t) == t # Creator /\ wakeup(t) /\ UNCHANGED threadVars

ioRuns == /\ io = "looping"
          /\ OwnerRuns
          /\ UNCHANGED threadVars

ioUser == /\ io = "looping" /\ at # "idle"
          /\ \/ pollIo
             \/ pollTimeout
             \/ OwnerCalls
          /\ UNCHANGED threadVars

\* callback_, user code that threadFunc runs on the loop before it publishes it.
ioCallback == /\ io = "init"
              /\ OwnerCalls
              /\ UNCHANGED threadVars

\* The object is gone, or the process.
Done == (creator = "gone" \/ at = "aborted") /\ UNCHANGED allVars

ThreadNext == \/ startLoop \/ startLoopTest \/ dtor \/ dtorJoin
              \/ threadFuncPublish \/ threadFuncLoop \/ threadFuncReturn
              \/ creatorUses \/ creatorWakes
              \/ \E t \in Threads : otherUses(t) \/ otherWakes(t)
              \/ ioRuns \/ ioUser \/ ioCallback
              \/ Done

(***************************************************************************)
(* Every thread runs when it can.  Nothing forces the creator to destroy   *)
(* the object, and nothing but a wake-up ends a poll().                    *)
(***************************************************************************)
ThreadFairness == /\ WF_allVars(startLoopTest)
                  /\ WF_allVars(dtorJoin)
                  /\ WF_allVars(creatorWakes)
                  /\ \A t \in Threads : WF_allVars(otherWakes(t))
                  /\ WF_allVars(threadFuncPublish)
                  /\ WF_allVars(threadFuncLoop)
                  /\ WF_allVars(threadFuncReturn)
                  /\ WF_allVars(ioRuns)

ThreadSpec == ThreadInit /\ [][ThreadNext]_allVars /\ ThreadFairness
-----------------------------------------------------------------------------
(***************************************************************************)
(* StartedLoopAlive: unless a callback quits the loop, the pointer that    *)
(* startLoop returned is set and stays valid until the destructor runs.    *)
(***************************************************************************)
StartedLoopAlive == creator = "running" /\ ~quit_ => loop_ /\ loopAlive

(***************************************************************************)
(* StartReturns: startLoop returns; the notification in threadFunc is not  *)
(* missed, whichever thread gets the mutex first, unless an assertion of   *)
(* callback_ fails.                                                        *)
(***************************************************************************)
StartReturns == creator \in {"check", "blocked"} ~> (creator = "running" \/ at = "aborted")

(***************************************************************************)
(* JoinReturns: a destructor that runs once loop() has been entered makes  *)
(* the loop return, and so the thread ends and is joined, whether or not a *)
(* callback quits the loop at the same time, unless a callback's assertion *)
(* fails.                                                                  *)
(***************************************************************************)
JoinReturns == (creator = "join" /\ ~early) ~> (creator = "gone" \/ at = "aborted")

(***************************************************************************)
(* JoinAlwaysReturns: the destructor makes the loop return and the thread  *)
(* end, as the comment on its loop_->quit() says, whenever it runs.        *)
(***************************************************************************)
JoinAlwaysReturns == creator = "join" ~> (creator = "gone" \/ at = "aborted")
-----------------------------------------------------------------------------
(***************************************************************************)
(* The invariant behind StartedLoopAlive: the stages of threadFunc and of  *)
(* the creator agree, and loop() returns only when quit_ is set.           *)
(***************************************************************************)
HandoverInv == /\ io \in {"none", "init", "published", "looping", "exited"}
               /\ creator = "new" => io = "none"
               /\ loop_ <=> io \in {"published", "looping", "exited"}
               /\ creator \in {"running", "join", "gone"} => loop_
               /\ io = "looping" /\ at = "idle" => quit_
               /\ io = "exited" => quit_
=============================================================================
