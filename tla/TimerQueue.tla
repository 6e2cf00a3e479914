----------------------------- MODULE TimerQueue -----------------------------
(***************************************************************************)
(* muduo::net::TimerQueue, with Timer and TimerId: the timers of one loop, *)
(* used by the loop's own thread and by one other thread.                  *)
(*                                                                         *)
(* A Timer lives at an address of the heap, and addresses are reused.      *)
(* Time is counted in ticks; one tick stands for the 100 microseconds that *)
(* resetTimerfd asks for at least.  The loop is at "idle" (functors and    *)
(* handlers other than handleRead), or inside handleRead: at "batch"       *)
(* between two callbacks, at "callback" in one.                            *)
(***************************************************************************)
EXTENDS Integers, Sequences, FiniteSets

CONSTANTS Addrs,       \* addresses, numbers: std::set orders them
          MaxTimers,   \* bound: timers created
          MaxTime,     \* bound: the clock
          MaxQueue,    \* bound: functors waiting in the loop
          Intervals,   \* intervals of new timers, 0 for a one-shot timer
          OtherThread  \* does another thread add and cancel timers?

ASSUME AddrAssumption == Addrs \subseteq Nat
ASSUME TimeAssumption == MaxTime \in Nat \ {0} /\ Intervals \subseteq Nat
ASSUME CountAssumption == MaxTimers \in Nat /\ MaxQueue \in Nat

VARIABLES now,                    \* the clock
          heap,                   \* address to Timer, or Free
          created,                \* Timer::s_numCreated_
          timers_, activeTimers_, \* the two sets of TimerQueue
          cancelingTimers_,
          callingExpiredTimers_,
          armed,                  \* when timerfd_ fires, or Never
          at,                     \* where the loop is
          batchNow,               \* `now' of handleRead
          expired,                \* local of handleRead
          toRun,                  \* the entries whose callback is yet to be called
          running,                \* sequence of the timer being called, or 0
          queue,                  \* functors of the loop
          other,                  \* addTimer of the other thread: <<>> or <<ActiveTimer>>
          ids,                    \* the TimerIds the user got
          cancelled,              \* sequences cancelInLoop was called for, once inserted
          ran                     \* sequences of one-shot timers called

setVars == <<timers_, activeTimers_, cancelingTimers_, callingExpiredTimers_>>
batchVars == <<at, batchNow, expired, toRun, running>>
userVars == <<queue, other, ids>>
vars == <<now, heap, created, setVars, armed, batchVars, userVars, cancelled, ran>>

Free == [seq |-> 0]
Never == -1

Allocated == {a \in Addrs : heap[a] # Free}

Init == /\ now = 1
        /\ heap = [a \in Addrs |-> Free] /\ created = 0
        /\ timers_ = {} /\ activeTimers_ = {} /\ cancelingTimers_ = {}
        /\ callingExpiredTimers_ = FALSE
        /\ armed = Never
        /\ at = "idle" /\ batchNow = 0 /\ expired = {} /\ toRun = {} /\ running = 0
        /\ queue = <<>> /\ other = <<>> /\ ids = {}
        /\ cancelled = {} /\ ran = {}
-----------------------------------------------------------------------------
(***************************************************************************)
(* timerfd.  The relative time given to timerfd_settime is never 0, which  *)
(* would disarm it.                                                        *)
(***************************************************************************)
\* Mutant: no minimum.  0 disarms, a negative time is refused.
resetTimerfdExact(when) == IF when > now THEN when ELSE IF when = now THEN Never ELSE armed

resetTimerfd(when) == IF when - now < 1 THEN now + 1 ELSE when

Readable == armed # Never /\ armed <= now

Entry(a, t) == <<t.when, a>>
ActiveTimer(a, t) == <<a, t.seq>>

\* The order of std::pair<Timestamp, Timer*>.
Before(e, f) == e[1] < f[1] \/ (e[1] = f[1] /\ e[2] < f[2])
First(S) == CHOOSE e \in S : \A f \in S \ {e} : Before(e, f)

earliestChanged(when) == timers_ = {} \/ when < First(timers_)[1]

\* insert and, from addTimerInLoop, the new setting of the timerfd.
addTimerInLoop(a, t) ==
  /\ timers_' = timers_ \cup {Entry(a, t)}
  /\ activeTimers_' = activeTimers_ \cup {ActiveTimer(a, t)}
  /\ armed' = IF earliestChanged(t.when) THEN resetTimerfd(t.when) ELSE armed
  /\ UNCHANGED <<cancelingTimers_, callingExpiredTimers_>>

\* Mutant: s_numCreated_ is not counted.
allocateUncounted(a, t) == /\ created < MaxTimers
                           /\ a \notin Allocated
                           /\ heap' = [heap EXCEPT ![a] = t]
                           /\ UNCHANGED created

\* new Timer, at any free address.
allocate(a, t) == /\ created < MaxTimers
                  /\ a \notin Allocated
                  /\ heap' = [heap EXCEPT ![a] = t]
                  /\ created' = created + 1

NewTimers == [seq : {created + 1}, when : 1..MaxTime, interval : Intervals]

\* addTimer in the loop's own thread, in a callback or outside handleRead.
addTimer(a, t) == /\ at \in {"idle", "callback"}
                  /\ allocate(a, t)
                  /\ addTimerInLoop(a, t)
                  /\ ids' = ids \cup {ActiveTimer(a, t)}
                  /\ UNCHANGED <<now, batchVars, queue, other, cancelled, ran>>

(***************************************************************************)
(* cancelInLoop.                                                           *)
(***************************************************************************)
\* Timers whose addTimerInLoop waits in the queue.
Queued == {queue[i].id : i \in {j \in 1..Len(queue) : queue[j].op = "add"}}

\* Mutants: looked up by address alone; the Timer is not deleted.
foundByAddress(id) == {e \in activeTimers_ : e[1] = id[1]}
deletedNone(a) == heap

found(id) == activeTimers_ \cap {id}

deleted(a) == [heap EXCEPT ![a] = Free]

\* Mutant: a timer that is being called cannot be cancelled.
cancelingNone(id) == cancelingTimers_

canceling(id) == IF callingExpiredTimers_ THEN cancelingTimers_ \cup {id} ELSE cancelingTimers_

cancelInLoop(id) ==
  /\ IF found(id) # {}
     THEN \E e \in found(id) :
            LET a == e[1] IN
            /\ timers_' = timers_ \ {Entry(a, heap[a])}
            /\ heap' = deleted(a)
            /\ activeTimers_' = activeTimers_ \ {e}
            /\ UNCHANGED cancelingTimers_
     ELSE /\ cancelingTimers_' = canceling(id)
          /\ UNCHANGED <<timers_, heap, activeTimers_>>
  /\ cancelled' = IF id \in Queued THEN cancelled ELSE cancelled \cup {id[2]}
  /\ UNCHANGED callingExpiredTimers_

\* cancel in the loop's own thread.
cancel(id) == /\ at \in {"idle", "callback"}
              /\ id \in ids
              /\ cancelInLoop(id)
              /\ UNCHANGED <<now, created, armed, batchVars, userVars, ran>>
-----------------------------------------------------------------------------
(***************************************************************************)
(* handleRead: from the expired timers to the first callback, the calls,   *)
(* and reset.                                                              *)
(***************************************************************************)
getExpired == {e \in timers_ : e[1] <= now}

\* Mutant: the expired timers stay in activeTimers_.
erasedNone == {}

\* What getExpired erases from activeTimers_.
erased == {ActiveTimer(e[2], heap[e[2]]) : e \in getExpired}

handleRead == /\ at = "idle"
              /\ Readable
              /\ armed' = Never
              /\ batchNow' = now
              /\ expired' = getExpired /\ toRun' = getExpired
              /\ timers_' = timers_ \ getExpired
              /\ activeTimers_' = activeTimers_ \ erased
              /\ callingExpiredTimers_' = TRUE
              /\ cancelingTimers_' = {}
              /\ at' = "batch"
              /\ UNCHANGED <<now, heap, created, running, userVars, cancelled, ran>>

run == /\ at = "batch" /\ toRun # {}
       /\ LET e == First(toRun)
              t == heap[e[2]]
          IN  /\ toRun' = toRun \ {e}
              /\ running' = t.seq
              /\ ran' = IF t.interval = 0 THEN ran \cup {t.seq} ELSE ran
       /\ at' = "callback"
       /\ UNCHANGED <<now, heap, created, setVars, armed, batchNow, expired, userVars, cancelled>>

runReturns == /\ at = "callback"
              /\ at' = "batch" /\ running' = 0
              /\ UNCHANGED <<now, heap, created, setVars, armed, batchNow, expired, toRun,
                             userVars, cancelled, ran>>

\* Repeating timers that were not cancelled are restarted, the others deleted.
Restarts(e) == /\ heap[e[2]].interval > 0
               /\ ActiveTimer(e[2], heap[e[2]]) \notin cancelingTimers_

\* Timer::restart: relative to the time at which handleRead began.
restarted(t) == [t EXCEPT !.when = batchNow + t.interval]

\* The end of reset: the timerfd is set for the earliest timer, if there is one.
rearmed(S) == IF S = {} THEN armed ELSE resetTimerfd(First(S)[1])

reset ==
  LET again == {e[2] : e \in {f \in expired : Restarts(f)}}
      over == {e[2] : e \in expired} \ again
  IN  /\ at = "batch" /\ toRun = {}
      /\ heap' = [a \in Addrs |-> IF a \in over THEN Free
                                  ELSE IF a \in again THEN restarted(heap[a]) ELSE heap[a]]
      /\ timers_' = timers_ \cup {Entry(a, restarted(heap[a])) : a \in again}
      /\ activeTimers_' = activeTimers_ \cup {ActiveTimer(a, heap[a]) : a \in again}
      /\ armed' = rearmed(timers_')
      /\ callingExpiredTimers_' = FALSE
      /\ expired' = {} /\ batchNow' = 0
      /\ at' = "idle"
      /\ UNCHANGED <<now, created, cancelingTimers_, toRun, running, userVars, cancelled, ran>>
-----------------------------------------------------------------------------
(***************************************************************************)
(* The other thread.  addTimer makes the Timer and queues addTimerInLoop;  *)
(* after that it reads the sequence of the Timer for the TimerId.  Read    *)
(* from a deleted Timer, it is the old value or one the heap left there.   *)
(***************************************************************************)
sequenceRead(a, seq) == IF heap[a] = Free THEN {0, seq} ELSE {heap[a].seq}

otherAdds(a, t) == /\ OtherThread /\ other = <<>> /\ Len(queue) < MaxQueue
                   /\ allocate(a, t)
                   /\ queue' = Append(queue, [op |-> "add", id |-> ActiveTimer(a, t)])
                   /\ other' = <<ActiveTimer(a, t)>>
                   /\ UNCHANGED <<now, setVars, armed, batchVars, ids, cancelled, ran>>

otherReturns == /\ other # <<>>
                /\ \E s \in sequenceRead(other[1][1], other[1][2]) :
                     ids' = ids \cup {<<other[1][1], s>>}
                /\ other' = <<>>
                /\ UNCHANGED <<now, heap, created, setVars, armed, batchVars, queue,
                               cancelled, ran>>

otherCancels(id) == /\ OtherThread /\ other = <<>> /\ Len(queue) < MaxQueue
                    /\ id \in ids
                    /\ queue' = Append(queue, [op |-> "cancel", id |-> id])
                    /\ UNCHANGED <<now, heap, created, setVars, armed, batchVars, other, ids,
                                   cancelled, ran>>

callAddTimerInLoop == /\ at = "idle" /\ queue # <<>> /\ Head(queue).op = "add"
                      /\ LET a == Head(queue).id[1] IN addTimerInLoop(a, heap[a])
                      /\ queue' = Tail(queue)
                      /\ UNCHANGED <<now, heap, created, batchVars, other, ids, cancelled, ran>>

callCancelInLoop == /\ at = "idle" /\ queue # <<>> /\ Head(queue).op = "cancel"
                    /\ cancelInLoop(Head(queue).id)
                    /\ queue' = Tail(queue)
                    /\ UNCHANGED <<now, created, armed, batchVars, other, ids, ran>>

tick == /\ now < MaxTime
        /\ now' = now + 1
        /\ UNCHANGED <<heap, created, setVars, armed, batchVars, userVars, cancelled, ran>>
-----------------------------------------------------------------------------
Next == \/ handleRead \/ run \/ runReturns \/ reset
        \/ \E a \in Addrs : \E t \in NewTimers : addTimer(a, t) \/ otherAdds(a, t)
        \/ \E id \in ids : cancel(id) \/ otherCancels(id)
        \/ otherReturns
        \/ callAddTimerInLoop \/ callCancelInLoop
        \/ tick

Spec == Init /\ [][Next]_vars
-----------------------------------------------------------------------------
Timer == [seq : 1..MaxTimers, when : Nat, interval : Nat]
TimerIds == Addrs \X Nat
Functors == [op : {"add", "cancel"}, id : TimerIds]

TypeOK == /\ now \in 1..MaxTime
          /\ heap \in [Addrs -> Timer \cup {Free}]
          /\ created \in 0..MaxTimers
          /\ timers_ \subseteq Nat \X Addrs /\ activeTimers_ \subseteq TimerIds
          /\ cancelingTimers_ \subseteq TimerIds
          /\ callingExpiredTimers_ = (at # "idle")
          /\ armed \in Int
          /\ at \in {"idle", "batch", "callback"}
          /\ batchNow \in Nat /\ running \in Nat
          /\ expired \subseteq Nat \X Addrs /\ toRun \subseteq expired
          /\ queue \in Seq(Functors) /\ Len(queue) <= MaxQueue
          /\ other \in Seq(TimerIds)
          /\ ids \subseteq TimerIds
          /\ cancelled \subseteq 0..created /\ ran \subseteq 1..created

(***************************************************************************)
(* SameTimers: timers_ and activeTimers_ hold the same timers, under the   *)
(* expiration and the sequence those timers have (the assertions on the    *)
(* sizes and on erase in insert, cancelInLoop and getExpired).             *)
(***************************************************************************)
SameTimers == /\ \A e \in timers_ : e[2] \in Allocated /\ heap[e[2]].when = e[1]
              /\ activeTimers_ = {ActiveTimer(e[2], heap[e[2]]) : e \in timers_}

\* Addresses of the timers in the set, in the batch, and on their way to the set.
Listed == {e[2] : e \in timers_}
Batch == {e[2] : e \in expired}
Waiting == {id[1] : id \in Queued}

(***************************************************************************)
(* OneOwner: a Timer on the heap is either queued for addTimerInLoop, or   *)
(* in timers_, or in the batch of handleRead, and in one of these only: no *)
(* Timer leaks, none is deleted twice and none is used after delete.       *)
(***************************************************************************)
OneOwner == /\ Allocated = Waiting \cup Listed \cup Batch
            /\ Waiting \cap Listed = {} /\ Waiting \cap Batch = {} /\ Listed \cap Batch = {}
            /\ \A e, f \in timers_ : e[2] = f[2] => e = f

(***************************************************************************)
(* EarliestArmed: outside handleRead the timerfd is set, if there is a     *)
(* timer, and fires no later than the earliest one expires or a tick from  *)
(* now (addTimerInLoop, cancelInLoop and reset).                           *)
(***************************************************************************)
EarliestArmed ==
  at = "idle" /\ timers_ # {} =>
     /\ armed # Never
     /\ armed <= (IF First(timers_)[1] > now THEN First(timers_)[1] ELSE now + 1)

Starts(s) == at = "batch" /\ running' = s /\ running' # 0

(***************************************************************************)
(* CallsLegal: a timer is called only when it is due; one without interval *)
(* at most once; and one whose cancel() was carried out after its          *)
(* addTimerInLoop not again, except in a batch that it already belonged to *)
(* (getExpired, cancelInLoop, cancelingTimers_ and reset).                 *)
(***************************************************************************)
CallsLegal ==
  [][/\ \A a \in Addrs : Starts(heap[a].seq) => heap[a].when <= now
     /\ \A s \in ran : ~Starts(s)
     /\ \A s \in cancelled : Starts(s) => \E e \in toRun : <<e[2], s>> \in cancelingTimers_]_vars

(***************************************************************************)
(* OnlyCancelledVanish: a timer leaves timers_ only into the batch of      *)
(* handleRead or because its own TimerId was cancelled, never because of   *)
(* the TimerId of an earlier timer at the same address.                    *)
(***************************************************************************)
OnlyCancelledVanish ==
  [][\A e \in activeTimers_ \ activeTimers_' : e[2] \in cancelled' \/ at' = "batch"]_vars

(***************************************************************************)
(* IdOfLiveTimer: when addTimer reads the sequence of the Timer it made,   *)
(* that Timer still exists (addTimer "must be thread safe").               *)
(***************************************************************************)
IdOfLiveTimer == other # <<>> => heap[other[1][1]].seq = other[1][2]
-----------------------------------------------------------------------------
(***************************************************************************)
(* The inductive invariant behind the properties.                          *)
(*                                                                         *)
(*   SeqInv     a sequence number is given to one Timer only               *)
(*   BatchInv   handleRead's batch: Timers that exist and are due          *)
(*   QueueInv   functors that add a Timer add different ones, as they are  *)
(*   IdInv      a TimerId someone has names no Timer at another address    *)
(*   RanInv     a one-shot Timer that was called waits in the batch to be  *)
(*              deleted                                                    *)
(*   CancelInv  a cancelled Timer that exists is in the batch, and in      *)
(*              cancelingTimers_                                           *)
(***************************************************************************)
SeqInv == /\ \A a \in Allocated : heap[a].seq \in 1..created
          /\ \A a, b \in Allocated : heap[a].seq = heap[b].seq => a = b

BatchInv == /\ at = "idle" => expired = {}
            /\ at # "callback" => running = 0
            /\ \A e \in expired : /\ e[2] \in Allocated
                                   /\ heap[e[2]].when = e[1]
                                   /\ e[1] <= now

IsAdd(i) == i \in 1..Len(queue) /\ queue[i].op = "add"

QueueInv == /\ \A i, j \in 1..Len(queue) :
                  IsAdd(i) /\ IsAdd(j) /\ queue[i].id[1] = queue[j].id[1] => i = j
            /\ \A id \in Queued : id[1] \in Allocated /\ heap[id[1]].seq = id[2]

Known == ids \cup {queue[i].id : i \in 1..Len(queue)} \cup {other[i] : i \in 1..Len(other)}

IdInv == \A id \in Known : /\ id[2] <= created
                           /\ \A a \in Allocated : heap[a].seq = id[2] => a = id[1]

RanInv == \A a \in Allocated :
             heap[a].seq \in ran => /\ heap[a].interval = 0
                                    /\ a \in Batch /\ \A e \in toRun : e[2] # a

CancelInv == \A a \in Allocated :
                heap[a].seq \in cancelled => /\ a \in Batch
                                             /\ <<a, heap[a].seq>> \in cancelingTimers_

IInv == /\ TypeOK /\ SeqInv /\ BatchInv /\ SameTimers /\ OneOwner /\ QueueInv /\ IdInv
        /\ RanInv /\ CancelInv /\ EarliestArmed
=============================================================================
