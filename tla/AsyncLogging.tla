---------------------------- MODULE AsyncLogging ----------------------------
(***************************************************************************)
(* muduo::AsyncLogging: front-end threads append log lines to buffers, one *)
(* back-end thread writes full buffers to the file, an owner starts and    *)
(* stops it.                                                               *)
(*                                                                         *)
(* A buffer is the sequence of the lines in it; lines are numbered in the  *)
(* order in which append took the mutex, which is also all that tells the  *)
(* front-end threads apart.  The reserve buffers nextBuffer_, newBuffer1   *)
(* and newBuffer2 are empty whenever they are present, so only their       *)
(* presence is kept.                                                       *)
(***************************************************************************)
EXTENDS Integers, Sequences, SequencesExt

CONSTANTS MaxLines,   \* bound: lines appended
          Capacity,   \* lines that fit into a buffer
          Backlog     \* more buffers than this are dropped; 25 in the code

ASSUME LinesAssumption == MaxLines \in Nat
ASSUME CapacityAssumption == Capacity \in Nat \ {0}
ASSUME BacklogAssumption == Backlog \in Nat /\ Backlog >= 2

VARIABLES running_,
          currentBuffer_, nextBuffer_, buffers_,   \* shared, under mutex_
          at,                                      \* where threadFunc is
          newBuffer1, newBuffer2, buffersToWrite,  \* its locals
          written,                                 \* lines in the file
          dropped,                                 \* lines thrown away
          appended,                                \* lines appended
          owner                                    \* where start() or stop() is

sharedVars == <<currentBuffer_, nextBuffer_, buffers_>>
localVars == <<newBuffer1, newBuffer2, buffersToWrite>>
fileVars == <<written, dropped>>
vars == <<running_, sharedVars, at, localVars, fileVars, appended, owner>>

BackEnd == {"none", "start", "while", "lock", "waiting", "woken", "write", "exited"}
Owner == {"new", "latch", "up", "notify", "join", "done"}

Init == /\ running_ = FALSE
        /\ currentBuffer_ = <<>> /\ nextBuffer_ = TRUE /\ buffers_ = <<>>
        /\ at = "none"
        /\ newBuffer1 = TRUE /\ newBuffer2 = TRUE /\ buffersToWrite = <<>>
        /\ written = <<>> /\ dropped = <<>>
        /\ appended = 0
        /\ owner = "new"
-----------------------------------------------------------------------------
\* cond_.notify(): the back end leaves its wait, if it waits.
notified == IF at = "waiting" THEN "woken" ELSE at

\* Mutant: the line that finds no room is lost.
placedLate(line) == <<>>

\* The line that finds no room goes to the fresh buffer.
placed(line) == <<line>>

\* Mutant: the room in the buffer is not looked at.
FitsAlways == TRUE

\* Room for the line in currentBuffer_.
Fits == Len(currentBuffer_) < Capacity

\* AsyncLogging::append.
append == /\ appended < MaxLines /\ owner # "done"
          /\ appended' = appended + 1
          /\ IF Fits
             THEN /\ currentBuffer_' = Append(currentBuffer_, appended + 1)
                  /\ UNCHANGED <<nextBuffer_, buffers_, at>>
             ELSE /\ buffers_' = Append(buffers_, currentBuffer_)
                  /\ nextBuffer_' = FALSE
                  /\ currentBuffer_' = placed(appended + 1)
                  /\ at' = notified
          /\ UNCHANGED <<running_, localVars, fileVars, owner>>
-----------------------------------------------------------------------------
(***************************************************************************)
(* start and stop.                                                         *)
(***************************************************************************)
start == /\ owner = "new"
         /\ running_' = TRUE
         /\ at' = "start"
         /\ owner' = "latch"
         /\ UNCHANGED <<sharedVars, localVars, fileVars, appended>>

\* latch_.countDown() by threadFunc lets start() return.
threadBegins == /\ at = "start"
                /\ at' = "while"
                /\ owner' = IF owner = "latch" THEN "up" ELSE owner
                /\ UNCHANGED <<running_, sharedVars, localVars, fileVars, appended>>

stop == /\ owner = "up"
        /\ running_' = FALSE
        /\ owner' = "notify"
        /\ UNCHANGED <<sharedVars, at, localVars, fileVars, appended>>

stopNotifies == /\ owner = "notify"
                /\ at' = notified
                /\ owner' = "join"
                /\ UNCHANGED <<running_, sharedVars, localVars, fileVars, appended>>

stopJoins == /\ owner = "join" /\ at = "exited"
             /\ owner' = "done"
             /\ UNCHANGED <<running_, sharedVars, at, localVars, fileVars, appended>>
-----------------------------------------------------------------------------
(***************************************************************************)
(* threadFunc.                                                             *)
(***************************************************************************)
whileRunning == /\ at = "while"
                /\ at' = IF running_ THEN "lock" ELSE "exited"
                /\ UNCHANGED <<running_, sharedVars, localVars, fileVars, appended, owner>>

wait == /\ at = "lock" /\ buffers_ = <<>>
        /\ at' = "waiting"
        /\ UNCHANGED <<running_, sharedVars, localVars, fileVars, appended, owner>>

\* Mutant: the wait has no time limit.
waitForever == FALSE /\ UNCHANGED vars

\* waitForSeconds(flushInterval_) times out, or wakes spuriously.
waitForSeconds == /\ at = "waiting"
                  /\ at' = "woken"
                  /\ UNCHANGED <<running_, sharedVars, localVars, fileVars, appended, owner>>

\* The rest of the critical section, entered with the mutex held.
takeBuffers == /\ at = "woken" \/ (at = "lock" /\ buffers_ # <<>>)
               /\ buffersToWrite' = Append(buffers_, currentBuffer_)
               /\ buffers_' = <<>>
               /\ currentBuffer_' = <<>>
               /\ newBuffer1' = FALSE
               /\ nextBuffer_' = TRUE
               /\ newBuffer2' = (newBuffer2 /\ nextBuffer_)
               /\ at' = "write"
               /\ UNCHANGED <<running_, fileVars, appended, owner>>

\* What is written of a backlog: its first two buffers.
toFile == IF Len(buffersToWrite) > Backlog THEN SubSeq(buffersToWrite, 1, 2)
                                           ELSE buffersToWrite
toDrop == SubSeq(buffersToWrite, Len(toFile) + 1, Len(buffersToWrite))

\* Mutant: one buffer is kept, not two.
recyclableOne == IF Len(toFile) > 1 THEN 1 ELSE Len(toFile)

\* Buffers left for newBuffer1 and newBuffer2 after resize(2).
recyclable == IF Len(toFile) > 2 THEN 2 ELSE Len(toFile)

\* The lines that a backlog loses.
droppedThen == dropped \o FlattenSeq(toDrop)

write == /\ at = "write"
         /\ written' = written \o FlattenSeq(toFile)
         /\ dropped' = droppedThen
         /\ newBuffer1' = (newBuffer1 \/ recyclable >= 1)
         /\ newBuffer2' = (newBuffer2 \/ recyclable - (IF newBuffer1 THEN 0 ELSE 1) >= 1)
         /\ buffersToWrite' = <<>>
         /\ at' = "while"
         /\ UNCHANGED <<running_, sharedVars, appended, owner>>
-----------------------------------------------------------------------------
BackEndRuns == threadBegins \/ whileRunning \/ wait \/ takeBuffers \/ write

\* The object is gone.
Quiet == /\ owner = "done"
         /\ UNCHANGED vars

Next == \/ append
        \/ start \/ stop \/ stopNotifies \/ stopJoins
        \/ BackEndRuns \/ waitForSeconds
        \/ Quiet

Spec == Init /\ [][Next]_vars

(***************************************************************************)
(* The threads run, and a timed wait ends.  Nobody has to append or stop.  *)
(***************************************************************************)
Fairness == /\ WF_vars(BackEndRuns) /\ WF_vars(waitForSeconds)
            /\ WF_vars(stopNotifies) /\ WF_vars(stopJoins)

FairSpec == Spec /\ Fairness
-----------------------------------------------------------------------------
Buffers == Seq(Seq(1..MaxLines))

TypeOK == /\ running_ \in BOOLEAN
          /\ currentBuffer_ \in Seq(1..MaxLines) /\ Len(currentBuffer_) <= Capacity
          /\ nextBuffer_ \in BOOLEAN
          /\ buffers_ \in Buffers
          /\ at \in BackEnd
          /\ newBuffer1 \in BOOLEAN /\ newBuffer2 \in BOOLEAN
          /\ buffersToWrite \in Buffers
          /\ written \in Seq(1..MaxLines) /\ dropped \in Seq(1..MaxLines)
          /\ appended \in 0..MaxLines
          /\ owner \in Owner

(***************************************************************************)
(* EnoughToRecycle: when threadFunc has written, it finds a buffer for     *)
(* each of newBuffer1 and newBuffer2 that it gave away (the assertions     *)
(* before pop_back); so whenever it begins a round, both are present and   *)
(* buffersToWrite is empty (its first three assertions).                   *)
(***************************************************************************)
EnoughToRecycle ==
  /\ at = "write" =>
        recyclable >= (IF newBuffer1 THEN 0 ELSE 1) + (IF newBuffer2 THEN 0 ELSE 1)
  /\ at \in {"while", "lock", "waiting", "woken"} =>
        newBuffer1 /\ newBuffer2 /\ buffersToWrite = <<>>

Increasing(s) == \A i, j \in DOMAIN s : i < j => s[i] < s[j]

\* The lines of w, of the buffers b and of the buffer c.
Lines(w, b, c) == w \o FlattenSeq(b) \o c

(***************************************************************************)
(* InOrderOnce: the file, the buffers being written, the full buffers and  *)
(* the current one hold all lines appended and not dropped, each once, in  *)
(* the order of the appends.                                               *)
(***************************************************************************)
InOrderOnce ==
  LET lines == Lines(written, buffersToWrite \o buffers_, currentBuffer_)
  IN  Increasing(lines) /\ ToSet(lines) = (1..appended) \ ToSet(dropped)

(***************************************************************************)
(* LinesWritten: an appended line reaches the file within a finite time,   *)
(* even if its buffer never fills (flushInterval_), unless the backlog     *)
(* rule drops it or stop() is called.                                      *)
(***************************************************************************)
LinesWritten ==
  \A k \in 1..MaxLines :
     (appended >= k /\ owner # "new")
        ~> (k \in ToSet(written) \cup ToSet(dropped) \/ owner \in {"notify", "join", "done"})

(***************************************************************************)
(* StopReturns: stop() returns, even if its notification, sent without the *)
(* mutex, comes before the back end waits.                                 *)
(***************************************************************************)
StopReturns == owner = "notify" ~> owner = "done"
-----------------------------------------------------------------------------
(***************************************************************************)
(* The inductive invariant of the three invariants above.  nextBuffer_ is  *)
(* missing only while buffers_ has a buffer; so the round that gives away  *)
(* newBuffer2 has at least two buffers to write.  start() finds no back    *)
(* end that could be in the middle of a round.                             *)
(***************************************************************************)
ReserveInv == ~nextBuffer_ => buffers_ # <<>>

RoundInv == IF at = "write"
            THEN /\ ~newBuffer1
                 /\ buffersToWrite # <<>>
                 /\ ~newBuffer2 => Len(buffersToWrite) >= 2
            ELSE newBuffer1 /\ newBuffer2 /\ buffersToWrite = <<>>

StartInv == owner = "new" => at = "none"

\* What is dropped was appended, so that the next line is a new one.
DroppedInv == ToSet(dropped) \subseteq 1..appended

IInv == TypeOK /\ ReserveInv /\ StartInv /\ RoundInv /\ DroppedInv /\ InOrderOnce
=============================================================================
