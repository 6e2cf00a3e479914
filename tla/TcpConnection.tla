--------------------------- MODULE TcpConnection ---------------------------
(***************************************************************************)
(* muduo::net::TcpConnection with its Channel: the state of one connection *)
(* is a record, each operation that runs in the connection's loop an       *)
(* operator on that record.  TcpServer composes connections, loops and     *)
(* threads.  Bytes are counted, not stored: outputBuffer_ is the number of *)
(* bytes it holds.                                                         *)
(*                                                                         *)
(*   state_   the state of the connection                                  *)
(*   events   what the channel waits for: "R", "W"                         *)
(*   added    the poller knows the channel                                 *)
(*   revents  what poll() reported and handleEvent has yet to handle:      *)
(*            "IN", "OUT", and "HUP" for POLLHUP without POLLIN            *)
(*   out      readableBytes() of outputBuffer_                             *)
(*   fin      shutdown(SHUT_WR) was called on the socket                   *)
(*   ups      calls of connectionCallback_ that reported the connection up *)
(*   downs    calls of connectionCallback_ that reported it down           *)
(***************************************************************************)
EXTENDS Integers, Sequences, FiniteSets

CONSTANTS MaxOut,      \* bound: bytes in outputBuffer_ up to which the loop's user code sends
          HighWater    \* highWaterMark_

ASSUME OutAssumption == MaxOut \in Nat /\ HighWater \in Nat

States == {"kConnecting", "kConnected", "kDisconnecting", "kDisconnected"}

Connection == [state_ : States, events : SUBSET {"R", "W"}, added : BOOLEAN,
               revents : SUBSET {"IN", "OUT", "HUP"}, out : Nat,
               fin : BOOLEAN, ups : Nat, downs : Nat]

newTcpConnection == [state_ |-> "kConnecting", events |-> {}, added |-> FALSE,
                     revents |-> {}, out |-> 0, fin |-> FALSE, ups |-> 0, downs |-> 0]

isWriting(k) == "W" \in k.events

disableAll(k) == [k EXCEPT !.events = {}]

connectEstablished(k) == [k EXCEPT !.state_ = "kConnected", !.events = {"R"},
                                   !.added = TRUE, !.ups = @ + 1]

\* Mutant: the state is not tested.
beforeRemoveAlways(k) ==
  [disableAll(k) EXCEPT !.state_ = "kDisconnected", !.downs = @ + 1]

\* What connectDestroyed does before it calls Channel::remove.
beforeRemove(k) ==
  IF k.state_ = "kConnected"
  THEN [disableAll(k) EXCEPT !.state_ = "kDisconnected", !.downs = @ + 1]
  ELSE k

\* Channel::remove asserts isNoneEvent().
removeLegal(k) == beforeRemove(k).events = {}

connectDestroyed(k) == [beforeRemove(k) EXCEPT !.added = FALSE]

\* The assertion in handleClose.
closeLegal(k) == k.state_ \in {"kConnected", "kDisconnecting"}

\* Mutant: the events stay enabled.
handleCloseEnabled(k) == [k EXCEPT !.state_ = "kDisconnected", !.downs = @ + 1]

\* handleClose up to closeCallback_, which TcpServer models.
handleClose(k) == [disableAll(k) EXCEPT !.state_ = "kDisconnected", !.downs = @ + 1]

\* Mutant: the output buffer is forgotten.
shutdownAtOnce(k) == [k EXCEPT !.fin = TRUE]

shutdownInLoop(k) == IF isWriting(k) THEN k ELSE [k EXCEPT !.fin = TRUE]

(***************************************************************************)
(* sendInLoop of n bytes and handleWrite: the possible outcomes, each the  *)
(* record afterwards and the set of callbacks put into the loop's queue.   *)
(* The kernel takes any number of the bytes; 0 stands for EWOULDBLOCK and  *)
(* for every error but EPIPE, which the code treats alike.  EPIPE drops    *)
(* the bytes; it is possible before SHUT_WR.  After SHUT_WR the kernel     *)
(* takes nothing: EPIPE is certain while the peer is open, but once it has *)
(* left an error may be pending on the socket (ECONNRESET), which write()  *)
(* returns instead and the code does not count as one.                     *)
(***************************************************************************)
Outcome(k, callbacks) == [k |-> k, callbacks |-> callbacks]

\* The bytes that were not written go to outputBuffer_.
buffered(k, remaining) ==
  Outcome([k EXCEPT !.out = @ + remaining, !.events = @ \cup {"W"}],
          IF k.out < HighWater /\ k.out + remaining >= HighWater
          THEN {"highWaterMark"} ELSE {})

sendInLoop(k, n, open) ==
  IF k.state_ = "kDisconnected" THEN {Outcome(k, {})}
  ELSE IF isWriting(k) \/ k.out > 0 THEN {buffered(k, n)}
  ELSE IF k.fin THEN {Outcome(k, {})} \cup (IF open THEN {} ELSE {buffered(k, n)})
  ELSE {buffered(k, n - nwrote) : nwrote \in 0..(n - 1)}
       \cup {Outcome(k, {"writeComplete"})}
       \cup {Outcome(k, {})}

\* Mutant: the waiting shutdown() is forgotten.
drainedOnly(k) == Outcome([k EXCEPT !.out = 0, !.events = @ \ {"W"}], {"writeComplete"})

(***************************************************************************)
(* The end of handleWrite, once outputBuffer_ is empty: stop waiting for   *)
(* POLLOUT, and finish a shutdown() that found the buffer full.            *)
(***************************************************************************)
drained(k) ==
  LET quiet == [k EXCEPT !.out = 0, !.events = @ \ {"W"}]
  IN  Outcome(IF k.state_ = "kDisconnecting" THEN shutdownInLoop(quiet) ELSE quiet,
              {"writeComplete"})

\* A write may fail, and leave everything, only if the peer is not open or after SHUT_WR.
handleWrite(k, open) ==
  IF isWriting(k) /\ ~k.fin
  THEN {drained(k)} \cup {Outcome([k EXCEPT !.out = left], {}) :
                             left \in 1..(IF open THEN k.out - 1 ELSE k.out)}
  ELSE {Outcome(k, {})}
=============================================================================
