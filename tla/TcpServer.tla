----------------------------- MODULE TcpServer -----------------------------
(***************************************************************************)
(* muduo::net::TcpServer: the acceptor loop Base, the IO loops of the      *)
(* thread pool, the connections, and one further thread that uses them.    *)
(*                                                                         *)
(* A loop is its queue of functors (what FunctorQueue promises) and the    *)
(* batch that doPendingFunctors has taken from it.  The batch matters for  *)
(* the life of a connection: its functors, and the shared pointers bound   *)
(* in them, exist until the last one has been called.  One handler or one  *)
(* functor is one step.  A connection is destroyed with the last shared    *)
(* pointer to it; see Alive.                                               *)
(***************************************************************************)
EXTENDS TcpConnection, FiniteSetsExt

CONSTANTS Base,   \* the acceptor loop, loop_
          Uses    \* the programs that use the server; a behaviour is of one of them

(***************************************************************************)
(* A program:                                                              *)
(*                                                                         *)
(*   pool      sequence of the loops of threadPool_                        *)
(*   conns     bound: connections that ever arrive                         *)
(*   sends     bound: calls of send() on one connection                    *)
(*   shutdown  does user code in a loop call shutdown()?                   *)
(*   thread    does another thread call send()?                            *)
(*   destroy   is the TcpServer destroyed?                                 *)
(*   handler   may that happen in a handler of the base loop?              *)
(***************************************************************************)
PoolLoops(u) == {u.pool[i] : i \in 1..Len(u.pool)}

ASSUME UseAssumption ==
  \A u \in Uses : /\ u.pool \in Seq(PoolLoops(u)) /\ Base \notin PoolLoops(u)
                  /\ u.conns \in Nat /\ u.sends \in Nat
                  /\ {u.shutdown, u.thread, u.destroy, u.handler} \subseteq BOOLEAN

MaxConns == Max({u.conns : u \in Uses})

VARIABLES use,           \* the program
          conn,          \* sequence of the TcpConnections made so far
          loopOf,        \* the loop each of them belongs to
          peer,          \* the other end: "open", "reset" or "closed"
          connections_,  \* keys of the server's map
          next_,         \* round robin position in the pool, from 0
          server,        \* "up", or "gone" once destroyed
          queue,         \* pendingFunctors_ of each loop
          batch,         \* the functors a loop is calling
          called,        \* how many of them it has called
          stopped,       \* loops whose thread has been joined
          held,          \* connections the user thread has a pointer to
          user,          \* connections whose send() has passed its test
          sends,         \* calls of send() on each connection
          failed         \* assertions that failed, dead objects used

serverVars == <<connections_, next_, server>>
loopsVars == <<queue, batch, called, stopped>>
userVars == <<held, user, sends>>
vars == <<use, conn, loopOf, peer, serverVars, loopsVars, userVars, failed>>

Loops == {Base} \cup PoolLoops(use)

Made == 1..Len(conn)

\* Functors that hold a shared pointer; sendInLoop binds a bare this.
Strong == {"connectEstablished", "connectDestroyed", "removeConnectionInLoop",
           "writeComplete", "highWaterMark"}

Functor(op, c) == [op |-> op, conn |-> c]

Mentions(s, c) == \E i \in 1..Len(s) : s[i].conn = c /\ s[i].op \in Strong

Alive(c) == \/ c \in connections_
            \/ c \in held
            \/ \E l \in Loops : Mentions(queue[l], c) \/ Mentions(batch[l], c)

Init == /\ use \in Uses
        /\ conn = <<>> /\ loopOf = <<>> /\ peer = <<>>
        /\ connections_ = {} /\ next_ = 0 /\ server = "up"
        /\ queue = [l \in Loops |-> <<>>]
        /\ batch = [l \in Loops |-> <<>>]
        /\ called = [l \in Loops |-> 0]
        /\ stopped = {}
        /\ held = {} /\ user = {} /\ sends = <<>>
        /\ failed = {}

\* An assertion of the code.
Assert_(condition, name) == failed' = IF condition THEN failed ELSE failed \cup {name}

Post(l, op, c) == [queue EXCEPT ![l] = Append(@, Functor(op, c))]

\* The callbacks that sendInLoop and handleWrite queue in the connection's loop.
PostCallbacks(c, callbacks) ==
  IF callbacks = {} THEN queue
                    ELSE Post(loopOf[c], CHOOSE op \in callbacks : TRUE, c)

\* The loop is in its events phase: it calls no functors.
InEvents(l) == batch[l] = <<>> /\ l \notin stopped

\* connectionCallback_ may hand the new connection to the user thread.
Handed(c) == IF use.thread THEN held \cup {c} ELSE held
-----------------------------------------------------------------------------
(***************************************************************************)
(* The acceptor's event: TcpServer::newConnection.                         *)
(***************************************************************************)
getNextLoop == IF use.pool = <<>> THEN Base ELSE use.pool[next_ + 1]

\* Mutant: one too far.
nextPositionTooFar == IF next_ + 1 > Len(use.pool) THEN 0 ELSE next_ + 1

\* EventLoopThreadPool::getNextLoop advances, and wraps at loops_.size().
nextPosition == IF next_ + 1 >= Len(use.pool) THEN 0 ELSE next_ + 1

newConnection ==
  LET c == Len(conn) + 1
      ioLoop == getNextLoop
      direct == ioLoop = Base      \* runInLoop calls at once
  IN  /\ server = "up" /\ InEvents(Base)
      /\ c <= use.conns
      /\ next_' = nextPosition
      /\ loopOf' = Append(loopOf, ioLoop)
      /\ peer' = Append(peer, "open")
      /\ connections_' = connections_ \cup {c}
      /\ IF direct
         THEN /\ conn' = Append(conn, connectEstablished(newTcpConnection))
              /\ held' = Handed(c)
              /\ UNCHANGED queue
         ELSE /\ conn' = Append(conn, newTcpConnection)
              /\ queue' = Post(ioLoop, "connectEstablished", c)
              /\ UNCHANGED held
      /\ sends' = Append(sends, 0)
      /\ UNCHANGED <<server, batch, called, stopped, user, failed>>

(***************************************************************************)
(* Events of a connection.  poll() reports what the channel waits for, and *)
(* POLLHUP regardless; a peer that is not open makes the socket readable   *)
(* at every poll.                                                          *)
(***************************************************************************)
Reports(c) ==
  {r \in SUBSET {"IN", "OUT", "HUP"} :
      /\ r # {}
      /\ "IN" \in r => "R" \in conn[c].events
      /\ "OUT" \in r => isWriting(conn[c])
      /\ "HUP" \in r => peer[c] # "open" /\ "IN" \notin r
      /\ peer[c] # "open" => r \cap {"IN", "HUP"} # {}}

poll(c, r) == /\ InEvents(loopOf[c])
              /\ conn[c].added /\ conn[c].events # {} /\ conn[c].revents = {}
              /\ conn' = [conn EXCEPT ![c].revents = r]
              /\ UNCHANGED <<loopOf, peer, serverVars, loopsVars, userVars, failed>>

\* Reading finds the peer closed, or poll() reported a hang-up.
closes(c) == \/ "HUP" \in conn[c].revents
             \/ "IN" \in conn[c].revents /\ peer[c] = "closed"

\* What the handlers for reading and closing leave to handleWrite.
afterRead(c) == LET k == [conn[c] EXCEPT !.revents = {}]
                IN  IF closes(c) THEN handleClose(k) ELSE k

\* Mutant: closeCallback_ is not called.
notRemoved(c, q) == q

\* closeCallback_ is TcpServer::removeConnection, bound to a bare server.
removal(c, q) == IF loopOf[c] = Base
                 THEN [q EXCEPT ![Base] = Append(@, Functor("connectDestroyed", c))]
                 ELSE [q EXCEPT ![Base] = Append(@, Functor("removeConnectionInLoop", c))]

handleEvent(c) ==
  /\ InEvents(loopOf[c])
  /\ conn[c].revents # {}
  /\ \E o \in (IF "OUT" \in conn[c].revents
               THEN handleWrite(afterRead(c), peer[c] = "open")
               ELSE {Outcome(afterRead(c), {})}) :
        /\ conn' = [conn EXCEPT ![c] = o.k]
        /\ queue' = IF closes(c) THEN removal(c, queue) ELSE PostCallbacks(c, o.callbacks)
  /\ connections_' = IF closes(c) /\ loopOf[c] = Base THEN connections_ \ {c}
                                                      ELSE connections_
  /\ peer' = IF "IN" \in conn[c].revents /\ peer[c] = "reset"
             THEN [peer EXCEPT ![c] = "closed"] ELSE peer
  /\ Assert_(/\ closes(c) => closeLegal(conn[c])
             /\ closes(c) /\ loopOf[c] = Base => c \in connections_, "handleClose")
  /\ UNCHANGED <<loopOf, next_, server, batch, called, stopped, userVars>>

\* The peer closes, or resets: then one read fails before reads return 0.
peerLeaves(c) == /\ peer[c] = "open"
                 /\ \E p \in {"reset", "closed"} : peer' = [peer EXCEPT ![c] = p]
                 /\ UNCHANGED <<conn, loopOf, serverVars, loopsVars, userVars, failed>>
-----------------------------------------------------------------------------
(***************************************************************************)
(* doPendingFunctors of loop l.                                            *)
(***************************************************************************)
takeBatch(l) == /\ InEvents(l)
                /\ queue[l] # <<>>
                /\ \A c \in Made : loopOf[c] = l => conn[c].revents = {}
                /\ batch' = [batch EXCEPT ![l] = queue[l]]
                /\ queue' = [queue EXCEPT ![l] = <<>>]
                /\ UNCHANGED <<conn, loopOf, peer, serverVars, called, stopped,
                               userVars, failed>>

endBatch(l) == /\ batch[l] # <<>> /\ called[l] = Len(batch[l])
               /\ batch' = [batch EXCEPT ![l] = <<>>]
               /\ called' = [called EXCEPT ![l] = 0]
               /\ UNCHANGED <<conn, loopOf, peer, serverVars, queue, stopped,
                              userVars, failed>>

\* Loop l calls the next functor of its batch, which is op of c.
calls(l, op, c) == /\ called[l] < Len(batch[l])
                   /\ batch[l][called[l] + 1] = Functor(op, c)
                   /\ called' = [called EXCEPT ![l] = @ + 1]
                   /\ UNCHANGED <<loopOf, peer, batch, stopped, next_, server, user, sends>>

callConnectEstablished(l, c) ==
  /\ calls(l, "connectEstablished", c)
  /\ Assert_(conn[c].state_ = "kConnecting", "connectEstablished")
  /\ conn' = [conn EXCEPT ![c] = connectEstablished(@)]
  /\ held' = Handed(c)
  /\ UNCHANGED <<connections_, queue>>

callConnectDestroyed(l, c) ==
  /\ calls(l, "connectDestroyed", c)
  /\ Assert_(removeLegal(conn[c]), "Channel::remove")
  /\ conn' = [conn EXCEPT ![c] = connectDestroyed(@)]
  /\ UNCHANGED <<connections_, queue, held>>

\* Mutant: nothing keeps the connection until its channel is removed.
notKept(c) == queue

\* ioLoop->queueInLoop(connectDestroyed), with a shared pointer.
kept(c) == Post(loopOf[c], "connectDestroyed", c)

\* The assertion n == 1, on the map of a server that must still exist.
callRemoveConnectionInLoop(l, c) ==
  /\ calls(l, "removeConnectionInLoop", c)
  /\ Assert_(server = "up" /\ c \in connections_, "removeConnectionInLoop")
  /\ connections_' = connections_ \ {c}
  /\ queue' = kept(c)
  /\ UNCHANGED <<conn, held>>

callSendInLoop(l, c) ==
  /\ calls(l, "sendInLoop", c)
  /\ Assert_(Alive(c), "sendInLoop")
  /\ \E o \in sendInLoop(conn[c], 1, peer[c] = "open") :
        conn' = [conn EXCEPT ![c] = o.k] /\ queue' = PostCallbacks(c, o.callbacks)
  /\ UNCHANGED <<connections_, held>>

\* writeCompleteCallback_ or highWaterMarkCallback_ of the user.
callUser(l, c) == /\ \/ calls(l, "writeComplete", c)
                     \/ calls(l, "highWaterMark", c)
                  /\ UNCHANGED <<conn, connections_, queue, held, failed>>
-----------------------------------------------------------------------------
(***************************************************************************)
(* User code.  In the connection's loop, send and shutdown act at once; in *)
(* another thread send() tests state_ and then queues.                     *)
(***************************************************************************)
CountSend(c) == sends[c] < use.sends /\ sends' = [sends EXCEPT ![c] = @ + 1]

send(c, n) ==
  /\ loopOf[c] \notin stopped
  /\ Alive(c) /\ conn[c].state_ = "kConnected"
  /\ conn[c].out + n <= MaxOut
  /\ CountSend(c)
  /\ \E o \in sendInLoop(conn[c], n, peer[c] = "open") :
        conn' = [conn EXCEPT ![c] = o.k] /\ queue' = PostCallbacks(c, o.callbacks)
  /\ UNCHANGED <<loopOf, peer, serverVars, batch, called, stopped, held, user, failed>>

shutdown(c) ==
  /\ use.shutdown
  /\ loopOf[c] \notin stopped
  /\ Alive(c) /\ conn[c].state_ = "kConnected"
  /\ conn' = [conn EXCEPT ![c] = shutdownInLoop([@ EXCEPT !.state_ = "kDisconnecting"])]
  /\ UNCHANGED <<loopOf, peer, serverVars, loopsVars, userVars, failed>>

userTests(c) == /\ c \in held \ user
                /\ conn[c].state_ = "kConnected"
                /\ CountSend(c)
                /\ user' = user \cup {c}
                /\ UNCHANGED <<conn, loopOf, peer, serverVars, loopsVars, held, failed>>

\* A loop whose thread was joined no longer exists.
userQueues(c) == /\ c \in user
                 /\ user' = user \ {c}
                 /\ Assert_(loopOf[c] \notin stopped, "runInLoop")
                 /\ queue' = IF loopOf[c] \in stopped THEN queue
                                                      ELSE Post(loopOf[c], "sendInLoop", c)
                 /\ UNCHANGED <<conn, loopOf, peer, serverVars, batch, called, stopped,
                                held, sends>>

userReleases(c) == /\ c \in held \ user
                   /\ held' = held \ {c}
                   /\ UNCHANGED <<conn, loopOf, peer, serverVars, loopsVars, user, sends, failed>>
-----------------------------------------------------------------------------
(***************************************************************************)
(* ~TcpServer, in the thread of the base loop: connectDestroyed for every  *)
(* connection of the map, at once or through the queue of its loop; then   *)
(* the threads of the pool are told to quit and joined, and what they      *)
(* still have in their queues is dropped.  It runs outside loop() or in a  *)
(* functor; or in a handler, of another channel or the message callback of *)
(* a connection.  Then EventLoop::removeChannel looks for the channel in   *)
(* activeChannels_, where any registered one may be, handled or not.       *)
(***************************************************************************)
\* The ways in which the map, sorted by names, may list the connections of S.
Orders(S) == {s \in [1..Cardinality(S) -> S] : \A c \in S : \E i \in DOMAIN s : s[i] = c}

\* What the queue of l may become.
Orphaned(l) ==
  {queue[l] \o [i \in DOMAIN s |-> Functor("connectDestroyed", s[i])] :
     s \in Orders({c \in connections_ : loopOf[c] = l})}

\* The connections that ~TcpServer destroys at once.
Here == {c \in connections_ : loopOf[c] = Base}

\* The assertion that connectDestroyed fails on connection c, if it fails one.
Refused(c) == IF removeLegal(conn[c]) THEN "EventLoop::removeChannel" ELSE "Channel::remove"

\* ~TcpServer while the connections of active are in activeChannels_, in a handler of those of own.
destroyed(active, own) ==
  LET bad == {c \in Here : ~removeLegal(conn[c]) \/ c \in active \ own}
  IN  IF bad = {}
      THEN /\ server' = "gone"
           /\ connections_' = {}
           /\ conn' = [c \in Made |->
                         IF c \in Here THEN [connectDestroyed(conn[c]) EXCEPT !.revents = {}]
                                      ELSE conn[c]]
           /\ queue' \in [Loops -> UNION {Orphaned(l) : l \in Loops \ {Base}}
                                      \cup {queue[Base]}]
           /\ \A l \in Loops : IF l = Base THEN queue'[l] = queue[l]
                                           ELSE queue'[l] \in Orphaned(l)
           /\ UNCHANGED failed
      ELSE /\ \E c \in bad : failed' = failed \cup {Refused(c)}
           /\ UNCHANGED <<conn, connections_, server, queue>>

Active == {c \in Made : loopOf[c] = Base /\ conn[c].revents # {}}

destroyServer ==
  /\ use.destroy /\ server = "up"
  /\ Active = {} /\ destroyed({}, {})
  /\ UNCHANGED <<loopOf, peer, next_, batch, called, stopped, userVars>>

destroyServerInHandler ==
  /\ use.destroy /\ use.handler /\ server = "up" /\ InEvents(Base)
  /\ \E active \in SUBSET {c \in Made : loopOf[c] = Base /\ conn[c].added} :
        /\ Active \subseteq active
        /\ \/ destroyed(active, {})
           \/ \E c \in Active : /\ "IN" \in conn[c].revents /\ peer[c] = "open"
                               /\ destroyed(active, {c})
  /\ UNCHANGED <<loopOf, peer, next_, batch, called, stopped, userVars>>

joinLoop(l) == /\ server = "gone"
               /\ l # Base /\ InEvents(l)
               /\ \A c \in Made : loopOf[c] = l => conn[c].revents = {}
               /\ stopped' = stopped \cup {l}
               /\ queue' = [queue EXCEPT ![l] = <<>>]
               /\ UNCHANGED <<conn, loopOf, peer, serverVars, batch, called, userVars, failed>>
-----------------------------------------------------------------------------
LoopRuns(l) == \/ takeBatch(l) \/ endBatch(l)
               \/ \E c \in Made : \/ callConnectEstablished(l, c)
                                  \/ callConnectDestroyed(l, c)
                                  \/ callRemoveConnectionInLoop(l, c)
                                  \/ callSendInLoop(l, c)
                                  \/ callUser(l, c)
                                  \/ loopOf[c] = l /\ handleEvent(c)

\* A peer that left is reported by the next poll().
pollGone(c) == peer[c] # "open" /\ \E r \in Reports(c) : poll(c, r)

pollWritable(c) == \E r \in Reports(c) : "OUT" \in r /\ poll(c, r)

\* A failed assertion aborts the process, a dead object that is used makes the rest undefined.
Next == /\ failed = {}
        /\ \/ newConnection
           \/ \E l \in Loops : LoopRuns(l) \/ joinLoop(l)
           \/ \E c \in Made : \/ \E r \in Reports(c) : poll(c, r)
                              \/ peerLeaves(c)
                              \/ \E n \in 1..2 : send(c, n)
                              \/ shutdown(c)
                              \/ userTests(c) \/ userQueues(c) \/ userReleases(c)
           \/ destroyServer \/ destroyServerInHandler
        /\ UNCHANGED use

Spec == Init /\ [][Next]_vars

(***************************************************************************)
(* Loops run; poll() reports a peer that left, and reports again and again *)
(* that a peer which reads has made room.                                  *)
(***************************************************************************)
Fairly(A) == failed = {} /\ A /\ UNCHANGED use

FairSpec == /\ Spec
            /\ \A l \in {Base} \cup UNION {PoolLoops(u) : u \in Uses} :
                  WF_vars(Fairly(l \in Loops /\ LoopRuns(l)))
            /\ \A c \in 1..MaxConns :
                  /\ WF_vars(Fairly(c \in Made /\ pollGone(c)))
                  /\ SF_vars(Fairly(c \in Made /\ pollWritable(c)))
-----------------------------------------------------------------------------
Operations == Strong \cup {"sendInLoop"}

TypeOK == /\ use \in Uses
          /\ conn \in Seq(Connection)
          /\ loopOf \in Seq(Loops) /\ Len(loopOf) = Len(conn)
          /\ peer \in Seq({"open", "reset", "closed"}) /\ Len(peer) = Len(conn)
          /\ connections_ \subseteq Made
          /\ next_ = 0 \/ next_ \in 1..(Len(use.pool) - 1)
          /\ server \in {"up", "gone"}
          /\ queue \in [Loops -> Seq([op : Operations, conn : Made])]
          /\ batch \in [Loops -> Seq([op : Operations, conn : Made])]
          /\ called \in [Loops -> Nat]
          /\ \A l \in Loops : called[l] <= Len(batch[l])
          /\ stopped \subseteq Loops \ {Base}
          /\ held \subseteq Made /\ user \subseteq held
          /\ sends \in Seq(Nat) /\ Len(sends) = Len(conn)
          /\ failed \subseteq {"connectEstablished", "handleClose", "Channel::remove",
                              "EventLoop::removeChannel", "removeConnectionInLoop",
                              "sendInLoop", "runInLoop"}

(***************************************************************************)
(* NoAssertionFails: connectEstablished finds kConnecting, handleClose     *)
(* finds a live state, removeConnectionInLoop finds the connection in the  *)
(* map, Channel::remove finds no event enabled, EventLoop::removeChannel   *)
(* no channel still active; and nothing that was freed is used.            *)
(***************************************************************************)
NoAssertionFails == failed = {}

(***************************************************************************)
(* RemoveSeesNoEvents: Channel::remove is called with every event disabled *)
(* (its assertion and the comment above it).                               *)
(***************************************************************************)
RemoveSeesNoEvents == "Channel::remove" \notin failed

(***************************************************************************)
(* SendFindsConnection: a sendInLoop that another thread queued runs on a  *)
(* connection that still exists; send() is said to be thread safe.         *)
(***************************************************************************)
SendFindsConnection == "sendInLoop" \notin failed

(***************************************************************************)
(* ChannelOwned: a channel the poller knows belongs to a connection that   *)
(* exists, so that no event is delivered to freed memory (tie_, guardThis  *)
(* and the functor queued by removeConnectionInLoop).                      *)
(***************************************************************************)
ChannelOwned == \A c \in Made : conn[c].added /\ loopOf[c] \notin stopped => Alive(c)

(***************************************************************************)
(* UpThenDown: connectionCallback_ reports a connection up at most once    *)
(* and down at most once, never down before up, and a connection that has  *)
(* been freed was reported both up and down.                               *)
(***************************************************************************)
UpThenDown == \A c \in Made :
                 /\ conn[c].downs <= conn[c].ups /\ conn[c].ups <= 1
                 /\ ~Alive(c) /\ stopped = {} => conn[c].downs = 1

(***************************************************************************)
(* FinAfterData: SHUT_WR is issued only when outputBuffer_ is empty, and   *)
(* nothing is buffered behind it as long as the peer is there to receive   *)
(* it (shutdownInLoop, handleWrite, sendInLoop).                           *)
(***************************************************************************)
FinAfterData ==
  [][\A c \in Made : conn'[c].fin /\ (~conn[c].fin \/ peer'[c] = "open")
                         => conn'[c].out = 0]_vars

(***************************************************************************)
(* GoneIsFreed: when the peer leaves, the connection is eventually freed,  *)
(* unless the user thread keeps its pointer, the connection's loop is      *)
(* stopped or an assertion fails (handleClose, removeConnectionInLoop,     *)
(* connectDestroyed).                                                      *)
(***************************************************************************)
GoneIsFreed == \A c \in 1..MaxConns :
   (c \in Made /\ peer[c] # "open" /\ c \notin held)
      ~> (~Alive(c) \/ c \in held \/ loopOf[c] \in stopped \/ failed # {})

(***************************************************************************)
(* ShutdownEnds: shutdown() is eventually followed by SHUT_WR, however     *)
(* full outputBuffer_ was, unless the connection is closed, the server     *)
(* destroyed or an assertion fails first.                                  *)
(***************************************************************************)
ShutdownEnds == \A c \in 1..MaxConns :
   (c \in Made /\ conn[c].state_ = "kDisconnecting")
      ~> (\/ server = "gone" \/ failed # {}
          \/ c \in Made /\ (conn[c].fin \/ conn[c].state_ = "kDisconnected"))
-----------------------------------------------------------------------------
(***************************************************************************)
(* The inductive invariant behind the safety properties.                   *)
(***************************************************************************)
\* What a loop that has called n functors of its batch b has yet to call, in order.
Left(b, n, q) == SubSeq(b, n + 1, Len(b)) \o q
Pending(l) == Left(batch[l], called[l], queue[l])

Waits(P, op, c) == \E i \in 1..Len(P) : P[i] = Functor(op, c)

Unique(P, op, c) ==
  \A i, j \in 1..Len(P) : P[i] = Functor(op, c) /\ P[j] = Functor(op, c) => i = j

\* Every connectDestroyed of c has a connectEstablished of c before it.
EstablishedFirst(P, c) ==
  \A i \in 1..Len(P) : P[i] = Functor("connectDestroyed", c) =>
     \E j \in 1..(i - 1) : P[j] = Functor("connectEstablished", c)

Awaits(l, op, c) == Waits(Pending(l), op, c)

\* The state of a connection, its channel, its callbacks and its buffer.
LifeInv(k) ==
  /\ k.ups = (IF k.state_ = "kConnecting" THEN 0 ELSE 1)
  /\ k.downs = (IF k.state_ = "kDisconnected" THEN 1 ELSE 0)
  /\ k.state_ \in {"kConnecting", "kDisconnected"} => k.events = {} /\ k.revents = {}
  /\ k.state_ = "kConnecting" => ~k.added /\ k.out = 0
  /\ k.state_ = "kConnected" => k.added
  /\ k.revents # {} => k.added
  /\ k.state_ # "kDisconnected" /\ k.out > 0 => isWriting(k)

\* An event is handled before functors are called.
EventInv(c) == conn[c].revents # {} => batch[loopOf[c]] = <<>>

\* The map holds a connection until it is closed.
MapInv(c) == /\ server = "up" /\ conn[c].state_ # "kDisconnected" => c \in connections_
             /\ server = "gone" /\ loopOf[c] = Base /\ conn[c].state_ # "kDisconnected"
                  => ~conn[c].added
             /\ conn[c].state_ = "kConnecting" => loopOf[c] # Base

\* A new connection waits for connectEstablished, any other for its removal.
CoverInv(c) ==
  loopOf[c] \notin stopped =>
     /\ conn[c].state_ = "kConnecting" => Awaits(loopOf[c], "connectEstablished", c)
     /\ conn[c].added \/ conn[c].state_ = "kConnecting"
          => \/ c \in connections_
             \/ Awaits(Base, "removeConnectionInLoop", c)
             \/ Awaits(loopOf[c], "connectDestroyed", c)

\* Without ~TcpServer behind it, only what is closed is destroyed.
ClosedFirst == ~use.destroy \/ use.pool = <<>>

\* What is true while a functor of c waits in loop l.
EstablishInv(l, c) ==
  /\ Awaits(l, "connectEstablished", c) => l = loopOf[c] /\ conn[c].state_ = "kConnecting"
  /\ Unique(Pending(l), "connectEstablished", c)

DestroyInv(l, c) ==
  /\ Awaits(l, "connectDestroyed", c) =>
        l = loopOf[c] /\ (ClosedFirst => conn[c].state_ = "kDisconnected")
  /\ conn[c].state_ = "kConnecting" => EstablishedFirst(Pending(l), c)

RemoveInv(l, c) ==
  /\ Awaits(l, "removeConnectionInLoop", c) =>
        /\ l = Base /\ loopOf[c] # Base /\ conn[c].state_ = "kDisconnected"
        /\ server = "up" => c \in connections_
  /\ Unique(Pending(l), "removeConnectionInLoop", c)

SendInv(l, c) ==
  Awaits(l, "sendInLoop", c) => use.thread /\ conn[c].state_ # "kConnecting"

\* What depends on the program.
UseInv == /\ ~use.destroy => server = "up"
          /\ ~use.thread => held = {}
          /\ stopped # {} => server = "gone"
          /\ \A l \in stopped : batch[l] = <<>>

ShutInv(c) == conn[c].state_ = "kDisconnecting" => /\ use.shutdown
                                                   /\ use.destroy \/ conn[c].added

\* What may fail in program u.
MayFail(u) == (IF u.thread THEN {"sendInLoop"} ELSE {})
              \cup (IF u.thread /\ u.destroy THEN {"runInLoop"} ELSE {})
              \cup (IF u.destroy /\ u.handler THEN {"EventLoop::removeChannel"} ELSE {})
              \cup (IF u.destroy /\ u.shutdown THEN {"Channel::remove"} ELSE {})
              \cup (IF u.destroy /\ u.pool # <<>> THEN {"removeConnectionInLoop"} ELSE {})

\* A program in which nothing fails.
CorrectUse(u) == ~u.thread /\ (u.destroy => u.pool = <<>> /\ ~u.shutdown /\ ~u.handler)

(***************************************************************************)
(* FailuresExplained: only a program that another thread sends in, or that *)
(* destroys the server in one of three ways, can fail, and then only in    *)
(* the ways of MayFail; connectEstablished and handleClose never fail      *)
(* their assertions on state_.                                             *)
(***************************************************************************)
FailuresExplained == failed \subseteq MayFail(use)

UserInv(c) == c \in user => conn[c].state_ # "kConnecting"

ConnInv(c) == /\ LifeInv(conn[c]) /\ EventInv(c) /\ MapInv(c)
              /\ CoverInv(c) /\ ShutInv(c) /\ UserInv(c)

FunctorInv(l, c) == EstablishInv(l, c) /\ DestroyInv(l, c) /\ RemoveInv(l, c) /\ SendInv(l, c)

IInv == /\ TypeOK /\ UseInv /\ FailuresExplained
        /\ \A c \in Made : ConnInv(c)
        /\ \A l \in Loops : \A c \in Made : FunctorInv(l, c)

\* After SHUT_WR the buffer stays empty while the peer is open.
FinInv == \A c \in Made : conn[c].fin /\ peer[c] = "open"
                              => conn[c].out = 0 /\ ~isWriting(conn[c])
=============================================================================
