----------------------------- MODULE TcpClient -----------------------------
(***************************************************************************)
(* muduo::net::TcpClient with its Connector and the connections it makes,  *)
(* one after the other, in one EventLoop over either poller.               *)
(*                                                                         *)
(* The loop goes through its phases: poll() fills the active channels,     *)
(* they are handled in any order, then the functors queued so far are      *)
(* called.  Everything happens in the loop's thread, except that another   *)
(* thread may call stop().  A failed assertion ends the program, and so    *)
(* does the use of an object that was freed.  The lengths of the delays    *)
(* (retryDelayMs_) are left out; a delay outlasts one iteration of the     *)
(* loop, unless the program is slow.                                       *)
(***************************************************************************)
EXTENDS TcpConnection, Maps

CONSTANTS Uses,   \* the programs that use the client
          Fds     \* bound: numbers of the sockets

(***************************************************************************)
(* A program has called connect() when the behaviour begins.               *)
(*                                                                         *)
(*   poller   "poll" or "epoll"                                            *)
(*   retry    did it call enableRetry()?                                   *)
(*   calls    what it calls in the loop's thread: "stop", "disconnect" and *)
(*            "destroy", the destructor                                    *)
(*   thread   does another thread call stop()?                             *)
(*   slow     may a callback take longer than a delay, and have timers of  *)
(*            the program expired when it returns?                         *)
(*                                                                         *)
(* The program keeps a pointer to a connection until it is told that the   *)
(* connection is down: nothing else keeps it when the client is destroyed. *)
(***************************************************************************)
ASSUME ClientAssumption ==
  /\ Fds \subseteq Nat \ {0, 1}
  /\ \A u \in Uses : /\ u.poller \in {"poll", "epoll"}
                     /\ {u.retry, u.thread, u.slow} \subseteq BOOLEAN
                     /\ u.calls \subseteq {"stop", "disconnect", "destroy"}

None == 0      \* no socket

VARIABLES use,           \* the program
          client,        \* "up", or "gone" once destroyed
          connect_,      \* TcpClient::connect_
          connection_,   \* socket of the connection, or None
          connectorOn,   \* Connector::connect_
          state_,        \* Connector::state_
          channel_,      \* socket of Connector::channel_, or None
          timers,        \* startInLoop timers that wait
          hack,          \* the timer of the destructor waits
          conn,          \* socket -> connection
          closeCallback_,\* socket -> "client" or "detail"
          peer,          \* socket -> "open" or "closed"
          poller,        \* record of PollPoller or EPollPoller
          phase,         \* "poll", "events", "restart" or "functors"
          active,        \* what is still to be handled in this iteration
          revents,       \* what poll() reported for the connector's channel
          queue,         \* pendingFunctors_
          batch,         \* functors still to be called
          other,         \* the other thread in stop()
          stopped,       \* history: stop() has run to its end
          overtaken,     \* history: restart() came after the store of stop()
          gaveUp,        \* history: connect() failed for good
          failed         \* assertions that failed, freed objects used

clientVars == <<client, connect_, connection_, hack>>
connectorVars == <<connectorOn, state_, channel_, timers>>
connVars == <<conn, closeCallback_, peer>>
loopVars == <<phase, active, revents, queue, batch>>
history == <<stopped, overtaken, gaveUp>>
vars == <<use, clientVars, connectorVars, connVars, poller, loopVars, other, history, failed>>

PP == INSTANCE PollPoller
EP == INSTANCE EPollPoller

UpdateChannel(p, ch, fd, events) == IF use.poller = "poll"
                                    THEN PP!updateChannel(p, ch, fd, events)
                                    ELSE EP!updateChannel(p, ch, fd, events)
RemoveChannel(p, ch, fd) == IF use.poller = "poll" THEN PP!removeChannel(p, ch, fd)
                                                   ELSE EP!removeChannel(p, ch, fd)
UpdateLegal(p, ch, fd, events) == IF use.poller = "poll"
                                  THEN PP!updateLegal(p, ch, fd, events)
                                  ELSE EP!updateLegal(p, ch, fd, events)
RemoveLegal(p, ch, fd) == IF use.poller = "poll" THEN PP!removeLegal(p, ch, fd)
                                                 ELSE EP!removeLegal(p, ch, fd)
Watched == IF use.poller = "poll" THEN PP!Watched(poller) ELSE EP!Watched(poller)

\* The channels of the loop: those of EventLoop, the connector's, a connection's.
TimerChannel == <<"timer", 0>>
WakeupChannel == <<"wakeup", 1>>
ConnectorChannel(fd) == <<"connector", fd>>
ConnChannel(fd) == <<"connection", fd>>
Channels == {TimerChannel, WakeupChannel} \cup {ConnectorChannel(fd) : fd \in Fds}
                                          \cup {ConnChannel(fd) : fd \in Fds}

\* The poller as the constructor of EventLoop leaves it.
newPoller(u) ==
  IF u.poller = "poll"
  THEN PP!updateChannel(PP!updateChannel(PP!newPoller, TimerChannel, 0, {"R"}),
                        WakeupChannel, 1, {"R"})
  ELSE EP!updateChannel(EP!updateChannel(EP!newPoller, TimerChannel, 0, {"R"}),
                        WakeupChannel, 1, {"R"})

Functor(op, fd) == [op |-> op, fd |-> fd]

Init == /\ use \in Uses
        /\ client = "up" /\ connect_ = TRUE /\ connection_ = None /\ hack = FALSE
        /\ connectorOn = TRUE /\ state_ = "kDisconnected" /\ channel_ = None /\ timers = 0
        /\ conn = <<>> /\ closeCallback_ = <<>> /\ peer = <<>>
        /\ poller = newPoller(use)
        /\ phase = "poll" /\ active = {} /\ revents = {}
        /\ queue = <<Functor("startInLoop", None)>> /\ batch = <<>>
        /\ other = IF use.thread THEN "idle" ELSE "done"
        /\ stopped = FALSE /\ overtaken = FALSE /\ gaveUp = FALSE
        /\ failed = {}

\* The name of an assertion that does not hold; the first failure ends the program.
Unless(holds, name) == IF holds THEN {} ELSE {name}

Elements(s) == {s[i] : i \in 1..Len(s)}

Waiting == Elements(batch) \cup Elements(queue)

Pending(op) == Functor(op, None) \in Waiting

\* Nothing holds the connector: neither the client nor a timer of retry() or ~TcpClient.
Freed == client = "gone" /\ timers = 0 /\ ~hack

\* The assertion in ~Connector, when the last pointer to it goes.
lastPointer(holds) == Unless(holds \/ channel_ = None, "~Connector")

\* The numbers of open sockets; one that was closed may be given out again at once.
UsedFds == DOMAIN conn \cup (IF state_ = "kConnecting" THEN {channel_} ELSE {})
newFd == CHOOSE fd \in Fds \ UsedFds : \A d \in Fds \ UsedFds : fd <= d
-----------------------------------------------------------------------------
(***************************************************************************)
(* Connector.                                                              *)
(***************************************************************************)
\* Mutant: the attempt is not repeated.
retryTimersNone(n, on) == n

\* retry(): n timers before it, connect_ as given; afterwards kDisconnected.
retryTimers(n, on) == IF on THEN n + 1 ELSE n

\* connect(), called when n timers wait, with its three kinds of outcome; Fds bounds the first.
connect(n) ==
  \/ /\ UsedFds # Fds
     /\ state_' = "kConnecting"
     /\ channel_' = newFd
     /\ poller' = UpdateChannel(poller, ConnectorChannel(newFd), newFd, {"W"})
     /\ timers' = n
     /\ failed' = Unless(channel_ = None, "connecting")
                    \cup Unless(UpdateLegal(poller, ConnectorChannel(newFd), newFd, {"W"}), "poller")
     /\ UNCHANGED gaveUp
  \/ /\ state_' = "kDisconnected"
     /\ timers' = retryTimers(n, TRUE)
     /\ UNCHANGED <<channel_, poller, gaveUp, failed>>
  \/ /\ state_' = "kDisconnected"
     /\ timers' = n
     /\ gaveUp' = TRUE
     /\ UNCHANGED <<channel_, poller, failed>>

\* Mutant: a timer connects although stop() was called.
WantedAlways(on) == TRUE

\* startInLoop()'s test of connect_.
Wanted(on) == on

\* startInLoop(), with connect_ = on.
startInLoop(n, on) ==
  IF state_ # "kDisconnected"
  THEN /\ failed' = {"startInLoop"}
       /\ UNCHANGED <<state_, channel_, timers, poller, gaveUp>>
  ELSE IF Wanted(on) THEN connect(n)
       ELSE /\ timers' = n
            /\ failed' = lastPointer(client = "up" \/ n > 0 \/ hack)
            /\ UNCHANGED <<state_, channel_, poller, gaveUp>>

\* The poller once the connector's channel has been disabled and removed.
disabledConnector == UpdateChannel(poller, ConnectorChannel(channel_), channel_, {})
removedConnector == RemoveChannel(disabledConnector, ConnectorChannel(channel_), channel_)

RemoveConnectorLegal ==
  /\ UpdateLegal(poller, ConnectorChannel(channel_), channel_, {})
  /\ RemoveLegal(disabledConnector, ConnectorChannel(channel_), channel_)

resetQueued == Append(queue, Functor("resetChannel", None))

(***************************************************************************)
(* stopInLoop(), with connect_ = on: close the socket of an attempt.       *)
(* EventLoop::removeChannel asserts that the channel is not one that this  *)
(* iteration has yet to handle.                                            *)
(***************************************************************************)
stopInLoop(on) ==
  IF state_ = "kConnecting"
  THEN /\ state_' = "kDisconnected"
       /\ poller' = removedConnector
       /\ queue' = resetQueued
       /\ timers' = retryTimers(timers, on)
       /\ failed' = Unless(RemoveConnectorLegal, "poller")
                      \cup Unless(ConnectorChannel(channel_) \notin active, "EventLoop::removeChannel")
  ELSE UNCHANGED <<state_, poller, queue, timers, failed>>

(***************************************************************************)
(* The event of the connector's channel: handleError for POLLERR, then     *)
(* handleWrite for POLLOUT, which does nothing after the former.           *)
(***************************************************************************)
newConnectionRecord == connectEstablished(newTcpConnection)

\* TcpClient::newConnection, with the poller p.
newConnection(fd, p) ==
  /\ connection_' = fd
  /\ conn' = Put(conn, fd, newConnectionRecord)
  /\ closeCallback_' = Put(closeCallback_, fd, "client")
  /\ peer' = Put(peer, fd, "open")
  /\ poller' = UpdateChannel(p, ConnChannel(fd), fd, {"R"})
  /\ failed' = Unless(RemoveConnectorLegal /\ UpdateLegal(p, ConnChannel(fd), fd, {"R"}), "poller")
                 \cup Unless(client = "up", "newConnection")

\* SO_ERROR is set, or the socket is connected to itself.
attemptFails == /\ state_' = "kDisconnected"
                /\ timers' = retryTimers(timers, connectorOn)
                /\ poller' = removedConnector
                /\ failed' = Unless(RemoveConnectorLegal, "poller")
                               \cup Unless(state_ = "kConnecting", "handleError")
                /\ UNCHANGED <<connection_, connVars>>

attemptSucceeds == /\ state_' = "kConnected"
                   /\ IF connectorOn
                      THEN newConnection(channel_, removedConnector)
                      ELSE /\ poller' = removedConnector
                           /\ failed' = Unless(RemoveConnectorLegal, "poller")
                           /\ UNCHANGED <<connection_, connVars>>
                   /\ UNCHANGED timers

handleConnector == /\ phase = "events" /\ ConnectorChannel(channel_) \in active
                   /\ active' = active \ {ConnectorChannel(channel_)}
                   /\ revents' = {}
                   /\ \/ attemptFails
                      \/ revents = {"OUT"} /\ attemptSucceeds
                   /\ queue' = resetQueued
                   /\ UNCHANGED <<client, connect_, hack, connectorOn, channel_, phase, batch,
                                  other, history>>
-----------------------------------------------------------------------------
(***************************************************************************)
(* The event of a connection whose peer closed: TcpConnection::handleClose *)
(* and its closeCallback_, TcpClient::removeConnection or, set by the      *)
(* destructor, detail::removeConnection.  removeConnection tests retry_    *)
(* and connect_, and only then calls restart().                            *)
(***************************************************************************)
Reconnects == use.retry /\ connect_

handleConnection(fd) ==
  /\ phase = "events" /\ ConnChannel(fd) \in active
  /\ active' = active \ {ConnChannel(fd)}
  /\ conn' = [conn EXCEPT ![fd] = handleClose(@)]
  /\ poller' = UpdateChannel(poller, ConnChannel(fd), fd, {})
  /\ queue' = Append(queue, Functor("connectDestroyed", fd))
  /\ IF closeCallback_[fd] = "client"
     THEN /\ connection_' = None
          /\ phase' = IF Reconnects THEN "restart" ELSE "events"
     ELSE UNCHANGED <<connection_, phase>>
  /\ failed' = Unless(UpdateLegal(poller, ConnChannel(fd), fd, {}), "poller")
                 \cup Unless(closeLegal(conn[fd]), "handleClose")
                 \cup Unless(closeCallback_[fd] = "client" => client = "up" /\ connection_ = fd,
                             "removeConnection")
  /\ UNCHANGED <<client, connect_, hack, connectorVars, closeCallback_, peer, revents, batch,
                 other, history>>

\* Connector::restart() sets connect_ whatever happened to it meanwhile.
restart == /\ phase = "restart"
           /\ connectorOn' = TRUE
           /\ overtaken' = (overtaken \/ ~connect_)
           /\ connect(timers)
           /\ phase' = "events"
           /\ UNCHANGED <<clientVars, connVars, active, revents, queue, batch, other, stopped>>

\* Mutant: runEvery instead of runAfter.
expiredNever == timers

\* The timers left when one of them expires.
expired == timers - 1

\* A timer of the connector, the one of the destructor, or only others of the program.
handleTimer == /\ phase = "events" /\ TimerChannel \in active
               /\ active' = active \ {TimerChannel}
               /\ \/ timers > 0 /\ startInLoop(expired, connectorOn) /\ UNCHANGED hack
                  \/ /\ hack
                     /\ hack' = FALSE
                     /\ failed' = lastPointer(timers > 0)
                     /\ UNCHANGED <<state_, channel_, timers, poller, gaveUp>>
                  \/ /\ timers = 0 /\ ~hack
                     /\ UNCHANGED <<hack, state_, channel_, timers, poller, gaveUp, failed>>
               /\ UNCHANGED <<client, connect_, connection_, connectorOn, connVars, phase,
                              revents, queue, batch, other, stopped, overtaken>>
-----------------------------------------------------------------------------
(***************************************************************************)
(* The loop.                                                               *)
(***************************************************************************)
\* What poll() may report, among the channels the poller watches.
Occurs(ch) == CASE ch[1] = "timer" -> \/ (timers > 0 \/ hack) /\ ~Pending("resetChannel")
                                      \/ use.slow
                [] ch[1] = "wakeup" -> FALSE
                [] ch[1] = "connector" -> TRUE
                [] ch[1] = "connection" -> peer[ch[2]] = "closed"
Ready == {ch \in {w[1] : w \in Watched} : Occurs(ch)}

poll == /\ phase = "poll"
        /\ phase' = "events"
        /\ active' \in SUBSET Ready
        /\ active' # {} \/ queue # <<>>
        /\ revents' \in (IF ConnectorChannel(channel_) \in active' THEN {{"OUT"}, {"ERR", "OUT"}} ELSE {{}})
        /\ UNCHANGED <<clientVars, connectorVars, connVars, poller, queue, batch, other,
                       history, failed>>

takeBatch == /\ phase = "events" /\ active = {}
             /\ phase' = "functors"
             /\ batch' = queue
             /\ queue' = <<>>
             /\ UNCHANGED <<clientVars, connectorVars, connVars, poller, active, revents, other,
                            history, failed>>

\* The functors are destroyed, and with them connections nobody else points to.
Kept(fd) == connection_ = fd \/ conn[fd].state_ # "kDisconnected"
                             \/ Functor("connectDestroyed", fd) \in Elements(queue)
endBatch == LET kept == {fd \in DOMAIN conn : Kept(fd)}
            IN  /\ phase = "functors" /\ batch = <<>>
                /\ phase' = "poll"
                /\ conn' = [fd \in kept |-> conn[fd]]
                /\ closeCallback_' = [fd \in kept |-> closeCallback_[fd]]
                /\ peer' = [fd \in kept |-> peer[fd]]
                /\ UNCHANGED <<clientVars, connectorVars, poller, active, revents, queue, batch,
                               other, history, failed>>

calls(op) == /\ phase = "functors" /\ batch # <<>> /\ Head(batch).op = op
             /\ batch' = Tail(batch)
             /\ UNCHANGED <<clientVars, connectorOn, closeCallback_, peer, phase, active, revents,
                            other, overtaken>>

\* start() and stop() bind a bare Connector*.
callStartInLoop ==
  /\ calls("startInLoop")
  /\ IF Freed THEN failed' = {"Connector"} /\ UNCHANGED <<state_, channel_, timers, poller, gaveUp>>
              ELSE startInLoop(timers, connectorOn)
  /\ UNCHANGED <<conn, queue, stopped>>

callStopInLoop ==
  /\ calls("stopInLoop")
  /\ IF Freed THEN failed' = {"Connector"} /\ UNCHANGED <<state_, poller, queue, timers, stopped>>
              ELSE stopInLoop(connectorOn) /\ stopped' = TRUE
  /\ UNCHANGED <<channel_, conn, gaveUp>>

callResetChannel == /\ calls("resetChannel")
                    /\ channel_' = None
                    /\ UNCHANGED <<state_, timers, conn, poller, queue, stopped, gaveUp, failed>>

callConnectDestroyed ==
  LET fd == Head(batch).fd
      p == IF conn[fd].state_ = "kConnected"
           THEN UpdateChannel(poller, ConnChannel(fd), fd, {}) ELSE poller
  IN  /\ calls("connectDestroyed")
      /\ conn' = [conn EXCEPT ![fd] = connectDestroyed(@)]
      /\ poller' = RemoveChannel(p, ConnChannel(fd), fd)
      /\ failed' = Unless(removeLegal(conn[fd]) /\ RemoveLegal(p, ConnChannel(fd), fd), "poller")
      /\ UNCHANGED <<state_, channel_, timers, queue, stopped, gaveUp>>
-----------------------------------------------------------------------------
(***************************************************************************)
(* Calls by the program: in the loop's thread, from a callback or functor, *)
(* and stop() from another thread, which stores twice and queues.          *)
(***************************************************************************)
InLoop(call) == /\ call \in use.calls /\ client = "up"
                /\ phase \in {"events", "functors"}

stop == /\ InLoop("stop")
        /\ connect_' = FALSE
        /\ connectorOn' = FALSE
        /\ stopInLoop(FALSE)
        /\ stopped' = TRUE
        /\ UNCHANGED <<client, connection_, hack, channel_, connVars, phase, active, revents,
                       batch, other, overtaken, gaveUp>>

disconnect == /\ InLoop("disconnect")
              /\ connect_' = FALSE
              /\ conn' = IF connection_ # None /\ conn[connection_].state_ = "kConnected"
                         THEN [conn EXCEPT ![connection_] =
                                  shutdownInLoop([@ EXCEPT !.state_ = "kDisconnecting"])]
                         ELSE conn
              /\ UNCHANGED <<client, connection_, hack, connectorVars, closeCallback_, peer, poller,
                             loopVars, other, history, failed>>

\* Mutant: the connection keeps its callback into the client.
detachedNone(fd) == closeCallback_

\* setCloseCallback(detail::removeConnection), called at once in the loop's thread.
detached(fd) == [closeCallback_ EXCEPT ![fd] = "detail"]

(***************************************************************************)
(* ~TcpClient.  With a connection, the connector is left alone, and ends   *)
(* here if no timer points to it; without one it is stopped and kept for a *)
(* second.                                                                 *)
(***************************************************************************)
destroy == /\ InLoop("destroy")
           /\ client' = "gone"
           /\ IF connection_ # None
              THEN /\ closeCallback_' = detached(connection_)
                   /\ connection_' = None
                   /\ failed' = lastPointer(timers > 0)
                   /\ UNCHANGED <<connectorVars, poller, queue, hack>>
              ELSE /\ connectorOn' = FALSE
                   /\ stopInLoop(FALSE)
                   /\ hack' = TRUE
                   /\ UNCHANGED <<connection_, closeCallback_, channel_>>
           /\ UNCHANGED <<connect_, conn, peer, phase, active, revents, batch, other, history>>

otherStores == /\ other = "idle" /\ client = "up"
               /\ connect_' = FALSE
               /\ other' = "connector"
               /\ UNCHANGED <<client, connection_, hack, connectorVars, connVars, poller, loopVars,
                              history, failed>>

otherStops == /\ other = "connector"
              /\ connectorOn' = FALSE
              /\ other' = "queue"
              /\ failed' = Unless(client = "up", "stop")
              /\ UNCHANGED <<clientVars, state_, channel_, timers, connVars, poller, loopVars,
                             history>>

otherQueues == /\ other = "queue"
               /\ queue' = Append(queue, Functor("stopInLoop", None))
               /\ other' = "done"
               /\ failed' = Unless(~Freed, "stop")
               /\ UNCHANGED <<clientVars, connectorVars, connVars, poller, phase, active, revents,
                              batch, history>>

peerCloses(fd) == /\ peer[fd] = "open"
                  /\ peer' = [peer EXCEPT ![fd] = "closed"]
                  /\ UNCHANGED <<clientVars, connectorVars, conn, closeCallback_, poller, loopVars,
                                 other, history, failed>>
-----------------------------------------------------------------------------
Functors == callStartInLoop \/ callStopInLoop \/ callResetChannel \/ callConnectDestroyed

LoopRuns == \/ poll \/ takeBatch \/ endBatch \/ Functors
            \/ handleConnector \/ handleTimer \/ restart
            \/ \E fd \in DOMAIN conn : handleConnection(fd)

OtherRuns == otherStores \/ otherStops \/ otherQueues

ProgramCalls == stop \/ disconnect \/ destroy

Next == /\ failed = {}
        /\ \/ LoopRuns \/ OtherRuns \/ ProgramCalls
           \/ \E fd \in DOMAIN conn : peerCloses(fd)
        /\ UNCHANGED use

Spec == Init /\ [][Next]_vars

Connecting == handleConnector /\ connection_' # None

(***************************************************************************)
(* The loop runs, poll() reports what stays ready, and a server that is    *)
(* tried again and again accepts in the end: connect() then gets a socket, *)
(* and the attempt succeeds.                                               *)
(***************************************************************************)
FairSpec == /\ Spec
            /\ WF_vars(failed = {} /\ LoopRuns /\ UNCHANGED use)
            /\ \A ch \in Channels :
                  SF_vars(failed = {} /\ poll /\ ch \in active' /\ UNCHANGED use)
            /\ SF_vars(failed = {} /\ LoopRuns /\ state_' = "kConnecting"
                                   /\ state_ # "kConnecting" /\ UNCHANGED use)
            /\ SF_vars(failed = {} /\ poll /\ revents' = {"OUT"} /\ UNCHANGED use)
            /\ SF_vars(failed = {} /\ Connecting /\ UNCHANGED use)
-----------------------------------------------------------------------------
Functors_ == [op : {"startInLoop", "stopInLoop", "resetChannel"}, fd : {None}]
             \cup [op : {"connectDestroyed"}, fd : Fds]

TypeOK == /\ use \in Uses
          /\ client \in {"up", "gone"} /\ connect_ \in BOOLEAN /\ hack \in BOOLEAN
          /\ connection_ \in DOMAIN conn \cup {None}
          /\ connectorOn \in BOOLEAN /\ channel_ \in Fds \cup {None}
          /\ state_ \in {"kDisconnected", "kConnecting", "kConnected"}
          /\ timers \in 0..1
          /\ DOMAIN conn \subseteq Fds
          /\ conn \in [DOMAIN conn -> Connection]
          /\ closeCallback_ \in [DOMAIN conn -> {"client", "detail"}]
          /\ peer \in [DOMAIN conn -> {"open", "closed"}]
          /\ phase \in {"poll", "events", "restart", "functors"}
          /\ active \subseteq Channels
          /\ queue \in Seq(Functors_) /\ batch \in Seq(Functors_)
          /\ other \in {"idle", "connector", "queue", "done"}
          /\ {stopped, overtaken, gaveUp} \subseteq BOOLEAN

\* What may fail in program u; see the README.
MayFail(u) == (IF u.slow THEN {"connecting"} ELSE {})
              \cup (IF u.calls \cap {"stop", "destroy"} # {}
                    THEN {"EventLoop::removeChannel"} ELSE {})
              \cup (IF "destroy" \in u.calls THEN {"~Connector"} ELSE {})
              \cup (IF "destroy" \in u.calls /\ u.thread THEN {"stop"} ELSE {})
              \cup (IF "destroy" \in u.calls /\ (u.thread \/ u.slow) THEN {"Connector"} ELSE {})

(***************************************************************************)
(* NoOtherAssertion: every assertion of Connector, TcpClient, the channels *)
(* and the pollers holds, and neither a callback of a connection nor a     *)
(* functor reaches what was destroyed, except for what MayFail explains by *)
(* what the program does.                                                  *)
(***************************************************************************)
NoOtherAssertion == failed \subseteq MayFail(use)

(***************************************************************************)
(* PollerAgrees: whatever channels came and went, and in whatever places   *)
(* of the poller's array, it watches the connector's channel exactly in    *)
(* state kConnecting, and the connections whose channels wait for events.  *)
(***************************************************************************)
PollerAgrees ==
  failed = {} =>
  Watched = {<<TimerChannel, {"R"}>>, <<WakeupChannel, {"R"}>>}
            \cup (IF state_ = "kConnecting" THEN {<<ConnectorChannel(channel_), {"W"}>>} ELSE {})
            \cup {<<ConnChannel(fd), conn[fd].events>> :
                     fd \in {d \in DOMAIN conn : conn[d].events # {}}}

(***************************************************************************)
(* StopStops: once stop() is over no attempt to connect begins and no      *)
(* connection is established, although the timer of a retry is not         *)
(* cancelled, unless restart() overtook the stop().                        *)
(***************************************************************************)
StopStops == [][stopped /\ ~overtaken => /\ state_' = "kConnecting" => state_ = "kConnecting"
                                         /\ connection_' \in {connection_, None}]_vars

(***************************************************************************)
(* ConnectsAgain: a client that nobody stops gets its connection, and with *)
(* enableRetry() a new one whenever it lost one, through refused attempts, *)
(* timers and removed channels; unless connect() failed for good or an     *)
(* assertion fails.                                                        *)
(***************************************************************************)
ConnectsAgain ==
  use.calls = {} /\ ~use.thread =>
     []((connection_ = None /\ (use.retry \/ state_ # "kConnected"))
           => <>(connection_ # None \/ gaveUp \/ failed # {}))
-----------------------------------------------------------------------------
(***************************************************************************)
(* The inductive invariant behind TypeOK, NoOtherAssertion, PollerAgrees   *)
(* and StopStops.                                                          *)
(***************************************************************************)
Registered(p) == IF use.poller = "poll" THEN PP!Registered(p) ELSE EP!Registered(p)
Sound(p) == IF use.poller = "poll" THEN PP!Sound(p) ELSE EP!Sound(p)

Entry(ch, events) == [channel |-> ch, events |-> events]

\* The poller knows the channels of the loop, of an attempt and of the connections.
PollerInv ==
  LET channels == Registered(poller)
  IN  /\ Sound(poller)
      /\ DOMAIN channels = {0, 1} \cup (IF state_ = "kConnecting" THEN {channel_} ELSE {})
                                  \cup {fd \in DOMAIN conn : conn[fd].added}
      /\ channels[0] = Entry(TimerChannel, {"R"}) /\ channels[1] = Entry(WakeupChannel, {"R"})
      /\ state_ = "kConnecting" => channels[channel_] = Entry(ConnectorChannel(channel_), {"W"})
      /\ \A fd \in DOMAIN conn :
            conn[fd].added => channels[fd] = Entry(ConnChannel(fd), conn[fd].events)

Distinct(s) == \A i, j \in 1..Len(s) : s[i] = s[j] => i = j

\* No functor waits twice; what waits says how far connector and connections are.
FunctorInv ==
  /\ Distinct(batch) /\ Distinct(queue) /\ Elements(batch) \cap Elements(queue) = {}
  /\ Pending("startInLoop") => state_ = "kDisconnected" /\ channel_ = None /\ timers = 0
  /\ Pending("resetChannel") <=> channel_ # None /\ state_ # "kConnecting"
  /\ Pending("stopInLoop") => other = "done"
  /\ \A fd \in Fds : Functor("connectDestroyed", fd) \in Waiting <=>
        fd \in DOMAIN conn /\ conn[fd].added /\ conn[fd].state_ = "kDisconnected"

Live(fd) == fd \in DOMAIN conn /\ conn[fd].state_ # "kDisconnected"

ConnectorInv ==
  /\ state_ = "kConnecting" => channel_ # None /\ channel_ \notin DOMAIN conn
  /\ timers > 0 => state_ = "kDisconnected"
  /\ client = "gone" => state_ = "kConnected" \/ ~connectorOn
  /\ hack => client = "gone" /\ ~connectorOn

\* At most one connection lives; it has the client's callback if it is the client's.
ConnectionInv ==
  /\ connection_ # None => Live(connection_) /\ client = "up"
  /\ \A fd \in DOMAIN conn :
        IF Live(fd)
        THEN /\ closeLegal(conn[fd])
             /\ conn[fd].added /\ conn[fd].events = {"R"}
             /\ state_ = "kConnected" /\ phase # "restart"
             /\ closeCallback_[fd] = "client" <=> connection_ = fd
             /\ \A d \in DOMAIN conn : Live(d) => d = fd
        ELSE conn[fd].events = {}

\* What is active was ready in this iteration, and has stayed so.
ActiveInv ==
  /\ phase \in {"poll", "functors"} => active = {}
  /\ phase # "functors" => batch = <<>>
  /\ phase = "restart" => state_ = "kConnected" /\ channel_ = None /\ client = "up"
  /\ state_ = "kConnected" /\ Functor("resetChannel", None) \in Elements(queue) => phase = "events"
  /\ TimerChannel \in active /\ ~use.slow => IF timers > 0 THEN ~Pending("resetChannel") ELSE hack
  /\ WakeupChannel \notin active
  /\ \A fd \in Fds : ConnectorChannel(fd) \in active => fd = channel_ /\ state_ = "kConnecting"
  /\ \A fd \in Fds : ConnChannel(fd) \in active => Live(fd) /\ channel_ = None

StopInv ==
  /\ other = "connector" => ~connect_
  /\ stopped \/ other = "queue" \/ Pending("stopInLoop") => ~connect_ /\ (connectorOn => overtaken)
  /\ stopped => phase # "restart"

\* What depends on the program; only in a slow one does ~TcpClient's timer overtake start().
OwnerInv ==
  /\ client = "gone" => "destroy" \in use.calls
  /\ other # "done" \/ Pending("stopInLoop") => use.thread
  /\ Pending("startInLoop") /\ ~use.slow => (client = "up" \/ hack) /\ TimerChannel \notin active
  /\ Functor("startInLoop", None) \in Elements(queue) => \/ phase = "poll" /\ client = "up"
                                                       \/ phase = "events"

IInv == /\ TypeOK /\ NoOtherAssertion
        /\ failed = {} => /\ PollerInv /\ FunctorInv /\ ConnectorInv
                          /\ ConnectionInv /\ ActiveInv /\ StopInv /\ OwnerInv
=============================================================================
