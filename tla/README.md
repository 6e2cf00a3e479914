# Verification of jmuduo and of ABCBank

The repository is a course on the muduo network library. `src/src/NN` are
successive snapshots of one program; these specifications model the library of
snapshot 48, `src/src/48/jmuduo/muduo`, the last one that contains all of it
(paths below are relative to that directory), and the bank server of lesson 49,
`src/src/49/ABCBank/BankServer`. Earlier snapshots, the examples, the slides
and the tests are not modelled; nor is `src/src/49/ABCBank/Inc`, which holds the
headers of MySQL.

## 1. Inventory

| component | state | operations | talks to |
|---|---|---|---|
| `net/EventLoop` | `looping_`, `quit_`, `eventHandling_`, `callingPendingFunctors_`, `activeChannels_`, `currentActiveChannel_`, `pendingFunctors_` (mutex), eventfd | `loop`, `quit`, `runInLoop`, `queueInLoop`, `wakeup`, `updateChannel`, `removeChannel` | every other net component runs in a loop and reaches other loops through `queueInLoop` |
| `net/EventLoopThread`, `EventLoopThreadPool` | `loop_`, thread; `loops_`, `next_` | `startLoop`, `threadFunc`, destructor; `start`, `getNextLoop` | own the IO loops of `TcpServer` |
| `net/Channel` | `events_`, `revents_`, `tie_` | enable/disable, `remove`, `handleEvent` | poller below, `TcpConnection`, `Acceptor`, `TimerQueue` above |
| `net/poller/*` | `channels_`, `pollfds_` or an epoll set, index of each channel | `poll`, `updateChannel`, `removeChannel` | `EventLoop` |
| `net/TimerQueue`, `Timer`, `TimerId` | `timers_`, `activeTimers_`, `cancelingTimers_`, timerfd | `addTimer`, `cancel`, `handleRead` | `EventLoop` (functors from other threads, callbacks in the loop) |
| `net/TcpConnection` | `state_`, channel, `outputBuffer_`, reference count | `send`, `shutdown`, `connectEstablished`, `connectDestroyed`, `handleRead/Write/Close/Error` | its loop, the server's close callback, user callbacks |
| `net/TcpServer`, `Acceptor` | `connections_`, `nextConnId_`, `idleFd_` | `start`, `newConnection`, `removeConnection(InLoop)`, destructor | acceptor loop and IO loops |
| `net/Connector`, `TcpClient` | `state_`, `connect_`, `retryDelayMs_`, `connection_` | `start`, `stop`, `restart`, `retry`; `connect`, `disconnect`, destructor | timers, loop |
| `net/Buffer` | reader and writer index | append, retrieve, prepend, `readFd` | `TcpConnection`, HTTP |
| `net/http/*` | parser state, request | `parseRequest`, `onMessage`, `onRequest` | `TcpServer` |
| `base/AsyncLogging` | `currentBuffer_`, `nextBuffer_`, `buffers_`, `running_`; locals of `threadFunc` | `append`, `start`, `stop`, `threadFunc` | `LogFile` |
| `base/ThreadPool`, `BlockingQueue`, `BoundedBlockingQueue`, `CountDownLatch` | queue, count, `running_` | `put`, `take`, `run`, `stop`, `wait`, `countDown` | - |
| `base/LogFile` | file, `rollSize_`, last roll and flush | `append`, `rollFile`, `flush` | `AsyncLogging` |
| ABCBank `BankSession`, `BankThread`, `TransactionManager`, `CMD/*` | one thread and one socket per client | receive a packet, dispatch on its command, answer | `BankService` |
| ABCBank `DAL/BankService`, `MysqlDB` | tables `bank_account` and `trans`, a database connection per request | eleven methods of one to six SQL statements | MySQL |
| ABCBank `BankClient`, `Public` | forms; packing, MD5, IDEA | input, validation, display | `BankServer` |
| logging front end, timestamps, sockets, addresses, thread wrappers | none that matters | formatting, system calls | - |

What is hard: loops of several threads that pass closures to each other; objects
whose life ends with a reference count, or with a stack frame of another
thread; callbacks that change the set being iterated; wake-ups that must not be
lost and must not rely on a ten-second timeout; timers whose storage is reused;
a back end that swaps buffers with its producers; reconnects that race `stop`;
a parser fed with bytes cut anywhere; sessions whose SQL statements interleave,
fail and wait for each other. `PROJECT.json` lists the hazards line by line.

## 2. Modules

| module | models |
|---|---|
| `FunctorQueue` | abstract: what `queueInLoop` and `doPendingFunctors` promise, one FIFO queue |
| `EventLoop` | one loop, its owner's program counter, the threads that call it |
| `EventLoopThread` | extends `EventLoop` with `startLoop`, `threadFunc` and the destructor |
| `TcpConnection` | a connection as a record, each in-loop operation as an operator on it |
| `TcpServer` | extends `TcpConnection`: acceptor loop, IO loops, connections, a user thread, the destructor |
| `TimerQueue` | timers on a heap with reusable addresses, the loop's thread and another one |
| `AsyncLogging` | front ends, back end and owner |
| `PollPoller`, `EPollPoller` | the pollers as records, their operations as operators with predicates for their assertions |
| `Maps` | `std::map` as a function |
| `TcpClient` | extends `TcpConnection`: `TcpClient`, `Connector`, one loop over either poller |
| `Buffer` | the buffer as a record of vector and two indices |
| `Http` | extends `Buffer`: one connection of `HttpServer` |
| `Bank` | the sessions of the bank server and its database |
| `MC*` | instances for TLC |
| `EventLoopProofs`, `EventLoopThreadProofs`, `TimerQueueProofs`, `TcpServerProofs`, `AsyncLoggingProofs`, `TcpClientProofs`, `HttpProofs`, `BankProofs` | theorems about the module of that name |

**EventLoop.** `at` is the owner's position in `loop()`: `while`, `poll`,
`events`, `callback`, `pending`, `functors`, `functor`, or `idle` outside it.
`poll()` has three outcomes, as separate actions so that fairness can tell them
apart: woken through the eventfd, only user descriptors, timeout. User code may
call any operation at `callback`, `functor` and `idle`. A call of `quit` or
`queueInLoop` by another thread is two steps, since the write of the eventfd
follows the flag or the push. Of the eventfd's counter it matters only whether
it is zero (`wakeupFd`). `executed` and `quiet`, the functors that the owner
queued outside `loop()`, are history. `runInLoop` is `queueInLoop` for another
thread and a plain call in the loop's own. A callback may remove any channel;
if the assertion in `removeChannel` fails, the owner stays at `aborted`, and the
promises of progress end there.

**EventLoopThread.** The loop exists while `io` is `init`, `published` or
`looping`. `callback_`, which `threadFunc` runs before it publishes the loop,
may queue functors, quit, and update and remove channels, as callbacks may. The
history variable `early` says that the destructor ran before `loop()` was
entered, when its `quit()` is lost.

**TcpConnection and TcpServer.** A step is one event handler or one functor: a
loop runs them one at a time, and what they share across loops goes through the
queues. What `poll()` reported is kept in `revents` until the handler runs, so
that a connection can change between report and handling. A batch of functors
stays in `batch` until its last one has been called, because the closures, and
the shared pointers in them, live that long. `Alive` counts the owners of a
connection: the server's map, the user's pointer, and closures with a shared
pointer; `sendInLoop` binds a bare `this` and is no owner. Bytes are counted.
The write-complete and high-water callbacks are taken as set. Failing
assertions and uses of dead objects are named in `failed` and end the
behaviour. After `SHUT_WR` a write gets EPIPE while the peer is there; once the
peer has left it may get ECONNRESET instead, which `sendInLoop` does not count
as an error, so that it buffers the bytes behind the FIN. `destroyServer` runs
in a functor or outside `loop()`; `destroyServerInHandler` runs in a handler of
the base loop, where any channel may be in `activeChannels_`, handled or not,
and `EventLoop::removeChannel` asserts. A server destroyed by the connection
callback of a connection that is just being closed (inside `handleClose`) is
not modelled. A user thread that passed the test of `send()` may find the loop
of the connection destroyed (`"runInLoop"`).
Other threads call `send()` only: the header says that `shutdown()` is not
thread safe. Reads of the peer's data have no effect on the state kept.

**TimerQueue.** Time is in ticks of the 100 microseconds that
`howMuchTimeFromNow` uses as its minimum. `heap` maps addresses to timers, a
new timer takes any free address, and a `TimerId` is address and sequence.
`addTimer` by another thread is two steps, because the sequence is read after
the timer was handed to the loop. Reading it from a deleted Timer yields the old
value or what the heap left there. `handleRead` is one step up to the first
callback, one per callback and its return, and one for `reset`.

**AsyncLogging.** A buffer is the sequence of its lines, numbered in the order
of the appends. Reserve buffers are only present or absent. `Backlog` is the 25
of the code.

**TcpClient and the pollers.** The loop alternates between `poll`, `events` and
`functors`; a step is one event handler, one functor or one call by the
program. `removeConnection` is two steps, because another thread may call
`stop()` between its test of `connect_` and `restart()`. The poller is the
record of `PollPoller` or `EPollPoller`, as the program (`use`) chooses; every
channel of the loop is registered in it. A step whose assertions fail puts
their names into `failed` and ends the behaviour. In a program that is `slow`, a
callback may take longer than a retry delay, so that the timer expires in the
iteration in which it was set, before `resetChannel`; in any other the delay
outlasts the iteration. `Freed` says that no shared pointer to the connector is
left, and a functor bound to a bare `Connector*` that runs then has failed.
Socket numbers are given out lowest first, and again as soon as they are
closed; an attempt begins only if one of `Fds` is free. The program calls `connect()` once, and keeps a pointer to a connection
until it is told that the connection is down: without it, a destroyed client
would take the connection with it while its channel is registered.

**Buffer and Http.** A byte is CR, LF or a word. The vector keeps its left-over
bytes, so that a read past an index would show. `handleRead` takes any number
of the bytes that are still to come, up to what `readv` is given. The
parser's loop is one step per line. The reference definitions (`LineEnds`,
`Kinds`, `Bad`, `Asked`) read the whole stream at once: a line is named by the
number of bytes up to its end, so that what the parser has taken, `consumed`, is
such a name. The user's callback may ask for the connection to be
closed, as `defaultHttpCallback` does.

**Bank.** One SQL statement is one step; `pc` counts them along the list that
carries the name of the method. The database is external and taken to be
InnoDB (`crebas.sql` names no engine): locking reads and updates wait for the
row and hold it until the transaction ends, plain reads see what was committed,
a deadlock fails one of the statements in it. A statement may fail at any time,
and of a failed COMMIT it is open whether it took effect. `MysqlDB::Rollback`
throws when the ROLLBACK succeeded (its test is inverted), which nobody
catches before `BankThread::Run`: the session ends without an answer. If
`MysqlDB::Open` fails in a method that rolls back, `Rollback` uses a null
handle and the server goes down. Amounts are natural numbers, and requests are
those that the forms of the client let through: positive amounts, no transfer
to oneself; the server checks neither. The statements that compare the
password of an account do not quote it, so that SQL compares numbers; the model
compares for equality, and no property depends on the difference. A packet with an unknown command is
ignored and not modelled.

## 3. Runs

Each property has a mutant of the code in `PROJECT.json` that breaks it: the
mutated operators stand next to the original ones and are marked `Mutant`.

| run | bounds | result |
|---|---|---|
| `EventLoopThread` | creator and 1 other thread, 2 channels, 3 functors | holds: types, no lost wake-up, order and exactly-once, refinement of `FunctorQueue`; functors run and `quit` ends `loop` without the poll timeout; `startLoop` returns a loop that lives until the destructor; the destructor returns if it ran after `loop()` was entered |
| `EventLoopThread_lostquit` | creator only, 1 channel, 2 functors | `JoinAlwaysReturns` violated |
| `TcpServer` | one IO loop, 2 connections, a send of 1 or 2 bytes each, `shutdown`; no IO loop, 2 connections, sends, destructor; two IO loops, 3 connections | holds: assertions, channels owned, up and down reported once |
| `TcpServer_live` | one IO loop, 1 connection, 2 sends from loop and user thread, `shutdown`, destructor; no IO loop, 1 connection, a send, destructor in a handler | holds: failures are explained by the program, `SHUT_WR` behind the data and no data behind it, `shutdown` completes, freed after the peer leaves |
| `TcpServer_send` | one IO loop, 1 connection, user thread | `SendFindsConnection` violated |
| `TcpServer_remove` | no IO loop, 1 connection, `shutdown`, destructor | `RemoveSeesNoEvents` violated |
| `TimerQueue` | 2 addresses, 3 timers, one-shot and repeating, 3 ticks, 2 queued functors | holds |
| `TimerQueue_id` | 1 timer | `IdOfLiveTimer` violated |
| `AsyncLogging` | 9 lines, 2 per buffer, backlog 3 | holds |
| `TcpClient` | 128 programs: each poller, with and without retry, every set of calls in the loop, with and without a `stop` from another thread, with and without slow callbacks; 2 sockets | holds: failures are explained by the program, pollers, `stop` stops, a client left alone connects again |
| `Http` | 42 streams of two or three messages, prepend 1, initial size 4, extrabuf 3 | holds: no byte lost or repeated, answers as asked |
| `Bank` | 2 sessions, 2 accounts and new ones, 14 requests of which any 3 are made | holds: books agree, no negative balance, no money into a closed account, every request ends |

Why these bounds: two threads and the owner give every pair of concurrent calls
plus a bystander; three functors fill both vectors with one executed; three
timers at two addresses force the reuse of an address, and three ticks let a
timer expire together with another, or be restarted and expire again; nine lines
in buffers of two pass the backlog limit of three and exhaust both reserves; two
connections show that one's removal does not disturb another, three on two loops
that the round robin wraps; two sockets are the connection that goes and the
attempt that comes; messages of four to ten bytes in a buffer of four make it
move, grow and spill; three requests in two sessions are a pair that crosses and
a third that finds what they left.

The record `use` of `TcpServer` says what the surrounding program does; a run
gives a set of programs and every behaviour is of one of them. `CHECK_DEADLOCK
FALSE` is set for `TcpServer`, `TimerQueue`, `Http` and `Bank`, whose
environment is bounded (connections, ticks, streams, requests) and may come to
rest, and for `TcpClient`, whose loop may have nothing left to wait for.

### Fairness

Threads that can run do run, callbacks and functors return. Nothing is assumed
about the poll timeout, so liveness of the loop rests on wake-ups alone. For
`TcpServer_live`, `poll()` reports a peer that left (level triggered, weak
fairness), and a peer that reads makes the socket writable again and again
(strong fairness). For `AsyncLogging` the timed wait ends. Nobody is obliged to
queue, quit, destroy, append or stop. For `TcpClient`, `poll()` reports what is
ready, and a server that is tried again and again accepts in the end (strong
fairness); a `connect()` that fails for good ends the promise (`gaveUp`). For
`Bank`, a session that has a request goes on with it, the database grants a row
to those who wait for it in turn (strong fairness) and breaks deadlocks; no
other statement has to fail.

### Findings

`PROJECT.json` quotes the line that each of the first four contradicts.

* `EventLoopThread_lostquit`: a destructor of `EventLoopThread` right after
  `startLoop` can hang, since `loop()` resets `quit_`.
* `TcpServer_send`: a `sendInLoop` queued by another thread can outlive its
  connection.
* `TcpServer_remove`: `~TcpServer` with a connection in `kDisconnecting` fails
  the assertion of `Channel::remove`.
* `TimerQueue_id`: `addTimer` can read a deleted `Timer`.

Further behaviours are in the models and are excluded by the wording of a
property rather than shown by a run of their own:

* `queueInLoop` by the owner before `loop()`, for instance by the initial
  callback of an `EventLoopThread`, does not wake the loop, against the comment
  at `EventLoop.cc:171` that only event callbacks need no wake-up. Without the
  exception of `quiet`, TLC finds `NoLostWakeup` violated.
* The destructor's `quit()` may write to a loop that is already destroyed
  (`pc[Creator] = "wake"` while `~loopAlive`).
* `FailuresExplained` lists by `MayFail` what else a program that destroys its
  server can run into: a queued `removeConnectionInLoop` outlives the server
  (with a pool); another thread's `send()` uses a loop that was destroyed with
  it; `EventLoop::removeChannel` fails if a handler destroys the server while
  channels of its connections are in `activeChannels_`. `connectDestroyed`
  functors that an IO loop has not taken when it is told to quit are dropped.
* Bytes that `sendInLoop` buffers behind the FIN of a connection whose peer has
  reset it (`FinAfterData` excepts a peer that has left).
* A timer cancelled in the batch it belongs to is still called, and a cancel
  that overtakes `addTimerInLoop` has no effect (`CallsLegal`).
* Lines appended just before `AsyncLogging::stop` are not written
  (`LinesWritten`).
* `NoOtherAssertion` allows what `MayFail` explains by the program.
  `EventLoop::removeChannel` fails when a callback calls `stop()`, or destroys
  the client, while the connector's channel waits to be handled in the same
  iteration. `~Connector` asserts that `channel_` is gone, which fails when the
  client is destroyed in the iteration in which the connection was made and
  nothing else keeps the connector. A callback that outlasts a retry delay lets
  the timer meet a `channel_` that is not reset (`assert(!channel_)` in
  `connecting`). A destroyed client or connector is reached by a `stop()` of
  another thread that has already begun, by its queued `stopInLoop`, or by a
  first `startInLoop` that a slow callback delayed behind the destructor's
  timer; both functors are bound to a bare pointer.
* `StopStops` excepts a `stop()` from another thread that `restart()` overtakes
  (`overtaken`): `connect_` is set again, the client reconnects, and
  `stopInLoop` schedules a retry that its comment says is not meant.
* After a refused request line the HTTP parser keeps the line, and more bytes
  on that connection can fail the assertion of `setMethod` (`AnswersAsAsked`
  says: only then). A second request in one segment waits for the next read.
* `NoMoneyIntoClosed` says nothing of debits: `WithDraw`, `Transfer` and
  `CloseAccount` test `flag` in a plain read before they lock the row by
  password alone, so that an account closed in between is debited, or closed a
  second time.
* A bank request may be answered -1, or not at all, although it was committed;
  repeated, it moves the money twice.

## 4. Theorems

Checked by TLAPS, for all values of the constants that satisfy the named
assumptions of the modules. Each inductive invariant is the `IInv` at the end of
the component's module, a conjunction of named parts. It can be given to TLC as
an invariant of the component's run; TLC found the parts that were missing
before the proof was attempted.

**EventLoop** (`EventLoopProofs`; assumptions: the owner is not one of the other
threads, `Wakeup` is not a user's channel, the bound is a number).

* `TypeCorrect`, `Safety`: `IInv` is types, `Places` (which flags and which
  batch go with each position of the owner), `NoLostQuit`, `EachOnceInOrder` and
  `WakeInv`. `EachOnceInOrder` is an equation between concatenated sequences;
  the lemmas before it say how `Head`, `Tail` and `Append` move an element
  across the concatenation. `NoLostWakeup` speaks of `poll` only and is not
  inductive; `WakeInv` strengthens it: wherever the owner is, except between
  the return of `poll()` and the swap, a pending functor that was not queued
  outside `loop()` is signalled.
* `Refinement`: every step of `EventLoop` is a step of `FunctorQueue` or leaves
  its variables alone, under `queue <- functors \o pendingFunctors_`.

**EventLoopThread** (`EventLoopThreadProofs`; `Creator \in Threads`).
`LoopRefined` shows that the thread, its creator and all others take only steps
of `EventLoop`, so that its theorems carry over: `LoopSafe`, `LoopQueue`. The
initial callback may do all that a callback may. `StartHandsOver` needs
`HandoverInv`: what the position of the creator says about `loop_` and about
the position of the thread.

**TimerQueue** (`TimerQueueProofs`; addresses, intervals and bounds are
numbers). `Typed`, `SetsAgree`, `OwnedOnce`, `ArmedForEarliest`, and the action
properties `Calls` and `Removals`. None of the four invariants is inductive
alone. The parts that make them so: a sequence number belongs to one timer
(`SeqInv`); the batch holds timers that exist and are due (`BatchInv`); the
queue does not add a timer twice (`QueueInv`); a `TimerId` that anybody has,
stale or not, names no timer at another address (`IdInv`), which is why the
pair of address and sequence is enough for `cancel`; a called one-shot timer
waits in the batch for its deletion (`RanInv`); and a cancelled timer that still
exists is in the batch and in `cancelingTimers_` (`CancelInv`), which is why
`reset` does not restart it. `EarliestArmed` is carried as `AllArmed`, the same
statement of every timer instead of the first one. `OneOwner` is stated with
disjoint sets rather than with a count.

**TcpServer** (`TcpServerProofs`; `UseAssumption` types the programs). What
`poll()` reports, functors of all loops, the user thread, the destructor and the
joins interleave freely, for every pool, every number of connections and every
program in `Uses`.

* `Inductive`: the functors a loop has yet to call are one sequence, `Pending`,
  the rest of the batch followed by the queue, so that taking a batch changes
  nothing and a call takes its head; most of the lemmas say what the invariant
  on `Pending` survives (`Shift`, `Moves`). The heart is `CoverInv`: a
  connection whose channel is registered, or is still to be, is held by the
  map, by a pending `removeConnectionInLoop` in the base loop, or by a pending
  `connectDestroyed` in its own. Each hand-over keeps it because the next closure
  is made before the last owner goes. `EstablishedFirst` orders
  `connectDestroyed` behind `connectEstablished` for a connection that
  `~TcpServer` finds before it was established. `MapInv` says that the map keeps
  a connection until it is closed, `LifeInv` how state, channel, callbacks and
  buffer of one connection agree.
* `Typed`, `DataBeforeFin`, `ChannelsOwned` hold of every program.
  `DataBeforeFin` needs `FinInv` besides: after `SHUT_WR`, as long as the peer
  is there, the buffer is empty and the channel does not wait for POLLOUT, so
  that `sendInLoop` tries to write, and fails, instead of buffering.
* `FailuresKnown` (`FailuresExplained`): of the assertions and dead objects in
  `failed`, only those of `MayFail` occur, each with its condition on the
  program; `connectEstablished` and `handleClose` never find a wrong state.
* `CorrectUsesHold`: nothing fails if no other thread sends and the server is
  destroyed, if at all, without a pool, without `shutdown()` and not in a
  handler (`CorrectUse`, an hypothesis of the theorem). The programs of the run
  `TcpServer` are of this kind; the runs `TcpServer_send`, `TcpServer_remove`
  and `TcpServer_live` show that each part is needed.
* `UpAndDown`: up once, then down once and before the connection is freed. It
  assumes programs that do not both call `shutdown()` and destroy the server; a
  connection in `kDisconnecting` is destroyed without being reported down.

**AsyncLogging** (`AsyncLoggingProofs`; `Capacity > 0`, `Backlog >= 2`).
`AlwaysRecycled`: the assertions on reserve buffers never fail. The argument:
`nextBuffer_` is missing only while `buffers_` is not empty (`ReserveInv`), so a
round that gives away `newBuffer2` has two buffers to write, and cutting a
backlog keeps two (`RoundInv`; this is where `Backlog >= 2` is used). `Typed`
says that no buffer is overfilled. `OrderAndOnce` (`InOrderOnce`): written lines
and those still in buffers, in the order of the file, increase strictly, and
together with those cut off a backlog they are exactly the appended ones, so
that none is lost, written twice or overtaken between the buffers. It needs
`DroppedInv` (only appended lines are dropped). The lemmas before it say how
`FlattenSeq` behaves under `Append` and concatenation, and how order and
elements of a concatenation come from its parts.

**TcpClient** (`TcpClientProofs`; `ClientAssumption` types the programs and keeps
the loop's two descriptors apart from the sockets). `Inductive`, `Typed`,
`FailuresKnown` (`NoOtherAssertion`, each failure of `MayFail` under its condition
on the program), `Agrees` and the action property `StaysSo`, for every program, either
poller, any set of sockets and any number of attempts and connections.

* The pollers first. For each of them `Sound` relates array and map, or map and
  kernel set, and `Registered` is the map that its user sees. Lemmas show that
  adding, disabling and removing a channel keep `Sound`, pass every assertion of
  the poller and change `Registered` in that entry only: for `PollPoller` that
  takes the argument that the number of the last entry, negative or not, leads
  to the channel that moves into the gap (`ShrinkArranged`, `PollRemoves`). The
  rest of the proof does not look inside a poller.
* `PollerInv` says what `Registered` holds. `FunctorInv` ties the queue to the
  state: `resetChannel` waits exactly while `channel_` is set outside
  `kConnecting`, `startInLoop` only before the first attempt, `connectDestroyed`
  exactly for the closed connections that are still registered; hence no
  functor waits twice. `ConnectionInv`: at most one connection lives, only in
  `kConnected`, and its callback leads to the client exactly while it is the
  client's. `ActiveInv`: what is still to be handled in an iteration has stayed
  ready; in particular `restart()` finds `channel_` reset, and so does a timer
  unless the program is slow. `OwnerInv`: only a program that calls the
  destructor has no client, and the first `startInLoop` is called while the
  client or its destructor's timer keeps the connector, unless the program is
  slow.
* `StaysSo` needs `StopInv`: from the last store of `stop()` on, only a
  `restart()` behind it can have set `connect_` again.

**Http** (`HttpProofs`; positive sizes, streams are finite sequences). `Typed`
and `NoByteLost`, for every stream, every way to cut it and every size of
prepend area, vector and extrabuf. Each operation of `Buffer` has a lemma that
says which window of the vector holds which part of the stream afterwards
(`readFd` with and without overflow, `makeSpace` by moving and by growing,
`retrieveUntil`); `BytesKept` is that window. That `findCRLF` finds the first of
several line ends rests on the least element of a set of numbers.

`AnsweredAsAsked` (`AnswersAsAsked`) and `NoneSkipped` (`CountInv`): answer i is
the one that request i of the whole stream asks for, and while the connection is
up every request that was taken has its answer. What makes it inductive:
`TakenInv`, the parser stands at the end of a line and no bad line lies before
it; `ParsedInv`, its state is the kind of the last line, and method, version and
Connection header are those of the lines since the last request line, so that
nothing of an earlier request is left; `CountInv`; `RefusedInv` and `OpenInv`,
which tie the parser's and the answers' state to that of the connection. The
link between the two is `NextLineIs`: the line that `findCRLF` delimits in the
buffer, however the bytes came, is the line of the stream behind `consumed`.
`KindIs` and the lemmas behind it say what one more line adds to `Kinds`,
`Requests`, `Ends` and `Asked`.

**Bank** (`BankProofs`; `BankAssumption` types the requests and gives room for
new accounts, `CommandAssumption` says that every request has a method). `Typed`
(no negative balance, no number given twice), `BooksBalance`, and the action
property `ClosedGainsNothing`, for any sessions, accounts, requests and failing
statements. `IInv` adds `LockInv`: from the statement that locks a row to the
commit, the row is the session's, its balance is what the session read, it is
large enough for what will be taken, and, where money is paid in, it is not
closed. That is what the row of `trans` and the new balance are computed from.

Only model-checked:

* liveness (the prover has no fairness reasoning): the temporal properties of
  `EventLoopThread`, `TcpServer_live`, `AsyncLogging` and `TcpClient`, and `Ends`
  of `Bank`.

Every invariant and every action property of a passing run is stated by a
theorem, some of them under the hypotheses named above. Where a proof needs
induction over data (what `FlattenSeq` and the recursive function `Kinds`
compute), `Induction` gives it for a set of numbers that has 0 and is closed
under successor; it follows from the least element of a set of numbers, because
the prover cannot use the library's schemes, whose parameter is an operator.

## 5. Plan

1. A second `connect()` of `TcpClient`; `Acceptor` with `idleFd_` and
   `TcpServer::start`; `prepend` and `shrink` of `Buffer`.
2. `BoundedBlockingQueue`, `CountDownLatch`, `ThreadPool` (whose `stop()` leaves
   tasks in the queue), `LogFile` (two rolls in one second share a file name).

## 6. Not modelled

Text formatting (`LogStream`, `Logging`, `Timestamp`), wrappers of system calls
(`Socket`, `SocketsOps`, `InetAddress`, `FileUtil`, `ProcessInfo`), wrappers of
pthreads and atomics (what they guarantee is assumed), `Singleton` and
`ThreadLocal`. Memory is sequentially consistent in all modules; the flags that
the code marks "atomic" and reads without a lock are single variables. Calls
that the headers declare not thread safe are made from the loop's thread only
(`shutdown()`, `~TcpClient`). No modelled program enables a channel again that it
disabled, so that this branch of the pollers' `updateChannel` is not exercised.

Of ABCBank: the client's forms, the packing, hashing and encryption of packets,
names, dates, interest and the rounding of amounts, overflow of `decimal`
columns. The earlier snapshots of the library hold the same files in earlier
states; the MySQL headers are a library's.
