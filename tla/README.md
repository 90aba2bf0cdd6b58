# A verification of MyTCPServer

MyTCPServer is a C++ network library in the reactor style: each thread runs at
most one `EventLoop`, loops own non-blocking sockets, and threads talk to each
other by handing functors to a loop. This directory holds TLA+ models of its
components, TLC configurations that check them on small instances, and TLAPS
proofs of the most important properties for instances of any size.
`PROJECT.json` relates every definition to the lines it models, lists the runs,
the hazards and the theorems.

Commands (in this directory): `tlc -config X.cfg M` for a run,
`tlapm MProofs.tla` for the proofs of a module; those of `AsyncLogging`, `Logger`
and `HttpServer` are together in `TextProofs.tla`.

## 1. The system

| component | state | operations | who calls it |
|---|---|---|---|
| `EventLoop` | `_pendingFunctors`, `_quit`, `_looping`, `_callingPendingFunctors`, the eventfd | `loop`, `quit`, `runInLoop`, `queueInLoop`, `wakeup`, `handleRead`, `doPendingFunctors` | its owner thread; any thread for `quit`, `runInLoop`, `queueInLoop` |
| `Channel` | `_events`, `_revents`, `_index` | enable/disable, `remove`, `handleEvent` | the loop thread |
| `EpollPoller`, `PollPoller` | `_channels`, the kernel's set or `_pollfds`, `_events` | `updateChannel`, `removeChannel`, `poll` | the loop |
| `TimerQueue` | `_timers`, the timerfd | `addTimer`, `handleRead`, `reset` | any thread adds through the loop |
| `Buffer` | a vector and two indices | `append`, `retrieve...`, `readFd` | `TcpConnection`, the application |
| `TcpConnection` | `_state`, channel, two buffers | `send`, `shutdown`, `forceClose`, event handlers, `connectEstablished`, `connectDestroyed` | I/O loop; any thread for the first three |
| `TcpServer`, `Acceptor` | `_connections`, `_nextConnId`, listening socket | `start`, `listen`, `handleRead`, `newConnection`, `removeConnection`, destructor | base loop; `removeConnection` from every loop |
| `EventLoopThread`, `EventLoopThreadPoll` | `_loop`, `_next`, threads | `startLoop`, `threadFunc`, `getNextLoop`, destructor | base thread and the I/O threads |
| `Connector`, `TcpClient` | `_state`, `_connect`, `_channel`, `_connection` | `connect`, `stop`, `disconnect`, `retry`, handlers | loop thread, application |
| `ThreadPool` | `_queue`, `_running` | `start`, `add`, `stop`, workers | application |
| `AsyncLogging` | `_currentBuffer`, `_nextBuffer`, `_buffers`, two spares | `append`, `start`, `stop`, `ThreadFunc` | every thread that logs; one back end |
| `Logger`, `LogStream` | a `FixedBuffer` per statement, `g_logLevel` | constructors, `operator<<`, destructor | every thread that logs |
| `HttpServer` | `HttpContext` per message, the connection's input buffer | `onMessage`, `parseRequest`, `onRequest` | `TcpConnection`'s callback |

How they interact. A functor queued from outside the owner thread reaches the
owner through the eventfd and epoll. A connection that closes goes through
three queues: `handleClose` in its I/O loop, `removeConnectionInLoop` in the
base loop, `connectDestroyed` in the I/O loop again. `retry` goes through the
timer queue, `removeAndResetChannel` through the functor queue.

What is hard: functors and quits that arrive at any point of `loop()`;
operations whose test and assignment of `_state` are two steps in another
thread; handlers of one poll that run after each other with user code in
between; output that waits for an event; sleeping with a lost notification;
joins; descriptors, channels and timers with exactly one owner; buffers that are
recycled; descriptors that run out; a stream that is cut anywhere; a record that
reaches the end of its buffer.

## 2. Modules

| module | models | implements / uses |
|---|---|---|
| `FunctorQueue` | what a loop promises: each functor runs once, in the order of submission | abstract |
| `EventLoop` | the loop, its owner and other threads, step by step | `FunctorQueue` |
| `ByteQueue` | a FIFO of bytes | abstract |
| `Buffer` | the vector, its indices, growth, compaction, `readFd` with its spill | `ByteQueue` |
| `TcpConnection` | one connection with its channel, epoll entry, I/O loop, other threads, base loop, server | takes the functor queue as `FunctorQueue` gives it |
| `Poller` | what a poller promises to channels, and how the library uses it | abstract |
| `EpollPoller` | the poller on epoll | `Poller` |
| `PollPoller` | the poller on poll(2) | compared with `EpollPoller` in `Pollers` |
| `Pollers` | both under the same calls of the same channels | composes the two |
| `TimerQueue` | timers, timerfd, wall clock | |
| `EventLoopThreadPoll` | starting, choosing, quitting and joining I/O threads | |
| `Service` | what a server promises: clients accepted in turn and within the descriptors, up once, down once, released | abstract |
| `TcpServer` | `TcpServer` and `Acceptor`: several connections from `accept` to the release of the descriptor, over several loops | extends `EventLoopThreadPoll`, implements `Service` |
| `HttpServer` | one HTTP connection: reads, `HttpContext`, replies | |
| `Logger` | a log statement: `LogStream` over its `FixedBuffer` | |
| `Connector` | `Connector` and `TcpClient` | |
| `ThreadPool` | the pool of workers | |
| `AsyncLogging` | front end and back end with their buffers | |
| `*Proofs` | the theorems about the module they extend; `TextProofs` extends `AsyncLogging`, `Logger` and `HttpServer`, which is why the last two name their `Init`, `Next` and `Spec` with a prefix | |
| `MCTcpConnection`, `MCHttpServer` | for TLC: the symmetry set, and the bodies that clients send | |

Variables carry the names of the members, with a comment on each in the
module; an action has the name of the function it models, with a prefix where
the function behaves differently for its callers (`OwnerQueueInLoop`,
`ThreadQueueInLoop`; `IoSend`, `ForeignSend`). A function that other threads
interleave with is split where they can see the difference: at a mutex, an
assignment to a shared flag, a system call or a call of user code. Definitions
marked `mutant` are deliberate bugs; replacing the definition they follow by
one of them makes a property fail, which shows that the property depends on
that code. Other definitions never use them.

Abstractions:

- `EventLoop`: a functor is a name. User code in a functor or a channel callback
  may queue functors, run them in place and quit.
- `TcpConnection`: bytes are numbered, so that order and loss are visible. A
  write takes any part of what it is given, or fails. The high-water and
  write-complete callbacks are set. The application keeps its
  `TcpConnectionPtr` while it calls (so `tie` never fails) and ignores SIGPIPE.
  The base loop's steps interleave freely, which includes a server whose only
  loop is the base loop.
- `TimerQueue`: expirations are relative to now, in ticks; the timerfd counts
  monotonic time, and `SetClock` moves the wall clock under it. A new timer is
  due now or later, as `runAfter` and `runEvery` make it.
- `EventLoopThreadPoll`: only `~EventLoopThread` quits an I/O loop, and a loop is
  reduced to its flag, its eventfd and its place in `loop()`. `TcpServer` adds the
  functors of each loop.
- `TcpServer`: a connection is its `_state`, its entry in a poller and the
  references to it; when the last goes, the descriptor is free. A reference held
  by a functor goes when the functor has run, in the code at the end of its
  batch, so that `accept` may find a descriptor a little earlier than it
  would. `EMFILE` is the guard `Free > 0` of `HandleRead`: the failed call
  changes nothing. `~TcpServer` runs in the base thread after the base loop has
  returned, and before the loop is destroyed, as in `src/example/example.cc`.
- `HttpServer`: a line is made of pieces (words, a header, a text) and a read may
  end after any of them; a cut inside a piece has the same effect, as the parser
  acts on whole lines only. A body is any sequence of pieces and CRLFs, a whole
  request included; the piece `Body` is a text without a colon that does not
  complete a request line. The callback leaves the close as the
  request wants it, asks for it, or takes it back (`setCloseConnection`, recorded in
  `cleared`). A 400 is `-400` among the replies, so that it is never the number of a
  request. `HttpServer` is commented out of the repository's build.
- `Logger`: a text is its length; an integer is formatted digit by digit, and the
  type's smallest and largest values are among the inputs. What the output
  function gets is the whole buffer (`length()`); `AsyncLogging` has that.
- `Connector`: `connect()` is called once, from any thread; the other calls come
  from the loop thread; the client outlives its attempts; a failed attempt is
  reported as error and writable in the same poll, as epoll does.
- `ThreadPool`: started and stopped once; the init callback may throw.
- `AsyncLogging`: a line takes one slot. A new buffer has undefined contents
  (`Garbage`), a buffer is always written whole, and a recycled one brings its
  old lines along, as `FixedBuffer::length()` makes it.
- pollers: a descriptor has one channel at a time; `Poller` spells out the
  protocol (no update from no interest to none, one removal, then destruction).

## 3. Runs

| run | question | bounds |
|---|---|---|
| `event_loop` | is a wakeup ever lost; do functors run once and in order; are they run and quits obeyed without the poll timeout (`NoLostWakeup`, `RunsInOrder`, `FunctorsRun`, `QuitStops`) | 3 functors, 2 threads |
| `buffer` | index order, bounded growth, FIFO | sizes 2 so that growth, compaction and both kinds of spill occur |
| `tcp_connection` | do output, shutdown and the closes of the application and of the peer run to their end (`OutputDelivered`, `ShutdownCompletes`, `CloseReleases`); one up, at most one down callback; a destroyed connection stays out of the poller | every call in the loop, sends of one other thread, 3 calls of one byte |
| `tcp_connection_races` | what holds under every race of `send`, `shutdown` and `forceClose` of two threads: stream, arming, FIN last, no message after down | 3 calls, chunks of up to 2 |
| `timer_queue` | is the timerfd always armed in time; one owner per timer; order of callbacks; does every timer fire | 3 timers, 1 repeating, 1 clock step |
| `tcp_server` | do loops outlive their use (`LoopsAlive`) and joins return; does every connection that is freed leave its poller and its user informed (`FreedClean`); is every one that goes down released (`Released`); are all clients served although descriptors run out (`AllServed`); refinement of `Service` | 0 to 2 threads, 3 clients, 2 descriptors |
| `http_server` | do the replies belong to the requests, in order, however the stream is cut and up to the first body that begins like a request (`RepliesFaithful`); is what arrives whole, without a body, answered (`WholeAnswered`) | 2 requests of 90 kinds: known and unknown method, 3 versions, 3 `Connection` headers, 5 bodies, of which 3 begin like a request; 6.2 million states |
| `logger` | is nothing written past the buffer (`InBounds`); is each item written whole or left out, and each number right (`RecordFaithful`) | 2 items, texts of up to 3, integers of 5 bits, buffer of 9, 4 asked for a number |
| `thread_pool_stop` | does `stop()` return: **no** | 2 workers, 2 tasks |
| `async_logging` | null buffers, order of lines, lines reach the file, `stop()` returns | 3 slots, 8 lines |
| `connector` | channels and sockets have owners, the client never gets stuck, `stop()` is final | 5 attempts |
| `pollers` | do indices, entries and the kernel's set agree; do both pollers report the same; refinement of `Poller` | 3 channels, 2 events, event list of 1; a descriptor is ready for nothing, for an error or for everything |

`tcp_connection` leaves out one thing by an action constraint
(`UndisturbedDtor` of `TcpConnection`): `~TcpServer` while the connection is being closed, after
which `connectDestroyed` finds `kDisconnecting`, reports nothing and a later send
can put the channel back. The constraint takes away only calls, which have no
fairness. `tcp_connection_races` has no such restriction, and no destructor.

Why the bounds are enough. The loop and the connection show their races with
two outside threads, and three functors make a batch, a queue behind it and one
in flight. Three calls are enough for a send that is buffered, a shutdown that
waits for it and a forced close that overtakes both. Eight lines in buffers
that take two (`avail() > len` leaves the last slot empty) use the current
buffer, the next one and newly allocated ones, trim the list to two and recycle.
Five attempts allow a failure, a retry, a connection, a reconnect and one more.
Three channels are the fewest for which the removed, the moved and an untouched
entry differ. Three clients on two descriptors make one wait while another
closes, and two threads make loops that differ and one that is asked twice; with
no thread everything runs in the base loop. Two requests are one that is cut and
one whose beginning is read with its rest, or one whose body is taken for a
request and one that completes it. Integers of five bits have the corner
cases of wider ones: a smallest value without a negative, and unsigned ones
above the largest signed. The constants of `Logger` are in the proportions of
the code: the room asked for a number is more than any number needs. What is proved below
does not depend on any bound.

Fairness. The step of a thread that can go on is weakly fair: a loop's owner, a
worker, the back end, a thread that has written a functor and still has to
write the eventfd. A step that waits for a mutex others keep taking
(`LoopStep` of an I/O thread, with `Publish` and `Leave`; `WorkerLock`) and a functor at the
head of a queue in which
events may be dispatched first (`RunFunctor`, `RunAddTimerInLoop`) are strongly
fair: each iteration of `loop()` runs the functors after the events. `Poll(TRUE)`
of a connection is strongly fair because epoll is level-triggered; it also says
that the peer reads or closes, without which no sender can finish. For the same
reason the handling of a closed client is strongly fair in `TcpServer`. That
clients close is not assumed: `AllServed` has it as a premise, since a client
that waits for a descriptor is served only if one is given back. `Tick` is
fair (time passes), which also stands for the timeout of `wait_for` in
`WaitEnds`. `PollTimeout` is not fair, because the
10 s timeout must not be what saves the loop. Callers of the operations, clients,
peers, destructors, resets, clock steps and spurious wakeups have no fairness.

Deadlock checking is off where a behaviour really ends (all calls made, peer
gone, pool stopped, bound reached); it is on for the event loop, the buffer and
the pollers.

## 4. Findings

- `ThreadPool::stop` joins its workers while holding the mutex they need
  (`src/src/base/ThreadPool.cc:40-46`). The pool's own test ends with it.

Behaviour that the models have and no document excludes is recorded with the
hazards: a `quit()` before `loop()` is forgotten, and a join may then wait for
ever; a task handed to a running pool is taken and never called; lines accepted
after the back end's last pass are not written at `stop()`; `shutdown` or
`forceClose` of another thread that races with a close can make the down
callback come twice; `Connector::handleError` leaves the state as it is, so
that `handleWrite` of the same poll hands a failed socket on; `~TcpServer` can
free a connection that was shutting down, or whose loop is quit first, without
a down callback; an HTTP request that arrives in two reads is answered with 400
or not at all; the body of an HTTP request is never read (`kExpectBody` is not used), and one that
begins like a request is answered as the next; a log record that fills its buffer loses its newline. Properties that
such a race breaks are checked in the runs without that race, and the runs say
so.

## 5. Theorems

Assumptions are the named ASSUMEs of the modules: natural bounds, distinct
special values (`NullAssumption`, `BlankAssumption` and others), `MinDelay > 0`,
buffers with more than one slot, finitely many descriptors, and that `Digits`
decimal digits are enough for every value of the integer types
(`DigitsAssumption`). Each inductive invariant was an invariant of a TLC run of the
module's configuration before it was proved.

- `EventLoopProofs` (any threads, any functors). `LoopInv` adds to the types
  that the batch is empty outside `doPendingFunctors` (`BatchLocal`), that a
  pending functor is covered by the eventfd or by a thread about to write it
  everywhere but between the poll's return and the swap (`WaitingCovered`), and
  the same for a quit that comes once the owner is in the poll (`QuitCovered`).
  `NoLostWakeup` alone is not inductive: it speaks only of the
  owner asleep, and the step that goes to sleep needs to know why the earlier
  states were safe. `LoopImplementsQueue` is the refinement of `FunctorQueue`
  with the batch followed by `_pendingFunctors` as the abstract queue.
- `BufferProofs` (any sizes, any bytes). `BufferInv` says that the vector is one
  with ordered indices and that its size is bounded by the peak of its content;
  the lemmas describe `CopyInto`, `makeSpace`, `append` and `readFd` through the
  readable content they leave. From it `IndicesStayOrdered`,
  `CapacityStaysBounded` and the refinement of `ByteQueue`.
- `TcpConnectionProofs` (any threads, calls, chunks, high-water mark, with and
  without `~TcpServer`). `ConnInv` = types, `StreamIntact`, and `Armed`, which
  takes `OutputArmed` apart: output waits only on a channel that asks for
  EPOLLOUT, and such a channel is in the epoll set until `connectDestroyed`.
  `FinComesLast` is an action property that follows from it.
  `NoMessageComesLate` holds under every race. It needs `FreshInv`, that
  `connectEstablished` runs first and once and that nothing happens to the
  connection before it, and `DownInv`, that after the down callback the channel
  neither asks for reads nor has one among the events of the current poll.
  `CallbacksStayPaired` and
  `StaysRemoved` are proved under what the run has: other threads only send, and
  `~TcpServer` does not cut into a close (`UndisturbedDtor`). Both are hypotheses of
  the theorems because the code does not give them: with foreign closes the down
  callback can come twice, and a destructor that meets a connection shutting
  down leaves it without one. `PairInv` says what a connection that is up (`UpFor`)
  and one that was reported down (`DownFor`) look like, and that a
  `connectDestroyed` ahead of the report is the destructor's.
- `TimerQueueProofs` (any timers, periods and delays). `Inv` adds that exactly
  the created timers are owned (`Created`) and that everything still to run in
  this pass expired no later than what is in `_timers` (`Ordered`); without
  these, neither `OneOwner` nor `EarliestFirst` survives a callback that adds
  timers.
- `TcpServerProofs` (any number of threads, clients and descriptors). `PoolInv`
  says how far the base thread has come in its loop over the threads (`BaseInv`)
  and what that means for each thread (`ThreadInv`): `_loop` is set exactly
  while the thread is between handover and `Leave`, and a thread leaves only
  after its own `quit()`. `LoopsAlive` alone is not inductive: it does not say why
  `~EventLoopThread` finds `_loop` set and so never skips a join. The steps of the
  server are shown to leave the pool alone, or to use it as `getNextLoop` does.
  `FreedStaysClean` rests on `ServerInv`: for each connection, in which of the
  queues of which loop it has a functor and which one, what `_connections` then
  holds, and its `_state` and callbacks (`ConnInv`, `FunctorInv`); that
  `connectEstablished` comes before every other functor of its connection
  (`EstablishedFirst`); and how far `~TcpServer` has come (`DtorInv`). `FreedClean`
  speaks of the moment the last reference goes; only the place of every
  reference tells that nothing is left to run. `ServerImplementsService` shows
  that a step of the server is a step of `Service` or none, with the stage of a
  client and the descriptors in use computed from the server's state
  (`StageFacts`, `HeldFacts`), one lemma per action.
- `TextProofs`, on sequences of lines, digits and requests of any length. It
  begins with induction: a set of numbers without a least counterexample is all
  of them (`Least`, `NatSetInduction`), and the values of a function defined by recursion
  on its argument follow (`Recursion`). Both speak of sets and functions, which the
  provers can instantiate.
  - `AsyncLogging` (any buffer size, any number of lines). `BuffersNeverMissing`: a
    pass that gives a spare away writes at least as many buffers as it takes back.
    The argument is that `_nextBuffer` is only null when a filled buffer is in
    `_buffers`. `LinesStayInOrder` needs `OrderInv`: what any buffer holds behind its
    `_cur` is stale, that is blank, garbage or a line that is in the file. `LinesInOrder` alone
    is not inductive, because `Pass` writes whole buffers: a newer line behind `_cur`
    would get into the file ahead of its turn. With it the places of new lines
    are those written since the last `reset()`, and `Rank` counts them in the order of
    the lines.
  - `Logger` (any buffer, any width, any insertions). `LogInv` keeps, for each part of
    the record, where it is and what it reads as; a later `<<` only appends. That
    `Emitted` has at most `Digits` digits, at least one, and that they mean the number is shown
    by induction over its size, on both sides of zero as `%` and `/` round.
    `StaysInBounds` and `RecordStaysFaithful` follow.
  - `HttpServer` (any methods, versions and bodies, any number of requests).
    `FlattenIs` and `FromIs` say what the stream is from the n-th request on. `HttpInv`
    says what is behind the replies sent so far while the connection is up
    (`Serving`): the input followed by the stream is at the beginning of a request or at
    a place inside one that the context knows (`Reading`), or it is spoiled, that is, it begins with
    the rest of a request that was cut, which can never be taken for a request
    line. `Serving` holds as long as no request answered so far has a body that begins
    like a request (`PlainBodies`), and `RepliesFaithful` says no more than that of the
    replies behind one, except that a 400 is the last. `Open` says that the replies to
    requests that asked for the close are among those whose callback took it back, as
    long as the connection is up. Once it is shutting down nothing is sent.
    `RepliesStayFaithful` and `WholeRequestsAnswered` follow. Replies alone are far from inductive: they
    do not say what is left in the buffer.
- `PollersProofs` (any finite set of descriptors, any events, any readiness, any
  initial list of events). `EpollInv` adds to `IndexTrue` that the kernel watches for
  exactly the interest shown last; `PollInv` adds to the entries that a new channel
  has a negative index and that only a channel in the poller has interest, which
  is what `updateChannel` of `PollPoller` relies on when it tells a new channel by
  the sign. `BothKeepEntries` follows; the case that takes work is the removal that
  moves the last entry (`MoveLast`). `BothReportTheSame` compares both with what a
  poll without limit would find (`Saw`): `EpollPoller` reports a subset of it whose
  size is the whole or the list's. Both pollers are shown to implement `Poller`
  (`EpollImplementsPoller`, `PollPollerImplementsPoller`).
- `ConnectorProofs` (any number of attempts). `ConnectorInv` says that there is one
  attempt at a time (`OneAttempt`): a timer, a channel that connects, a queued
  `startInLoop` that would do something and a connection exclude each other.
  `EventInv` ties the events of a poll to it, so that while a `resetChannel` is
  queued no event is left that could start another attempt; this is why
  `resetChannel` never hits a newer channel, although nothing in the code
  tests it. `CallInv` relates the flags to `connect()` and `stop()`, `SocketInv` is the
  ownership of sockets with the fact that a socket not yet created has never been
  used. From it `EverythingIsOwned`, `NeverStuck` and the action property
  `StopStaysFinal`.

Only model-checked, and why:

- every liveness property (`FunctorsRun`, `QuitStops`, `OutputDelivered`,
  `AllServed` and the others): fairness and ENABLED are outside the prover's reach;
- `ThreadPool`, whose one run shows a violation.

## 6. Not modelled

`Timestamp`, `InetAddress`, `Socket` and `SocketOperation` wrap library and
system calls and keep no state of interest; what `accept`, `connect` and
`SO_ERROR` do to their callers is in `TcpServer` and `Connector`. `LogFile` is the
growing file of `AsyncLogging`; rolling happens only in its constructor. The
texts of HTTP responses and of log prefixes are left out. The example server is
user code. Destructors of `EventLoop` and `TimerQueue` release what their
owners no longer use. `~TcpClient` leaves functors, a timer and perhaps a channel
behind that hold a raw `this`, for which the code gives no bound: the model's
client outlives its attempts. So does the connection in a `send` of another
thread, which binds a raw `this` and the caller's string. `send(const void*, int)`
ignores its length argument and is an ordinary `send` in the model.

## 7. Plan

Every invariant and every safety action property of the runs has a theorem; what
is left to the model checker is liveness.

Left to model: `stop()`, `disconnect()` and a second `connect()` of other
threads in `Connector`.
