# A TLA+ model of lotus

lotus (`src/lotus_project/lotus/net`) is a reactor-style network library in C++11: one event
loop per thread, epoll, a timer queue on one timerfd, TCP and UDP servers and clients, and a
thread pool. This directory holds TLA+ modules for it and for the Sudoku servers built on it, the
TLC configurations that check them on small instances, and TLAPS proofs of every safety property.

All paths below are relative to `src/lotus_project/lotus/net/`; the Sudoku servers are in
`src/lotus_project/examples/sudoku/`.

## 1. Inventory of the system

| Component | State | Operations | Talks to |
|---|---|---|---|
| EventLoop, Epoll | `quit_`, `pendingFunctors_` (under `mutex_`), `callingPendingFunctors_`, eventfd, epoll set | `loop`, `quit`, `runInLoop`, `queueInLoop`, `wakeup`, `doPendingFunctors`, `updateChannel`, `removeChannel` | every other component; other threads through the queue and the eventfd |
| EventLoopThread | `loop_` (pointer into the thread's stack), mutex, condition variable | `startLoop`, `threadFunc`, destructor | EventLoop |
| EventLoopThreadPool | `loops_`, `next_` | `start`, `getNextLoop` | EventLoopThread, TcpServer |
| Channel | `events_` (both what is watched and what was returned), `tie_` | `enable*`, `disable*`, `handleEvent`, `remove` | EventLoop, its owner's callbacks |
| TimerQueue, Timer, TimerId | `heap_`, `heapIndex_` of each timer, `cancelingTimers_`, timerfd | `addTimer`, `cancel`, `handleRead`, `reset` | EventLoop |
| TcpConnection | `status_`, channel, buffers | `send`, `shutdown`, `handleRead/Write/Close/Error`, `connectEstablished`, `connectDestroyed` | Channel, EventLoop, TcpServer or TcpClient, user callbacks |
| TcpServer, Acceptor | `connections_`, `idleFd_` | `start`, `newConnection`, `removeConnection`, `handleRead` | two loops: its own and the connection's |
| Connector, TcpClient | `state_`, `connect_`, retry delay; `connection_` (under a mutex) | `start`, `stop`, `retry`, `handleWrite`, `restart`; `connect`, `disconnect`, destructor | EventLoop timers, TcpConnection |
| ThreadPool | `queue_`, `running_`, two condition variables | `start`, `stop`, `run`, `take` | application threads |
| Buffer | vector and two indices | `append`, `retrieve`, `prepend`, `makeSpace`, `readFd` | TcpConnection |
| Sudoku servers | the links of the search; requests cut out of the input buffer | `solveSudoku`; `onMessage`, `processRequest` | TcpConnection, Buffer, ThreadPool |
| UdpServer, UdpClient | channel, `running_` | `start`, `stop`, `sendTo`, `handleRead` | EventLoop |
| Sockets, InetAddress, Log, CurrentThread | none of their own | system calls, formatting | all |

What is hard in it:

* **Concurrency.** Functors, `quit()`, timers and sends arrive from other threads while the loop
  is anywhere in its iteration; the step that publishes something and the step that wakes the
  loop are separate (`EventLoop.cc:110-145`).
* **Lifetime.** epoll keeps raw `Channel*`, the heap keeps raw `Timer*`, functors keep raw `this`,
  and `EventLoopThread::loop_` points into another thread's stack.
* **Ordering.** `events_` is overwritten by the result of each `epoll_wait`, and the vector of
  functors is swapped out and run while a new one fills.
* **Time.** The timerfd is set with a relative time computed after the decision to set it.
* **Retries and limits.** An attempt to connect, its timer, `stop()` and a reset of the channel
  that is still queued overlap; accepting at the limit of descriptors takes four system calls.
* **Blocking.** `epoll_wait(-1)`, two condition variables and `join` all block without a timeout.

What makes each part correct: no wakeup is lost and functors run once in order (EventLoop);
`startLoop` and the destructor return (EventLoopThread); heap, indices and timerfd agree and a
cancellation is final (TimerQueue); the stream is what was sent, the object outlives its
registration, and a closed connection is destroyed once (TcpConnection); nobody sleeps through
the condition it waits for (ThreadPool); every socket of an attempt is closed or handed on, a
stopped client makes no attempt and another one keeps trying (Connector, TcpClient); no
connection is forgotten, no client left waiting, and no thread outlives the server (TcpServer,
Acceptor, EventLoopThreadPool); a buffer loses no byte (Buffer); a puzzle is answered rightly, and
one reply goes to each line (Sudoku). `PROJECT.json` lists the hazards one by one, each at
its line and with the properties that are about it.

## 2. Modules

| Module | Models |
|---|---|
| `TaskQueue` | the abstract promise of `runInLoop`/`queueInLoop`: one FIFO queue, each functor started once |
| `EventLoop` | `EventLoop`, `Epoll::poll`; refines `TaskQueue` |
| `EventLoopThread` | `EventLoopThread`; extends `EventLoop`, whose owner is the new thread |
| `TimerHeap` | the heap of `TimerQueue` as pure operators |
| `TimerQueue` | `TimerQueue`, `Timer`, `TimerId`; extends `TimerHeap` |
| `TcpConnection` | `TcpConnection`, `Channel`, `TcpServer` for one connection, both loops, a worker, the peer and the kernel's socket |
| `TcpServer` | `TcpServer`, `Acceptor`, `EventLoopThreadPool`: many connections, several loops, descriptors that run out |
| `TcpClient` | `TcpClient` and `Connector`, with the user on the loop's thread and on another one |
| `ThreadPool` | `ThreadPool` |
| `ByteQueue` | the abstract promise of `Buffer`: a queue of bytes |
| `Buffer` | `Buffer`; refines `ByteQueue` |
| `SudokuSolver` | `solveSudoku`: exact cover by dancing links |
| `SudokuServer` | one connection of the four Sudoku servers, with and without the pool |
| `*Proofs` | the TLAPS proofs about the modules of that name, section 4 |
| `MC*` | the instances TLC checks. `MCEventLoopThread` is also that of `EventLoop`, which it extends. `MCDataStructures` runs `Buffer` and a driver for `TimerHeap` side by side, `MCSudoku` the solver, a server and the `ThreadPool` |

Operators named `Mutant: ...` in their comment are wrong versions of the operator that follows
them, one for each property, with which TLC finds that property violated. They are used nowhere.

### How state and actions correspond to the code

**EventLoop.** One action per step of `loop()` that another thread can see: `CheckQuit` (the
`while` condition), `PollReturns`, `HandleRead` (eventfd), `HandleEvent` (any other channel),
`SwapFunctors`, `RunFunctor`, `FunctorsDone`. User code runs between `RunFunctor` or
`HandleEvent` and `UserCodeReturns`, and makes any calls on its own loop (`Owner...`). A call of
another thread takes two steps: publish (`QueueInLoop`, `Quit`), then `Wakeup`. The eventfd is
the Boolean `wake`: `handleRead` drains the whole counter. `quit_` is a plain `bool` written by
other threads, formally a data race; the loop calls `epoll_wait`, opaque to the compiler, between
two reads, so that it is modelled as memory. An interrupted `epoll_wait` returns no channel and
the iteration goes on, as in `Epoll::poll`.

**EventLoopThread.** `mpc` is where the owning thread is in `startLoop` or the destructor. The
steps of the new thread are those of `EventLoop`, with its `init` state split at `Publish`: the
init callback may call the loop before it. A quit through a dangling `loop_` has no effect in the
model (section 3, "What the models found").

**TimerQueue.** Time is a discrete clock that may advance between any two steps. A `Timer` lives
at an address that is reused after `delete`; a `TimerId` is address and sequence number, and the
code uses the address only. `resetTimerfd` has the three outcomes of `fromNow`: armed, disarmed
(zero), refused (negative). `handleRead` is `HandleRead` up to the callbacks, one `RunTimer` per
callback, and `Reset`. In callbacks and functors the client adds and cancels timers
(`LoopAdd`, `LoopCancel`); another thread's calls are functors (`OtherAdd`, `OtherCancel`,
`RunOp`); `Destroy` is the end of the loop, after which nothing calls it. Clients cancel a timer
once and while it exists. A read of a freed timer is recorded in `bad`; the model goes on as if the
old index were there.

**TcpConnection.** `events` is `Channel::events_`, `interest` what epoll was told: they differ
because `Epoll::poll` overwrites the first. `sameLoop` is the choice between a server without and
with a loop pool. `newConnection` is the initial state. A message is one or two units, of which the
kernel takes the prefix that fits. `Held` says whether a `TcpConnectionPtr` exists, in the map,
in a functor (`Owning`), in the guard of `handleEvent` or with the worker. The default build keeps
`assert`, so a failed assert is recorded in `failed` and stops the model; so does SIGPIPE, unless
the application ignores it (`Ignored`). The user's `writeCompleteCallback_` and `highWaterMarkCallback_`
are set and call nothing (`QueueCallback`). `shutdown()` of the worker is three steps: `WorkerLooks` reads
`status_`, `WorkerSetsStatus` writes it, `WorkerQueuesShutdown` queues `RunShutdown`. `handleWrite` is translated, and dead, because the constructor does not set the
write callback (`Callbacks`).

**ThreadPool.** What is done under `mutex_` is one step, a wait on a condition variable is a
state of its own, and a waiting thread may wake up unnotified. `running_` is read outside the
mutex by `runInThread`; between two reads the worker takes the mutex, so it is modelled as
memory. `start()` is one step: a `run()` concurrent with it would race on `threads_`.

**TcpServer.** The base loop is 0, those of the pool 1, 2, ...; a loop's iteration is `Poll`, one
step for each channel reported (`Accept`, `handleClose`), `SwapFunctors`, one step for each functor
(`connectEstablished`, `removeConnectionInLoop`, `connectDestroyed`) and `FunctorsDone`, where it
ends if it was told to quit. What `EventLoop` promises, that nobody sleeps over a queued functor,
is taken from there: `Poll` is enabled when the queue is not empty. `Accept` is `handleRead` up to the end of
`newConnection`, which on the base loop includes `connectEstablished`; when `accept` fails with EMFILE
the four calls on `idleFd_` are steps of their own (`CloseIdle` ... `OpenIdle`), between which other threads
open and close descriptors (`TakeFd`, `GiveFd`). The errors that are `LOG_FATAL` are `AcceptFatal`.
The destructor is called by the base loop's thread, also from a callback, and waits for the pool's
threads one by one (`QuitThread`, `JoinThread`); `DtorDone` is `~Acceptor`, which closes `idleFd_`.
Nothing closes the descriptor of a connection, in the code and so in the model; that of the listening
socket is not counted. A start of the pool is one step: what happens
inside it is in `EventLoopThread`.

**TcpClient.** `k` is the Connector, `c` the client, and the loop's iteration is as above. `Poll` picks
which retry timers are due. The handler of an attempt is `handleError`, `handleWriteFails` or
`handleWrite`; `removeConnection` and `restart` are two steps, because `stop()` of another thread may
come between. Another thread's call takes one step to each thing it publishes (`Connect`,
`ConnectorStart`, `Start`; `Disconnect`, `Shutdown`; `Stop`, `ConnectorStop`, `QueueStop`; `Dtor`,
`ConnectorStop`, `DtorQueue`, `DtorDone`). A call on the loop's thread is one step (`LoopConnect`, ...)
and may come between the steps of the other thread's call, but for two cases where the user would use or
destroy an object that is being destroyed: no call comes inside the destructor, and the destructor
inside no call. The user connects once, and not after `stop()`, unless `Again`. Who owns the Connector is
`Held`. Whatever uses a destroyed object is recorded in `dangling` and a failed assert in `failed`;
`Failed` adds to these the assert of `~Connector`, which is read off the state that the last owner leaves. The model
stops at the first of either.

**Buffer.** One action to each public operation, on a record of vector and indices; `call` is the
abstract side of it, the bytes that were put in or given out. Bytes outside the readable part keep
their values, as in the vector. The calls of the integer functions are those of `append`, `prepend` and
`retrieve` with bytes in network order.

**SudokuSolver.** The array of nodes is a record of sequences, one for each field of `Node`. The
constructor is one step to each column and to each row that it may append (`AppendColumn`, `AppendRow`),
in the order of its loops. After that a step is what `solve()` does between two calls of itself: `Choose`
(cover the smallest column), `TryRow`, `NextRow` (uncover, next row), `Return`. `frames` is the stack of
calls with `stack_` in it. A loop along links goes through `Walk`, the nodes up to where it began, and
`Along` applies its body to them one after the other. Loop and body may be told apart so because the body
changes other links than those the loop follows: `cover` goes down its own column and changes up and down
in other ones, and `solve()` goes along a row, which no `cover` changes (`CoverStep`: `LinkedAt` and
`Keeps`). `Grids` are completed boards, to say that there was no answer.

**SudokuServer.** A line is its length and whether its puzzle has `kCells` characters. `Receive` is
the arrival of any number of bytes, the loop of `onMessage` one step a turn. `TakeTask` and `Solve` are a
worker, `SendInLoop` the functor its `send` queued. `sendInLoop` looks for `Disconnected` only, and
nothing ignores SIGPIPE: an answer that comes after a refused line, and so after `shutdown()`, ends the
process (`pc = "killed"`).

## 3. Runs

| Run | Bounds | Shows |
|---|---|---|
| `eventloop` | a loop in an `EventLoopThread`, called by its owner and 1 client, 3 functors | types, no lost wakeup, quit or notification, refinement of `TaskQueue`, queued functors run, `startLoop` and the destructor return |
| `timerqueue` | 2 addresses, 2 timers, clock to 3 | heap/index agreement, no leak, no read of freed timers by cancel, final cancellation, a due timer runs |
| `tcpconnection` | 2 calls (`send` of 1 or 2 units, or `shutdown` of the worker), 1 datum in, kernel buffer of 1 unit, high water mark 2, SIGPIPE ignored | stream order, lifetime, asserts with one loop, callbacks, destruction |
| `tcpserver` | 0 to 2 threads, 2 clients, 0 to 2 descriptors left, 1 taken by other threads | no connection forgotten, no descriptor lost in `handleRead` or by the destructor, no thread after the server, waiting clients answered, closed connections destroyed |
| `tcpclient` | 3 descriptors, 2 successful connections, 3 calls of the user, one `connect()`, with and without `retry_` | sockets closed or handed on, asserts, safe destructor on the loop's thread, final `stop()`, the client keeps trying |
| `datastructures` | vector to 5 bytes, 2 bytes a call, head of 1, `extrabuf` of 1; heap of 6 timers with 3 expirations | index arithmetic, refinement of `ByteQueue`, heap order |
| `sudoku` | 100 boards of 4 by 4; 3 lines of 5 kinds, `kCells` 3, limit 8, 2 workers; a `ThreadPool` of 2 workers with 2 producers, 3 tasks, queue of 1 | links after backtracking, right answers, one reply a line; in the pool no missed notification, each task taken once, `run` and `stop` return |
| `timer_rearm` (violation) | as `timerqueue`, delays 1 and 2 | a late `timerfd_settime` leaves a timer without a timeout |
| `tcp_output_drains` (violation) | as `tcpconnection`, SIGPIPE kills | buffered output is never written |
| `tcp_send_thread_safe` (violation) | same | a queued send runs on a destroyed connection |
| `tcp_fd_left_to_dtor` (violation) | as `tcpserver` | a destroyed connection's descriptor is not closed |
| `client_dtor_channel` (violation) | as `tcpclient` | a Connector is destroyed while it has a channel |

Why these bounds are enough for what is asked. *EventLoop*: the two threads (the owner of the
`EventLoopThread` and a client) make wakeups of one cover the functor of another, and three functors fill the swapped batch, the new vector and
the hand of a functor that queues. *TimerQueue*: two timers give a batch of two, one that cancels or
restarts beside another, and reuse of an address; three ticks let a timer expire, run late
and repeat. *TcpConnection*: with one unit of
buffer space a message of one or two units is written whole, in part or not at all, and two
messages have an order; one shutdown and one send of different threads make the race over `status_`. *TcpServer*: two threads are joined one after the other while the other
still closes connections, the round robin wraps, and the descriptors run out before, between and
after two accepts. *TcpClient*: an attempt that fails, one that succeeds and a reconnection use
different descriptors or the same one again, and three calls make `connect()`, `stop()` and the
destructor, or two of them with `disconnect()`, in any order and on either thread. A second
`connect()` while an attempt is under way fails `assert(state_ == kDisconnected)` by design (`FIXME: check
state`, `TcpClient.cc:84`), so that `Again` is FALSE. *ThreadPool*: two of each kind with room for one let both
condition variables have more waiters than notifications. *Buffer*: vectors of the initial size, grown and
at every fill, with data that fits, overflows by one and needs `extrabuf`, and a CR LF at every place.
*TimerHeap*: six entries are the fewest with which the
entry that replaces a removed one has to move up. *Sudoku*: 4 by 4 boards with contradictions, no
solution, one and many, of which most need backtracking; lines that are too short, just fit, and
are longer than the limit.

CHECK_DEADLOCK is off where the system may stop: a loop that returned, a pool that was stopped,
a bounded clock, a finished connection, an answered puzzle. `datastructures` never stops.

### Fairness

* `EventLoop`: the loop's thread is scheduled while it is not blocked in `epoll_wait` with nothing
  readable; callbacks and functors return; a thread inside `queueInLoop` or `quit` finishes it.
  Nothing is assumed about I/O events or calls.
* `EventLoopThread`: both threads are scheduled; user code returns.
* `TimerQueue`: time passes; the loop's thread is scheduled while it has something to do.
* `TcpConnection`: the loops are scheduled, the worker finishes what it began, and the peer reads.
* `TcpServer`: every loop's thread is scheduled. Nothing is assumed of clients, peers and the other
  threads of the process.
* `TcpClient`: the loop's thread and a thread inside a call are scheduled; timers that are set
  expire, and a server that is tried again and again accepts at some time, with the loop there to see
  it (strong fairness, of the network and the clock).
* `ThreadPool`: threads that are not blocked are scheduled and tasks return. Only weak fairness:
  with finitely many tasks no producer can be overtaken for ever.

### What the models found

Five statements of the code's own comments and asserts do not hold, and a run shows each;
`PROJECT.json` quotes them with their lines. The write callback of a connection is never set, so that
buffered output stays; a queued `send` does not keep the connection alive; a timer that is due when the
timerfd is set is not armed; the descriptor that `handleClose` leaves to the destructor
(`TcpConnection.cc:117`) is not closed there; and `assert(!channel_)` of `~Connector`
(`Connector.cc:30`) fails for a client destroyed on its loop's thread, in its connection callback or
later in the same iteration, because the `resetChannel` of the attempt is still queued.

Other disagreements are reachable in the models and appear in the runs as exceptions that the
properties name:

* `~EventLoopThread` calls `quit()` through `loop_` after a loop told to quit earlier is gone
  (`EventLoopThread.cc:19`).
* A timer cancelled twice is read after its deletion (`TimerQueue.cc:162`; the sequence number in the
  `TimerId` is never compared), and `addTimer` of another thread may read the sequence number of a deleted
  timer (`:113`): `NoUseAfterFree`.
* With server and connection on different loops HUP may be handled twice, which
  `assert` in `handleClose` forbids (`TcpConnection.cc:116`), and `~TcpServer` asserts on a connection that is
  shutting down: `OneLoopAssertsHold`.
* `shutdown()` of another thread looks at `status_` and sets it in two steps (`TcpConnection.cc:314`, under a
  `FIXME: use compare and swap`): a connection closed in between is Disconnecting again, takes a queued send,
  and may watch EPOLLOUT when `Channel::remove` asserts that it watches nothing. `dangling` records the
  overwritten status; `OneLoopAssertsHold` and `UpThenDown` except it.
* A late arming of the timerfd: `DueTimerRuns`.
* `stop()` of `ThreadPool` leaves a waiting producer asleep (`Threadpool.cc:43`): `RunReturns`.
* `stop()` of a client with `retry_`, from another thread, is lost when it comes between the look at
  `connect_` in `removeConnection` and `restart()` (`TcpClient.cc:154`, `Connector.cc:119`): `StopIsFinal` is
  stated without `retry_`. With `retry_`, a stop or a destruction from another thread may also make an
  attempt begin beside another one, where an assert fails: the exception in `AssertsHold`.
* A client destroyed by another thread may leave a functor bound to a Connector that is gone, be called
  by one, or let its Connector go while epoll watches the channel: `LoopDtorIsSafe` is about a destructor
  on the loop's thread, and the second part of `AssertsHold` excepts the other.
* A base loop that goes on after `~TcpServer` runs functors of the dead server: `NoThreadOutlivesServer`.
* Another thread that takes the descriptor of `idleFd_` between two calls leaves the listening socket
  readable for ever: `WaitingIsAnswered`.
* A pool's answer after a refused Sudoku line raises SIGPIPE: `RepliesMatchLines` speaks of replies
  until then.

`NoLostWakeup` leaves out functors the owner queued before `loop()`.

## 4. Proofs

One module of proofs per component, but that those of EventLoopThread are with EventLoop's, those of
SudokuSolver, SudokuServer and ThreadPool share one, and so do the two data structures. Every theorem holds for every value of the constants that the
`ASSUME`s of the component's module admit; what these say beyond the constants' types is named
below. Each inductive invariant was first checked by TLC on the instance of the run, but that of the
solver, which quantifies over whole histories of matrices: of it TLC has checked what follows from it.
Every proof that a step preserves something has one case per action.

**EventLoop** (`EventLoopProofs`), for every set of threads and of functors, nothing assumed:

* `TypeCorrect`: `Spec => []TypeOK`. `TypeOK` is inductive as it stands, because it ties
  `callingPendingFunctors_` to the program counter.
* `NoWakeupLost`: `Spec => []NoLostWakeup`. The property speaks of a blocked loop only and is
  not inductive. `Armed` extends it to every point from which the loop reaches `epoll_wait`
  without another swap: from the swap to the next `epoll_wait`. Between `epoll_wait` and the swap
  user code may queue without a wakeup, because the swap is still to come; and within the
  functors `callingPendingFunctors_` makes the owner wake itself.
* `NoQuitLost`: `Spec => []NoLostQuit`. Inductive with `TypeOK`: `CheckQuit` is the only
  way into `epoll_wait`.
* `ImplementsTaskQueue`: the refinement. The abstract queue is what is left of the batch followed
  by the pending vector; the lemma `StepRefines` shows per action that it is an abstract step or a
  stutter (the swap is a stutter).

**EventLoopThread** (in `EventLoopProofs` too). A step of the thread is one of its loop or leaves the
loop alone, but for the destructor's `quit()` (`ThreadStepIsLoopStep`), so that the lemmas above
carry over: `ThreadLosesNoWakeup`, `ThreadLosesNoQuit`, `ThreadImplementsTaskQueue`. `NoNotifyLost`
is about the condition variable of `startLoop()`. `DestructorIsAnswered` says that a loop that is
being joined has been told to quit and does not sleep without a wakeup under way
(`JoinIsAnswered`): the safety part of `JoinReturns`.

**ThreadPool** (`SudokuProofs`), for any finite sets of threads (`PoolConstants`) and a mark for an
empty hand that is no task (`NoTaskIsNone`):

* `PoolTypeCorrect`, inductive as it stands.
* `NotifyMissesNobody`: `[]NoMissedNotify`. That no producer sleeps over room needs
  `RoomIsClaimed`: while a producer waits, the queue and the producers that were woken and have
  not put yet make up `maxQueueSize_`. It counts, with the cardinality of the producers woken.
* `EachTakenOnce`: `[]TakenOnce`, by counting the places of one task before and after each step.

**SudokuServer** (`SudokuProofs` too), for any streams of lines, any limits with room for an id
(`Limit > kCells + 2`, 100 and 81 in the code) and any number of workers: `RepliesAreRight`, which is
`ServerSpec => []RepliesMatchLines`. `Bytes` is a recursive function; that it exists and adds up is
shown by induction on positions (`SumExists`, `BytesAdd`). The parts of `ServerInv` beyond the types:
`AnsweredAtOnce` (without a pool nothing is under way, and while the connection is up the replies are
the answers to the lines taken), `EachRequestKept` (a line taken is in one place only: queue, a worker's
hand, the loop's queue or the replies) and `NothingLeft` (a loop that is out of `onMessage` has left no
line in the buffer). The last is what fails when `onMessage` answers one request and waits for more
bytes.

**Buffer** (`DataStructuresProofs`), for any sizes. `IsABuffer` (0 <= reader <= writer <= size) is inductive;
one lemma for each operation says what it does to the indices and to the readable bytes.
`RoomIsMade` and `BufferIsQueue`, the refinement of `ByteQueue`, follow from these lemmas.

**TimerHeap** (`TimerHeapProofs`: lemmas; the theorem is in `DataStructuresProofs`), for heaps of any
size and any integer expirations. The paths of `UpHeap` and `DownHeap` are recursive functions; what
they are is shown by induction on positions. The library's induction theorems take an operator as a
parameter, so the induction is on sets of numbers (`Induct`), from the fact that `<` on the naturals
is well-founded. `RotateMoves` and `RotatePermutes` say what a chain of swaps does to the entries,
`UpHeapOrders` and `DownHeapOrders` that it repairs a heap that is ordered but for one entry, and
`InsertOrders` and `RemoveOrders` what `insert()` and `removeTimer()` do. From these,
`HeapStaysOrdered`: `SpecOne => []HeapOrdered`.

**TimerQueue** (`TimerQueueProofs`), for any addresses, timers, clock and calls. One inductive
invariant, `TimerInv`, gives all four safety properties: `HeapIsConsistent` (`HeapConsistent`),
`NoTimerIsLost` (`NoTimerLost`), `CancelUsesNoFreedTimer` (`NoUseAfterFree`) and
`CancellationIsFinal` (`CancelIsFinal`). Its parts beyond the types:

* `HeapAgrees`: heap, timers and allocated addresses agree. `InsertAgrees` and `RemoveAgrees` carry
  the heap's lemmas over to `heapIndex_`; `ExpiredPopped` and `BatchReinserted` go over the loops of
  `getExpired` and `reset()` by induction on the entries they have handled.
* `OnePlace`: a timer is in the heap, in the batch or in one queued functor, and never in two. Without
  "never in two" a functor could insert a timer that is in the heap already.
* `Numbered`, `CancelledGo`: a cancelled timer is gone or is in the batch that `reset()` is about to
  delete, which is what makes `CancelIsFinal` inductive.
* `CancelsRefer`, `CancelingAsked`: a queued cancel is the only one of its timer, which repeats. So
  `reset()`, which deletes one-shot and cancelled timers, does not delete it first.

The discipline of the clients that `NoUseAfterFree` needs is that of the model (`MayCancel`).

**TcpConnection** (`TcpConnectionProofs`), for any bounds:

* `StreamIsIntact`: `[]StreamIntact` with the types.
* `RegisteredStaysHeld`, `UpIsToldOnce`, `OneLoopNeverAsserts`: from one invariant, `LifeInv`, the
  life of a connection from `connectEstablished` (before: `NotYetUp`, after: `UpOnce`) to
  `connectDestroyed` (on its way: `LeavesToDestroy`, after: `AfterDestroy`). `OneLoop` says exactly where
  the functor that destroys is between `handleClose` and `connectDestroyed`, which is what the
  asserts need; `DownOnce` does so with two loops up to the race on `status_`. From it follow
  `PollFindsNoDanglingChannel` and the action property of `DestroyedStaysQuiet`.

**TcpServer** (`TcpServerProofs`), for any number of clients, loops and descriptors. `ServerInv` has the
types (`ServerTypeCorrect`), the numbering of connections (`NumbersGiven`), where each connection is
in its life (`ServerLife`: in the map and up; down and with one removal under way; erased and on its
way to `connectDestroyed`, over two queues), and which threads have been joined (`ThreadsOver`). From
it follow:

* `NoneForgotten`: `[]NoConnectionForgotten`.
* `DescriptorsAreKept`: `[]DescriptorsKept`, which counts the connections that exist and those for
  which `connectDestroyed` has run. What is inductive is `DescriptorsCounted`, where connections are
  counted by the numbers given out, not by a cardinality; the lemma `CountedKept` links the two, and needs
  `ServerLife`: a connection that was made is one or the other. `DtorClosesFd`, which counts only
  those that exist, is the statement of the code that does not hold.
* `NoThreadOutlives`: `[]NoThreadOutlivesServer`.

**TcpClient and Connector** (`TcpClientProofs`), for any number of descriptors, connections and calls:

* `ClientTypeCorrect`, `SocketsAreAccountedFor` and `OwnDtorIsSafe` hold however often the user
  connects. The invariant `ClientInv` knows which descriptor is whose (`SocketsKept`), where the
  one connection is (`OneConnection`), that one `resetChannel` is due after each attempt
  (`ResetKept`) and what a client destroyed on its own thread leaves behind (`GoneQuietly`: no
  attempt that could become a connection, and no half-done call of the other thread).
* `StopsForGood` (`StopIsFinal`) and `ConnectOnceAssertsHold` (`AssertsHold`) assume `~ Again`: the
  user does not call `connect()` a second time. This is also how the run checks them, and they
  are false otherwise: a second `connect()` may start an attempt beside a retry timer. They need
  that at most one timer, attempt or connection exists (`OneAttempt`), that nothing happens
  before the one `startInLoop` (`StartsOnce`), that a new attempt finds `channel_` free
  (`ChannelIsFree`), and that after `stop()` nothing turns `connect_` on again (`StopsFinally`). `AssertsFollow` goes from
  these to `AssertsHold`: of the assert of `~Connector` it is proved that it fails for no channel that epoll
  watches, unless another thread destroyed the client; that it does fail for one whose `resetChannel`
  is queued is what `client_dtor_channel` shows.

**SudokuSolver** (`SudokuProofs` too), for boards of 1, 4 or 9 values and any puzzles (`SolverConstants`:
`BoxSide`, 3 in the code, is 1, 2 or 3, which the arithmetic of the columns' names `kRow + row*10 + val`
needs to keep them apart; a puzzle is any function from cells to integers, a member of `Grids` any
completed board). `SolverInvariant` is the inductive one; `LinksStay` (`LinksConsistent`) and
`AnswerRight` (`SolvesRight`) follow from it. The argument:

* *Rings.* `Ring` says of two links that they undo each other and go through a set of nodes in the order of
  their numbers. Passing over a node and putting one at the end keep it (`RingRemove`, `RingAppend`), a ring is
  determined by its nodes (`RingUnique`), and `Walk` gives them in order (`RingWalks`). These are
  inductions over sets of numbers (`Induct`), as those about the heap.
* *Covering.* `Open(l, O, N)`: the columns of O are linked, each with the nodes of the rows that have all
  their columns in O. `CoverStep`: covering c takes O to O without c, and `uncover(cover(l, c), c) = l`, field by
  field. It rests on the same fact for one node (`RelinkUnlink`), carried over a row and, by induction on
  its rows, over a column (`CoveringExists`). `CoverRowStep` carries it over the other columns of a row,
  which `solve()` must uncover in the reverse order.
* *The constructor.* `ColumnsMade` and `RowsMade` say which columns and rows there are at each step. The names of
  columns are met once each (`NamesDiffer`) and all of them (`NamesAll`), and a row that may be
  taken has its four columns (`TakesNeeded`), so that `new_row` finds them.
* *The search.* `History` has the matrix and the open columns at each call of `solve()` that has
  taken a row; each is the one before with a column and a row covered. `Solving` ties it to `frames` and the
  links: what `NextRow` and `Return` uncover is the last that was covered, so that they come back to a
  matrix of the history. `LinksConsistent` is what an open matrix looks like (`OpenConsistent`).
* *No answer is passed.* On a completed board every unit is the unit of one cell only, by
  counting (`RightOnce`: as many cells as values). While only rows of such a board have been taken, every open
  column has a live row of it (`GridRow`). `Ahead` says that its row is at or below the one being tried, at every
  call up to the first that has left it; the `...Ahead` lemmas show it for each step. When the first call
  returns false there is none (`ReturnAhead`). It does not matter which column is taken.
* *The answer.* When no column is open a row was taken for every name that is needed (`AllTaken`), for
  each cell once (`OneRowEach`), and `Cell` and `Val` read it (`RowReads`), so that `Solved` writes a board that
  completes the puzzle (`WrittenRight`).

Only model-checked: the liveness properties, which are out of the prover's reach. Every safety property
and every action property of a passing run is a theorem. The termination of the search is neither
stated nor proved: the runs show that it ends on their boards.

## 5. What is left

Not modelled:

* `UdpServer`, `UdpClient`: a datagram is one call with no state between two of them. Their
  `sendTo` queues the caller's pointer; what the caller does with its memory is outside the library.
* `Sockets`, `InetAddress`: wrappers without state; what `accept`, `close`, `getSocketError` and
  `isSelfConnect` return is modelled where they are called.
* `Log`, `CurrentThread`, `Callbacks`, `copyable`, `noncopyable`: formatting, a cached id, aliases.
* Of TcpConnection: socket options and out-of-band data (EPOLLPRI).
* Of ThreadPool: tasks that call `run()`, which no code here does.
* `main()` of the Sudoku servers, and the logging of their `onConnection`.
