# oneproxy-monitor in TLA+

oneproxy-monitor is a database proxy: it accepts clients, connects each to a
backend, passes bytes both ways and counts what it sees. This directory holds
TLA+ modules of its concurrent core, the TLC configurations that check them on
small instances, and proofs that TLAPS checks for every value of the constants.
Paths below are relative to the repository.

## 1. The system

### Threads

| thread | code | does |
|---|---|---|
| accept threads | `oneproxyserver.cpp`, `tcpserver.cpp` | accept clients, give each to a client thread or to the task queue |
| manager (main thread) | `connectmanager.cpp` | gives clients in the task queue to client threads, shuts down |
| client threads | `clientthread.cpp` | an event loop each; relay all their connections |
| assist thread | `assistthread.cpp` | once a second: probe the databases, refresh the clock, sweep the pool, back up statistics |
| statistics database thread | `util/threadtask.h`, `stats/database/dbmanager.cpp` | takes tasks from a list, writes SQL |
| page thread | `httpserver/` | serves a statistics page |
| virtual-IP thread | `util/vip.cpp` | pings an address and takes it over |
| monitor and parser threads | `monitor/` | in monitor mode, instead of the proxy: packets from pcap to connections |
| keep-alive parent (a process) | `util/keepalive.cpp`, `main.cpp` | restarts the proxy, passes signals on |

### Components: state, operations, how they interact, what is hard

**Dispatch** (`oneproxyserver.cpp`, `connectmanager.cpp`, part of
`clientthread.cpp`). State: `taskQueue` with `mutexLock` and its condition, one
socket pair per client thread over which addresses of `NetworkSocket` travel,
the counters `_wait_connection`, `_doing_connection`, `_fail_connection` of each
client thread, `stop`, `stoped`, and totals in `Record`. Operations:
`accept_clientRequest`, `add_task`, `start_child`, `alloc_task`,
`read_clientSocket`, `finished_connection`, `get_serverFailed`,
`retry_failedConnection`, `handle_signal`, `stop_accept`, `stop_thread`. Hard:
the counters and the queue's size are read without a lock, and a connection
moves between counters in two writes; the wait is not guarded by a test under
the lock; unsigned counters pass through "minus one"; a client that is popped is
written and reported after the lock is released. Correct when: every client is
in one place; the counters are right up to the steps under way; what is handed
over is served; a queued client is served when there is room; the limit holds.

**Relay** (`clientthread.cpp`, `networksocket.cpp`, `connection.h`). State of a
`Connection`: two sockets with a receive buffer and a left-over each, the event
each is registered for, the plug-in instance, the failure count, retry timers.
Operations: read and write events of both sides, `send_data`, `write_data`,
`alloc_server`, `get_serverFailed`, the retry timer, the idle timeout,
`finished_connection`. Hard: partial writes in two directions, each of which
switches the registration of both sockets; errors in the middle of a handler; a
timer that holds a pointer. Correct when: two reliable ordered streams until it
closes; it can always be woken; end of file loses nothing; failures stay local.

**Backend sockets** (`protocol/protocolbase.cpp`, `protocol/connectionpool.cpp`,
`conf/config.h`, `assistthread.cpp`). State: `idle_sock` (a deque per database
and arguments), `used_sock`, `DataBase::connectNum`, `current_time`. Operations:
get, create, save, set, release, sweep. Hard: the limit is tested and counted in
different steps; sockets move between tables and threads; ages are differences
of wall-clock times; the sweep relies on the order of a deque. Correct when: one
owner per socket; the count is right; the sweep is exact.

**Task threads and the statistics database** (`util/threadtask.h`,
`stats/database/`). State: a list, a flag, a lock with its condition; the
database object; the tables. Operations: `add_taskData`, `set_stop`, the
worker's loop, `init_childThread`, a save or an update per kind of record. Hard:
loop condition and wait use separate, unlocked tests; the worker is started by
the constructor of a base class; a statement may fail in the middle of a task.
Correct when: first in, first out, once; nothing left at exit; the tables hold
what was recorded.

**Totals** (`stats/record.cpp`, `assistthread.cpp`, the pages of `httpserver/`).
State: unsigned totals and maps of rows, each with its own lock, a backup of all
of them and the time it was taken. Operations: one report per event, `bak_record`,
`get_realTimeRecord`, `record_clear`. Hard: the reset does not take the locks of
the totals, the page looks for a backup without its lock, and the first
difference forgets the backup. Correct when: no report is lost; a page shows
what has changed since the backup; a missing backup is replaced.

**Traffic monitor** (`monitor/`). State: a list, flag and lock per thread; per
parser the connections by the key of a packet; totals. Operations: the capture
callback, `SuperMonitor::handle_task`, `ParseData::handle_protocolData`,
`stop_childThread`, the destructor. Hard: two workers in a row with the unlocked
loop, packets of one connection on several threads, an end in which half of
them are not waited for. Correct when: every packet is parsed or dropped on
purpose; order within a thread; a closed connection stays closed.

**Process life cycle** (`main.cpp`, `util/keepalive.cpp`, `managerbase.cpp`,
`pidmanager.h`). State: two processes per instance, what each does with a
signal, the pid files of a directory. Operations: fork, restart, the handlers,
`handle_reboot`, `save_pid`, `unlink_pid`. Hard: a signal at any moment, with the
default action in some of them; a crash leaves the file behind; several
instances share a directory. Correct when: who is asked to end does; an
undisturbed instance serves; nothing is left behind.

**Virtual address** (`util/vip.cpp`, `util/ping.cpp`). State per host: whether
its interface has the address, the last claimant heard, claims in the socket.
Operations: one round of look, ping, take, claim. Hard: pings and claims are
lost or late. Correct when: one holder once all claims are heard; somebody holds
it as long as a host runs.

**Not modelled.** `HandleManager`: nothing here allocates a handle, the plug-ins
that do are not in the repository, and without the sequences they make any
property would be about invented callers. The choice of a database
(`freeimpl.cpp`: a scan for the first active one) and the probe that feeds it.
The sockets of `HttpServer`: `clear_httpClient` closes a descriptor and then
deletes the socket, whose destructor closes the number again
(`httpserver.cpp:114`); a table of descriptors shared by all threads is in none
of the models. The watcher map inside `IOEv`. SQL text (`sql/`), the text of
statements and pages, parsing of ini files and HTTP, TLS (nothing turns it on;
its buffering is OpenSSL's), packets and plug-in registration (only
`FakeProtocol` exists here, which forwards), logging, system-call wrappers,
hashing, the event loops that Linux does not use (`epoll.cpp`, `ioselect.cpp`:
`IoEvent::get_instance` returns `IOEv`), tests and vendored code. Most lines of
the repository are of these kinds: a copy of SQLite's header, a generated lexer
and parser, an ini library and the HTML of the pages.

## 2. Modules

| module | what it is |
|---|---|
| `Dispatch` | accept threads, manager, task queue, socket pairs, counters, totals |
| `Lines` | the abstract specification of the dispatcher: lines in which clients stand until a thread serves them |
| `DispatchProofs` | proofs about `Dispatch`, and that it implements `Lines` |
| `MCDispatch` | its instance for TLC: one client stands for all in the temporal property |
| `Relay` | one connection in its client thread, with its two peers and the kernel's buffers |
| `Streams` | the abstract specification of a relayed connection: two ordered streams that may be closed |
| `RelayProofs` | proofs about `Relay`, and that it implements `Streams` |
| `BackendPool` | acquiring and releasing backend sockets, the pool, the counts, the sweep |
| `Leases` | the abstract specification of the pool: a socket is leased to one connection at a time |
| `BackendPoolProofs` | proofs about `BackendPool`, and that it implements `Leases` |
| `TaskQueue` | `ThreadTask`: producers, `set_stop` and the worker |
| `StatsDB` | extends `TaskQueue`: `DBManager`, its construction, the handler's statements and the tables |
| `MCStatsDB` | the records of two connections, assumed to be in the order the proofs ask for |
| `StatsDBProofs` | proofs about `TaskQueue` and `StatsDB`, and that `StatsDB` implements `TaskQueue` |
| `Records` | totals, backup, real-time difference and reset |
| `RecordsProofs` | proofs about `Records` |
| `Monitor` | capture callback, monitor threads, parser threads, the end |
| `MonitorProofs` | proofs about `Monitor` |
| `MCMonitor` | three connections and their packets |
| `KeepAlive` | parents, children, signals and pid files of several instances |
| `KeepAliveProofs` | proofs about `KeepAlive` |
| `Vip` | hosts that share an address |
| `VipProofs` | proofs about `Vip` |

`Relay` and `BackendPool` meet in a socket: `Relay!pooled` is
`BackendPool!SetBackendConnect`, its other endings are `ReleaseBackendSocket`.
`Dispatch` and `Relay` meet in `DoingConnection` (`Relay!Init`), in
`ServerFailed` and `RetryFailed` (`Relay!ConnectFails` and its timer) and in
`FinishedConnection` to `RemoveConnection` (`Relay!Finish`). `StatsDB` is
`TaskQueue` with a handler: every step of it is a step or a stutter of
`TaskQueue`, and the run `statsdb` checks the queue's properties under it.
`Records` and `Dispatch` share the total of client connections: `Dispatch` has
the threads that report to it, `Records` those that read and reset it.
`KeepAlive!Leave` is the end of `start_child` (`Dispatch!AllocTaskReturns` and
after). Definitions whose comment begins with *Mutant* are plausible mistakes;
no specification uses them. PROJECT.json says which definition each replaces and
which property then fails.

### Dispatch

One action per step of a thread between two reads of shared state. `apc[a]`,
`tpc[t]` and `mpc` say where a thread is:

* accept thread: `Accept`, `TestSize` (line 72), `ChooseThread`
  (`get_minTaskThread`), `WriteSocketPair` or `AddTask` with
  `RecordGlobalQueue`, `RecordAccept`;
* client thread: `ReadClientSocket` reads all that is in the pair into `batch`;
  then for each entry `StartTask` (the report), `TakeUp` and `DoingConnection`
  (the two halves of `doing_connection`) and `RecvConnection`, in the order of
  the code; an entry that is not an address is `FollowContent`. A connection ends
  with `FinishedConnection` (the report), `DoneConnection` (the counter),
  `RemoveConnection` (its socket, its place in `connectList`, the object) and
  `SignalFinished`. A failed connect is `ServerFailed` (the timer is armed, one
  counter goes down) and `DoingFailConnection` (the other goes up); the timer is
  `RetryFailed` and `RetryFailConnection`, or `FollowFreed` if the `Connection`
  was deleted in the meantime;
* manager: `TestStop`, `TestWork`, `Park`, `SpuriousWake`, `StopAccept`;
  `FillThread`, `NextThread`, `Spill` and `AllocTaskReturns` are the tests of
  `alloc_task`'s two loops (`loop`, `fill`), `PopTask`, `HandOver` and
  `RecordOutGlobalQueue` what follows them; `popped` is what was taken out of
  the queue and not yet written. The first loop does all three under `mutexLock`
  (`Locked`), the second pops under it. `JoinAcceptors` is the end;
  `HandleSignal` and `SignalStop` are the signal handler.

`pipe` holds records with `isAddress`, since `alloc_task` writes `ns` where
`accept_clientRequest` writes `&clientSocket`. Reading the object's bytes as a
pointer is undefined, and so is working on a deleted `Connection`: `wild`
becomes TRUE and no thread moves after it.

Abstractions. What is merged: a scan over all threads' counters is one step, and
so is the sum of the three counters of one thread. `TaskNumLags` is about what the counters add up to at a moment; a sum whose three
reads are torn apart by writes may be off by as many connections as move between
the counters meanwhile, and that is not in the model. The push and the
signal of `add_task` are one step, being one critical section, and so are
`front()` and `pop()`. The second half of `doing_connection` goes with
`connectList.push_back`, and `close_fds`, the release of the server's socket and
`delete` go with `connectList.remove`: only the thread itself looks at that list.
Arming the timer goes with the first half of `doing_failConnection`, for the same
reason.

What is left out: writing to a socket pair does not fail and is not partial (a
few pointers fit its buffer). Registering a socket with libev does not fail
(`IOEv::add_ioEventRead` returns 0). What a retry does after its counters is in
`Relay`: the socket that failed stays in `curservs` (`protocolbase.cpp:264`), so
that the connection does not ask for a server again (`failed`), and if the retry
ends it, that is a `FinishedConnection` from the loop. Closing the listening
sockets stops `Accept`. The signal handler's own lock is not taken: that it may
wait for its own thread is listed as a hazard. `Word` stands for 2^32 and 2^64;
the assumption makes it larger than any number that occurs, so only "minus one"
wraps.

### Relay

`todo` is what the running handler still has to do: a handler that reads is one
step up to its first write, and each of the three writes of `send_data` is a
step, because between two `send()` calls the peers act. `WriteOut` is
`write_data` with both branches of its registration code; `sendData` is
`m_sendData`, the left-over of the last write, which goes out before new data.
`Finish` is `finished_connection` with `protocol_releaseBackendConnect`;
`status` keeps what ended the connection. `server` is `curservs`: absent, a
socket that failed to connect, or connected.

The peers send numbered bytes, stop reading (`room` is what the kernel still
takes), close after sending, or reset. A closed peer may still read what is on
the way: a half-closed one does, and one that is gone answers with a reset. A
write to a peer that was reset after a close is `Killed`: `send()` without
`MSG_NOSIGNAL`, and nothing in the program handles SIGPIPE.

Abstractions. `FakeProtocol` forwards everything; a plug-in may also answer with
"close" or "fail", so `Verdicts` is left open, and so is whether it ends in a
transaction (`keep` in `Finish`). One database and one backend socket: with
`FakeProtocol` a connection never changes between master and slave. A read that
returns EAGAIN or EINTR changes nothing and is a stutter. A socket that the
kernel reports in error is readable; the read sees end of file or an error. The
idle timeout may strike at any time. Descriptors are not 0.

### BackendPool

`pc[c]` is where a connection is in `protocol_getBackendConnect`. Each critical
section of the pool is one step; `TestLimit` is another, outside. Every modelled
connection runs in a thread of its own, which is the general case: connections
of one thread interleave less. Times are ages relative to the pool's
`current_time`, all ages beyond both configured times being one; the clock may
be set back by up to `MaxBack`, and `Elapsed` is the unsigned difference.
`SetCurrentTime` occurs before and after `Sweep`, as in the code.

Abstractions. `connect()` and `inc_connectionNum` are one step, and so are
`close()` and `dec_connectionNum`. A database is one key of `idle_sock` (the
hash is taken to be injective, connection arguments are left out). The tests of
`used_sock.size()` without the lock are left out: a connection that uses a
pooled socket has it in `used_sock` (`OneOwner`), so they never hold, and for
the same reason `set_backendConnect` never fails. `check_active` always succeeds:
`check_socketActive` returns true.

### TaskQueue

`AddPush`/`AddSignal`, `SetStop`/`StopSignal` are the two halves of
`add_taskData` and `set_stop`; the worker's `TestStop`, `TestDrained`,
`TestEmpty` read the flag and the list one at a time, without the lock. `added`,
`handled` and `addedAtStop` are histories. A `set_stop` whose signal falls
between the worker's test and its wait is lost, and the worker then waits for
ever: `SignalDrains` is therefore about signals that find it waiting.

### StatsDB

A producer is a connection, its script the records it makes in order: its
arrival, traffic, an execution with its result, a transaction. `Record` is the
push of `TaskQueue` with the next record; `Handle` is the worker's handling of
one record: `Statements` are the SQL statements `DBManager::start` makes of its
kind, each on a row known by table and key, and any set of them may fail. A
row's value is how often it was updated. `EnterBody` and `ClearDbBase` are the
rest of the constructor, beside the worker: `InitChildThread` runs the base
class's version while `ctor = "base"`, `CreateDBObject` stores an object that
`ClearDbBase` may still wipe out. `dbBase` starts as garbage or NULL, since
nothing sets it before the constructor's body.

Abstractions. Opening the file is part of a statement and fails with it. The
option that turns the database on is on. Records of one connection come in the
order of the relay, not from two threads. Hash codes do not collide; an
execution's key has the tick of the clock in it, and the instance gives the two
executions different ticks: the same statement twice in one tick makes two rows
with one key, and each update then adds to both. Values are not compared: that
`DBManager` stores `start - end` as a transaction's time (`dbmanager.cpp:235`)
is outside the model. The process may also end before the list is empty
(`managerbase.cpp:82` does not wait); the model lets the worker go on.

### Records

Each change of `sum_currentClientConn` is a load and a store under its lock, so
that the reset's store, which does not take it, may fall between. Everything
under one lock is otherwise one step: the row of a client, the copy. `bak` is
what the backup holds of that row. `start` abstracts the time of the backup to
the two outcomes of its test. `since` counts the arrivals since the copy and
`torn` says that a reset has cleared what the backup still holds.

Abstractions. Two totals stand for some thirty: one that threads change under a
lock and the reset stores to without it, and one in a map. After a reset with
open connections `sum_currentClientConn` passes below zero when they close; that
is why `CurrentUntilReset` ends with the first reset. The fields that are
changed through a pointer after the map's lock is released (`record.cpp:543`)
lose updates and are left out: nothing but "some are lost" could be said. There
is one page thread, which handles one request at a time.

### Monitor

A packet is its position in `captured`; its flow is one direction of one
connection, which is the key of the parser's map. `Capture` is the callback with
`monitorData`; `Dispatch` is the rest of a monitor thread's turn, `RoutePort` the
choice of the parser, `Dropped` its filters; `HandleTaskData` is
`handle_protocolData`. `StopThread` tells the threads to stop one after the
other; `Joined` are the monitor threads the destructor waits for, which are every
second one, because its iterator is advanced twice per turn; with an odd number
of threads it runs past the end, so `NMon` is assumed to be even. A monitor that
was not waited for and routes to a deleted parser is recorded in `touched`.

Abstractions. A pop is merged with the handling, since a list has one reader. A
spurious wake-up leads where a thread is that has not tested yet. `m_stop` is
read by the callback only, so it is part of its step. The list of local
addresses is not empty. An RST has no kind of its own: the parser tests only for
FIN and SYN (`parsedata.cpp:153-165`), so that it passes for a packet with data,
which keeps or makes an entry of the map. No two connections have the same
addresses and ports.

### KeepAlive

Per instance a parent in `keepalive()` and a child in `ManagerBase::start`; each
`signal()` block, the wait, the sleep, the restart is a step. `inbox` are
signals on their way to a parent; `HandleSignal` is the handler with everything
that `kill(0, ..)` does to the parent itself and to a child before or after the
child's own `signal()` calls. `HandleReboot` takes any file of the directory and
sends USR1 to the process it names: `save_pid` writes the parent's pid, or that
of init when the parent is gone. `asked` and `abrupt` are histories: who was to
end, who lost a process without its clean-up.

Abstractions. Process ids are not used again. Two signals of one kind on their
way are one. When the child's `start_child` returns is open (`Leave`): its flag
is set before that, but the signal to the manager may be lost between its test
and its wait (`connectmanager.cpp:187-195`), its queue may never be found empty,
the handler may wait for the lock that its own thread holds
(`connectmanager.cpp:208`), and in monitor mode the flag is read only after
another packet (`monitormanager.cpp:143`). Keep-alive and a pid file are both
configured.

### Vip

A round of `Vip::start` is `Look` (one claim read, the address given up unless
the last claimant is the host itself), `PingAnswered` or `PingFails`,
`SetVipAddress`, `SendBroadcast` or `SendFails`. `flight` counts claims on their
way between two hosts, delivered in order per sender; any may be lost, and one
that finds a full socket is. A process that ends leaves the address on the
interface, and the kernel goes on answering pings for it (`ProcessEnds`); a
machine that ends takes it along (`HostDies`); a start gives it up.

Abstractions. The ioctl calls succeed. A ping fails at any time and is answered
only if some interface has the address. When a claim is lost, two hosts may hold
the address for good, each of them hearing its own last: `OneHolderWhenQuiet`
excludes that by `lost`.

## 3. Runs

Passing runs:

| run | checks | instance |
|---|---|---|
| `dispatch` | `TypeOK` `OnePlace` `TaskNumLags` `RecordsAddUp` `HandedIsServed` | 2 clients, 2 accept threads, 1 client thread, limit 1, failures, retries and shutdown at any time, fair |
| `relay` | `TypeOK` `StreamIntact` `NeverDeaf` `EofLosesNothing` `PooledFlushed` `ImplementsStreams` `EveryByteArrives` | 3 bytes each way, kernel buffer of 1, 3 attempts, fair |
| `pool` | `TypeOK` `OneOwner` `CountsOpenSockets` `SweepClosesIdle` `IdleLeaves` `ImplementsLeases` | 2 connections, a pooled and an unpooled database, 3 sockets, a clock that may be set back, fair |
| `statsdb` | `DBTypeOK` `InOrderOnce` `DrainedBeforeExit` `SignalDrains` `UpdatesCounted` `SavedUnlessBornEarly` | 2 connections with 7 records, one failing statement, stop at any time, fair |
| `records` | `TypeOK` `ShowsTheChange` `CurrentUntilReset` `BakComesBack` | 2 connections, backups, pages and resets at any time, fair |
| `monitor` | `TypeOK` `OrderWithinThread` `ClosedForGood` `NothingLost` `JoinedNeverTouches` | 2 monitor and 2 parser threads, 3 packets of 3 connections, the end at any time |
| `keepalive` | `TypeOK` `CleanStopLeavesNothing` `AskedEnds` `UndisturbedServes` | 2 instances, 2 signals, 1 crash or failing fork, fair |
| `vip` | `TypeOK` `OneHolderWhenQuiet` `AddressAnswers` | 2 hosts, 3 claims in a socket, 2 on the way per pair, fair |

What the less obvious ones say:

* `TaskNumLags`: the load that `get_minTaskThread` reads is the number of
  connections served, or one less. It is one less while a client is taken over,
  because `doing_connection` is called before `recv_connection`; while one
  leaves, because `done_connection` is called before `connectList.remove`; and
  between the two writes of `doing_failConnection` and of
  `retry_failConnection`, from the first failed connect on. With no other
  connection it is 2^32 - 1, and the thread looks full. A connection that ends
  while its timer is armed stays in `_fail_connection` and is missing in
  `_doing_connection`, which goes below zero; the sum is right all the same.
* `RecordsAddUp`: the unsigned totals pass through "minus one" when a client
  thread is faster than the accept thread's report, and always come back. Each
  total is off by the reports that are on their way, in either direction:
  `sum_waitInGlobalQueue` still has the client that the manager has popped, and
  `sum_handingClientConn` no longer has the one that is about to leave the list.
* `NeverDeaf`: a live connection is either flowing (all sides watched for
  reading, nothing left over) or blocked on exactly one side (that side watched
  for writing, the other not at all, left-over on that side only).
* `EofLosesNothing`: when an end of file ends the connection, all that was sent
  before it has been written to the other side.
* `PooledFlushed`: no half-written request returns to the pool; it says nothing
  of what the kernel still holds of a response.
* `OneOwner`: also that the look-ups in `used_sock` never fail.
* `SweepClosesIdle`: while the clock has never been set back, a sweep closes
  only sockets idle for longer than `IdleRelease`, and all that were idle for
  longer than both times; afterwards also those that seem to be from the future.
  Leaving the deque at the first recent socket is right because the deque is in
  order of last use.
* `UpdatesCounted`: the rows of a user or an execution hold exactly the updates
  recorded for them. Nothing but the order of the queue puts a row there before
  its update.
* `SavedUnlessBornEarly`: `init_childThread` runs while the constructor is still
  at work; only then can the worker end up without a database.
* `ShowsTheChange`: a real-time page shows what came since the backup was
  copied, although it looks for the backup without the lock, unless a reset fell
  between.
* `OrderWithinThread`: packets that went through one monitor thread reach the
  plug-in in order. Over two threads they need not, which is why it is so
  restricted, and `ClosedForGood` with it.
* `NothingLost`: a captured packet is parsed, dropped on purpose, queued for a
  thread that still runs, or came after its parser was told to stop.
* `JoinedNeverTouches`: a parser that was deleted is used only by a monitor
  thread the destructor does not wait for.
* `AskedEnds`: whoever got INT, or TERM at its default, or USR1 from a new
  instance, ends with its child in the long run. There are two exceptions: a
  child that was told and whose `start_child` does not return, for which nothing
  in the code speaks (`Stalled`), and one that has lost its parent to a signal
  at its default and goes on. So a child that was not told is never what keeps
  an instance, and neither is a parent whose child has ended.

Violated runs, each of one property that a comment or the README of the
repository states (the findings of PROJECT.json quote it):

| run | property | what happens |
|---|---|---|
| `dispatch_queue` | `QueuedReachesThread` | `connectmanager.cpp:151,175`: the bytes of the socket object travel instead of its address |
| `relay_retry` | `RetryFindsConnection` | `clientthread.cpp:594`: the timer is not cancelled when the client leaves |
| `keepalive_crash` | `KeptAlive` | `pidmanager.h:85`: after a crash the new child finds the old file and stops its own parent |
| `statsdb_monitor` | `UpdatesCounted` | `parsedata.cpp:307`: the row is inserted under a key that no update looks for |

Some things the code does were seen in the models and are no properties, since
the code does not keep them: the last signal to the manager may be
lost, and a client then stays in the queue of an idle proxy; threads that test
the limit together exceed it (`protocolbase.cpp:266`); a clock that is set back
makes the sweep close recent sockets (`connectionpool.cpp:193`); the second
attempt to connect closes the client, while `config.h:231` says that it is closed
after `tryConnServerTimes` attempts (the hazard at `protocolbase.cpp:264`); a stop
of the database thread may be lost; a stopped virtual-IP thread keeps the
address.

### Bounds, and why they are enough

* Dispatch: with a limit of 1 and two clients the proxy is empty, full and over
  its limit; two accept threads race for the last place, both clients can be in
  one read of the socket pair, and one may be popped while the other fails, is
  retried or ends. The counters change between the manager's test and the first
  loop of `alloc_task`, so that both of its loops hand out clients. What this
  instance cannot show is the choice between two threads and a queue of two. The
  type, the three safety properties and `ImplementsLines` are proved for any
  number of clients and threads (section 4). TLC has also finished, on instances
  of which no configuration is kept, with 3 clients, 2 client threads and limit 2
  (safety, with the clients and the accept threads as symmetry sets; 1,667,520
  states), and with 2 clients, 2 client threads and limit 2 (the five properties
  of the run and `ImplementsLines`, fair; 200,019 states). In the second one the
  second loop of `alloc_task` is never reached; in the first, and in the run,
  every action is. `HandedIsServed` is about one thread and its socket pair;
  another thread touches those only through the accept threads' and the manager's
  choice. A client does not return after it was closed: `Accept` takes one not
  seen before, and clients are interchangeable.
* Relay: `SndBuf = 1` makes any write of two bytes partial; with three bytes
  there can be one delivered, one left over and one unread in the same
  direction, and both directions can block one after the other. `TryTimes = 3`
  tells the second failure from the last. Because the failed socket stays in
  `curservs` (the hazard at `protocolbase.cpp:264`), the branch of `ConnectFails`
  for the last attempt is only reached with `TryTimes = 1`; the proofs cover every
  value.
* BackendPool: two connections compete for one socket, and a third descriptor
  lets one be opened while others idle; with `Limit = 2` the test of the limit
  refuses while both idle or are used. Ages beyond the longest
  configured time need not be told apart; `IdleCheck = 1 < IdleRelease = 2`
  gives all three regions. `ClockMod = 16` is larger than any real age, so that
  only a negative difference wraps. `MaxBack = 1`: the clock is set back by one.
* StatsDB: two connections interleave their records, with an execution of the
  same statement in each, so that a second insertion meets an existing row; one
  failure is enough to separate a row from its update. The arrival of the second
  connection is left out, being the first one's under another key.
* Records: two threads can lose each other's update, and one can be between load
  and store while a reset comes; a further one repeats the second. `Word = 8` is
  larger than the connections, so that only "below zero" wraps. A connection
  that is gone does not come back.
* Monitor: with two monitor threads packets 1 and 3 go through one of them and 2
  through the other: three packets are the least that gives both an order to keep
  and one to lose. Two parsers tell routing by remote port from any other.
* KeepAlive: a second instance stops the first; two signals meet each other or
  one a restart; one crash leaves a file behind.
* Vip: two hosts take over from each other and cross their claims; a queue of
  three and two on the way let one host act on claims out of date.

`CHECK_DEADLOCK FALSE` is set where the system really may stop: Dispatch
(shutdown, or all clients closed), Relay (the connection is over), StatsDB
(nothing to do, or the worker has ended), Monitor (all is over, or the capture
ended at its bound) and KeepAlive (everybody has ended). BackendPool, Records and
Vip never stop, and TLC checks it.

### Fairness

Only what scheduling and the event loop give. Dispatch: every thread goes on
with what it has begun; not that clients arrive, connections fail or end, timers
fire or signals come. Relay: libev is level-triggered, so a handler whose event
stays due runs; a running handler goes on; peers that are there go on reading
(used by `EveryByteArrives`, which is about backpressure, not about peers that
stop); nobody need send or close. BackendPool: the assist thread goes round and
time passes. TaskQueue and StatsDB: threads are scheduled, a thread that holds
the lock goes on; nobody need record or stop, and a spurious wake-up never
helps. Records: the assist thread and the page's thread go on with what they
have begun and time passes; strong fairness only for taking `bakRecordMutex`,
which both hold briefly and which a thread that waits for gets in the end;
nobody need connect, look at a page or reset. KeepAlive: processes run and
signals on their way arrive; nobody need start, signal or crash anything, and
`start_child` need not return. Vip: a running thread is scheduled; pings and
claims may fail for ever, and no host need start or end. Monitor has only safety
properties and no fairness.

## 4. Proofs

TLAPS proves the following for every value of the constants that satisfies the
modules' named assumptions.

`StatsDBProofs`, first about the queue (any producers, any tasks):

* `TypeCorrect`, `FirstInFirstOut`: `Spec => []InOrderOnce`, `NothingLeftAtExit`:
  `Spec => []DrainedBeforeExit`.
* The inductive invariant adds `WorkerHolds` (a task is in hand only while it is
  run, so that what is handled and queued makes up the whole when the worker is
  at its tests), `FlagSeen` (the second half of the loop condition is evaluated
  only over a flag that is set) and `StopCount`. `DrainedBeforeExit` follows at
  `TestDrained`: the list is empty, the flag is set, so what was pushed before
  it is handled.

Then about the database (any connections, records, tables and failing statements):

* `ImplementsTaskQueue`: `DBSpec => Spec`, that is, `DBManager` with its
  construction, its handler and its tables is a `ThreadTask`: each step is one of
  the queue or leaves the queue alone. With the theorems above this gives
  `RecordsInOrder`: `DBSpec => []InOrderOnce`, and `RecordsDrained`:
  `DBSpec => []DrainedBeforeExit`.
* `DBTypeCorrect`, `SavedForAll`: `DBSpec => []SavedUnlessBornEarly`. The
  inductive invariant says that the worker is at the head of its loop until
  `init_childThread` has returned (`AtLoopUntilInit`), that the constructor's
  end leaves no garbage (`ClearedWhenReady`), and that a worker whose start was
  not early has the database (`MadeUnlessEarly`). `StatementsOfTask`: a record
  is handled with insertions only or with updates only; `AfterStatement` and
  `ExecuteRows` carry what is saved over the statements of a task.
* `UpdatesAreCounted`: `DBSpec => []UpdatesCounted`, for the proxy (`~Monitor`;
  the run `statsdb_monitor` shows that it is false of the monitor) and scripts
  that are `WellRecorded`: each record that updates a row of a user or an
  execution comes, in its connection's script, after the one record that inserts
  it. That is the order in which the threads record, but for two executions of
  one statement within a tick of the clock. `MCStatsDB` assumes it of the
  instance, so that TLC evaluates it. The inductive invariant `CountInv` says that
  no record is pushed twice (`NoRepeat`), that a connection's are pushed from the
  first on and without a gap (`PushedFromFirst`, `ScriptOrder`), so that with
  `InOrderOnce` a record is handled after those before it in its script
  (`HandledInOrder`); that only handled records have failed; that a worker that
  was early has no database in the end (`EarlyLoses`); and that a row is missing
  until its insertion is handled and then has the number of its handled updates
  (`RowsRight`). `KeysMatch` says which statements name such a row, which is
  where `~Monitor` is needed.

`KeepAliveProofs` (any number of instances, signals and crashes):

* `TypeCorrect`, `NoFileLeft`: `Spec => []CleanStopLeavesNothing`. The invariant
  says of an instance that has lost no process that it has a child only while
  its parent waits for one, and its file only while that child serves or leaves.
  It needs that an orphan's file has a name no instance has (part of
  `KeepAliveAssumption`).

`RelayProofs` (any number of bytes, any kernel buffer, any number of attempts):

* `TypeCorrect`, `StreamsStayIntact`: `Spec => []StreamIntact`,
  `AlwaysListening`: `Spec => []NeverDeaf`.
* The inductive invariant is `TypeOK /\ StreamIntact /\ NeverDeaf /\ ServerInv /\
  TodoInv`. `ServerInv` relates the backend socket to its buffers and to the
  failure count, `TodoInv` the writes a handler still has to do to the buffers
  it started with: a left-over for both sides at once would need both sides to
  be read while one is blocked, which `NeverDeaf` excludes, and `NeverDeaf`
  needs in turn that a handler's second and third write find nothing new.
  `WriteSplits` (what the kernel takes and the rest make up what there was) and
  `WriteOutIntact` carry `StreamIntact` over a write.

`EndInv` adds to it how connections end: what was read from the server is the
first thing the running handler writes (`BackDataFirst`), so that nothing of it
is kept when the thread is back in its loop, and a live connection keeps its
socket (`KeepsSocket`). From it follow

* `EofIsLast`: `Spec => []EofLosesNothing`, `PoolGetsFlushed`:
  `Spec => []PooledFlushed`.
* `StreamsImplemented`: `Spec => ImplementsStreams`. A byte that is sent is
  `Send`, what `send()` takes is `Deliver`, the end of the connection is `Close`;
  a read, which moves bytes from the kernel to `recvData`, is a stutter, since
  both belong to what the abstract stream has pending. `FrontOfConcat` says that
  taking the front of the left-over is taking the front of all that is pending.

`DispatchProofs` (any finite sets of clients and accept threads, any number of
client threads, any word wide enough to count the clients):

* `TypeCorrect`, `OnePlaceHolds`: `Spec => []OnePlace`, `TaskNumLagsHolds`:
  `Spec => []TaskNumLags`, `RecordsHold`: `Spec => []RecordsAddUp`.
* The inductive invariant is `TypeOK /\ HandsOK /\ PoppedOK /\ BatchOK /\
  ClosingOK /\ TimersOK /\ OnePlace /\ CountersOK /\ RecordsAddUp`. `HandsOK`
  and `PoppedOK` tie what an accept thread and the manager hold to where they
  are; `BatchOK` says that a thread goes through all it has read before it does
  anything else, without which a client in `batch` could be overwritten;
  `ClosingOK` and `TimersOK` say whom a thread closes and for whom a timer may
  be armed: without the latter the first failure of a connection could not be
  told from one that is counted already. `CountersOK` says of each counter, at
  each place of its thread, what it stands for: `_fail_connection` the armed
  timers, `_doing_connection` the connections without them, modulo the word,
  since a timer outlives its connection. `TaskNumLags` is their sum (`ModSum`).
  `OnePlace` counts the places of a client (`Places`), so that each step has to
  show where it takes a client from and where it puts it; who was popped and not
  yet written counts as the first of the queue (`Waiting`, `PopWaiting`). The
  sums of `RecordsAddUp` are the sizes of sets of clients; `CountLemma` bounds
  them by the number of clients, and `ModLemma` carries increments and
  decrements through the unsigned arithmetic. That the scan of
  `get_minTaskThread` finds a thread (`MinTaskType`) is well-foundedness of `<`.
* `LinesImplemented`: `Spec => ImplementsLines`. A thread's line is what it has
  read and not yet gone through, followed by what waits in its socket pair
  (`Line`), so that `ReadClientSocket` is a stutter: that needs `BatchOK`, since
  a read over a batch that is not empty would put clients before others.
  `WriteSocketPair` and `HandOver` append to a line (`LineAppend`),
  `DoingConnection` takes its first (`LineTail`), `PopTask` is a stutter
  (`Waiting`), and a client that an accept thread lets go of is held by no other
  one because of `OnePlace` (`LetGo`). `Lines` adds the order to `OnePlace`:
  nobody overtakes in the task queue or on the way to a thread. It says nothing
  of the form in which a client stands in a line; that what came through the
  task queue is no address is the finding of the run `dispatch_queue`. No
  configuration of this directory lists `ImplementsLines`; it holds of the
  instance of `Dispatch.cfg` as well, and fails there when a batch is read
  backwards.

`BackendPoolProofs` (any connections and databases, any finite set of sockets,
any limit and times, a clock set back once by any amount):

* `TypeCorrect`, `OneOwnerHolds`: `Spec => []OneOwner`, `CountsHold`:
  `Spec => []CountsOpenSockets`, and the action property `SweepIsRight`:
  `Spec => SweepClosesIdle`.
* The inductive invariant places every open socket: with the one connection that
  has it (`ConnsOK`, `NotShared`), or in the deque of its database, once
  (`DequesOK`), and nowhere else (`NoneLost`); `used_sock` is what connections to
  pooled databases use (`UsedOK`). `TimesOK` says that the deques are in the order
  of last use unless the clock was set back; that is why the sweep may stop at the
  first socket that is young enough. The lemmas about deques (`PushBackLemma`,
  `PopBackLemma`, `RankLemma`) say which sockets are in them after an operation.
* `LeasesImplemented`: `Spec => ImplementsLeases`. `connect()` and the
  acquisition from the pool are leases, giving back and closing end them, and the
  sweep closes sockets that nobody has.

`RecordsProofs` (any finite set of connections, counters that can count them):

* `TypeCorrect`, `CurrentIsRight`: `Spec => []CurrentUntilReset`, `PageIsRight`:
  `Spec => []ShowsTheChange`.
* The inductive invariant says that the lock's holder has loaded what is still
  stored, and that the total is the number of counted connections, until the
  first reset (`CurrentOK`); which of the two other threads has the backup's lock
  and that the page has a backup from its look at it to the subtraction
  (`BakOK`); and that what came since the copy is the difference up to whole turns
  of the counter (`ChangeOK`). `ModTurns` then gives the unsigned difference.

`MonitorProofs` (any packets and connections, any number of parsers, any even
number of monitor threads):

* `TypeCorrect`, `NothingIsLost`: `Spec => []NothingLost`, `OrderHolds`:
  `Spec => []OrderWithinThread`, `ClosedHolds`: `Spec => []ClosedForGood`,
  `JoinedAreSafe`: `Spec => []JoinedNeverTouches`.
* The inductive invariant follows the packets: a monitor thread's list has what
  was dealt to it, in order (`DealtOK`); what a parser has handled and what is in
  its list was routed to it, in order per monitor thread (`RoutedOK`); and what a
  monitor thread has routed is older than what is in its list (`AheadOK`), which
  is what keeps `RoutedOK` when a packet moves on. `JoinOK` and `FlagsOK` say that
  parsers are deleted only after the joined threads have ended for good; only
  connections with a plug-in are kept (`MapsOK`).

`VipProofs` (any number of hosts, any capacity of sockets and network):

* `TypeCorrect`, `OneHolder`: `Spec => []OneHolderWhenQuiet`.
* The inductive invariant is `TypeOK /\ OwnAtOnce /\ OneYields`: unless a claim
  was lost, of two running hosts that have the address and have said so, one is
  still to hear a claim of the other after the last of its own, on its way or in
  its socket. A broadcast makes all others such hosts, a host that hears the claim
  of another gives the address up, and its own claims never overtake
  (`LastInTail`, `LastInAppend`). When all is quiet there is nothing to hear.

Assumptions on constants that the proofs rest on, and why they are justified: the
sets of clients, accept threads, connections and sockets are finite, since a
process has finitely many; a counter is wide enough to count the connections
(32 bits against descriptors that are far fewer), while the number of arrivals
that `Records` compares may wrap; the number of monitor threads is even, since
with an odd one the destructor leaves the vector; `NULL` and the like are none of
the values they stand beside.

Every invariant and action property that a passing run checks is proved, and so are the refinements of `Streams`, `Leases` and `TaskQueue`; that of `Lines` is
proved and in no run. Left to TLC for good:
liveness (`HandedIsServed`, `EveryByteArrives`, `IdleLeaves`, `SignalDrains`,
`AskedEnds`, `UndisturbedServes`, `AddressAnswers`, `BakComesBack`), since TLAPS
does not reason about fairness and ENABLED here, and facts that need induction
over data, such as sums over a function of any size.

## 5. Hazards

PROJECT.json lists them at their lines. Those without a property are of three
kinds: the code does not keep what one would ask of it and nothing in the
repository says it should (the lost wake-up of the manager, the limit, the
address a stopped host keeps); a part that is not modelled (section 1); a matter
no model here has, such as the stack a signal handler runs on or a table of
descriptors shared by all threads. Left out of the list are memory that is never
freed, the memory model of double-checked creation, how long a blocking
`connect()` takes, and hash collisions.

## 6. How to run

    tlc -config Relay.cfg Relay
    tlc -config Dispatch.cfg MCDispatch
    tlapm StatsDBProofs.tla

PROJECT.json names the module and the configuration of every run.

## 7. Plan

The parts of the system that have state and concurrency of their own are
modelled, and their safety properties are proved. What is left, in this order:

1. `StatsDB`: the records of one connection that come from two threads, the
   accept thread and its client thread, whose order the scripts fix.
2. `Monitor`: which packets a given end of the threads may leave behind, as an
   exact count and not only as the cases of `NothingLost`.
