------------------------------ MODULE Dispatch ------------------------------
(***************************************************************************)
(* How an accepted client gets to a thread that serves it: the accept      *)
(* threads (oneproxyserver.cpp), the manager with its task queue           *)
(* (connectmanager.cpp) and the client threads' socket pairs and counters  *)
(* (clientthread.cpp, clientthread.h), with the totals in record.cpp.      *)
(*                                                                         *)
(* Each change of something that other threads read is a step: the three   *)
(* counters of a client thread, which have no lock, the totals, the task   *)
(* queue and the socket pairs.  What only one thread looks at goes with    *)
(* the step before or after it: a client thread's own list of connections. *)
(* A scan of all the counters is one step; what is decided on its result   *)
(* is another.                                                             *)
(***************************************************************************)
EXTENDS Integers, Sequences, FiniteSets, Functions

CONSTANTS
  Clients,        \* client sockets
  Acceptors,      \* accept threads
  NThreads,       \* client threads, in the order of threadMap
  MaxConnectNum,  \* config maxConnectNum
  TryConnServerTimes,  \* config tryConnServerTimes
  NULL,
  Word            \* 2^32 and 2^64: the counters are unsigned

Threads == 1..NThreads

ASSUME DispatchAssumption ==
  /\ IsFiniteSet(Clients) /\ IsFiniteSet(Acceptors)
  /\ NULL \notin Clients \cup Threads
  /\ NThreads \in Nat \ {0}
  /\ MaxConnectNum \in Nat \ {0}
  /\ TryConnServerTimes \in Nat \ {0}
  /\ Word \in Nat /\ Word > MaxConnectNum + Cardinality(Clients)

VARIABLES
  apc,          \* where each accept thread is in accept_clientRequest
  hand,         \* the client it has accepted
  target,       \* the client thread it has chosen
  taskQueue,
  pipe,         \* per client thread, what was written to its socket pair
  tpc,          \* where each client thread is
  batch,        \* what read_clientSocket has read and not yet gone through
  wait, doing, fail,  \* _wait_connection, _doing_connection, _fail_connection
  connectList,
  failed,       \* connections that have failed to reach a server
  timers,       \* per client thread, whose retry timers are armed
  closing,      \* the connection finished_connection is about
  mpc,          \* where the manager is in start_child and alloc_task
  loop,         \* which of alloc_task's two loops it is in
  fill,         \* the thread it has chosen there
  popped,       \* what it has taken out of taskQueue and not yet written
  stop, stoped, \* ConnectManager::stop, AcceptThreadManager::stoped
  signalling,   \* handle_signal has set stop and not yet signalled
  waitSum, handingSum, globalSum,  \* sum_waitClientConn, ..., sum_waitInGlobalQueue
  closed,       \* history: clients whose socket was closed
  wild          \* a client thread has followed a pointer that is none

acceptVars == <<apc, hand, target>>
counters == <<wait, doing, fail>>
connections == <<connectList, failed, timers, closing>>
threadVars == <<pipe, tpc, batch, counters, connections>>
allocVars == <<loop, fill, popped>>
stopVars == <<stop, stoped, signalling>>
managerVars == <<mpc, allocVars, stopVars>>
recordVars == <<waitSum, handingSum, globalSum>>
vars == <<acceptVars, taskQueue, threadVars, managerVars, recordVars, closed, wild>>

Inc(n) == (n + 1) % Word
\* Mutant: signed counters.
DecSigned(n) == n - 1

Dec(n) == (n + Word - 1) % Word

Init ==
  /\ apc = [a \in Acceptors |-> "accept"]
  /\ hand = [a \in Acceptors |-> NULL]
  /\ target = [a \in Acceptors |-> NULL]
  /\ taskQueue = <<>>
  /\ pipe = [t \in Threads |-> <<>>]
  /\ tpc = [t \in Threads |-> "loop"]
  /\ batch = [t \in Threads |-> <<>>]
  /\ wait = [t \in Threads |-> 0]
  /\ doing = [t \in Threads |-> 0]
  /\ fail = [t \in Threads |-> 0]
  /\ connectList = [t \in Threads |-> {}]
  /\ failed = {}
  /\ timers = [t \in Threads |-> {}]
  /\ closing = [t \in Threads |-> NULL]
  /\ mpc = "while" /\ loop = "fill" /\ fill = 1 /\ popped = <<>>
  /\ stop = FALSE /\ stoped = FALSE /\ signalling = FALSE
  /\ waitSum = 0 /\ handingSum = 0 /\ globalSum = 0
  /\ closed = {}
  /\ wild = FALSE

-----------------------------------------------------------------------------
(* The counters, as any thread reads them. *)

TaskNum(t) == (wait[t] + doing[t] + fail[t]) % Word
AllThreadTasks == FoldFunction(+, 0, [t \in Threads |-> TaskNum(t)]) % Word

\* get_minTaskThread: the first thread with the fewest tasks, or NULL.
MinTaskThread ==
  IF AllThreadTasks > MaxConnectNum THEN NULL
  ELSE CHOOSE t \in Threads : \A u \in Threads :
         TaskNum(t) < TaskNum(u) \/ (TaskNum(t) = TaskNum(u) /\ t <= u)

\* The first loop of alloc_task writes and reports under mutexLock.
Locked == loop = "fill" /\ mpc \in {"hand", "out"}

Signalled == IF mpc = "waiting" THEN "woken" ELSE mpc

\* What travels through a socket pair: the address of ns, or its first bytes.
Address(ns) == [ns |-> ns, isAddress |-> TRUE]
Content(ns) == [ns |-> ns, isAddress |-> FALSE]

-----------------------------------------------------------------------------
(* accept_clientRequest *)

\* No thread's step is known after the process has become undefined.
Step(a, from, to) == ~wild /\ apc[a] = from /\ apc' = [apc EXCEPT ![a] = to]

Held == {hand[a] : a \in Acceptors} \ {NULL}
Waiting == popped \o taskQueue
Queued == Range(Waiting)
InPipe == UNION {{i.ns : i \in Range(pipe[t])} : t \in Threads}
InBatch == UNION {{i.ns : i \in Range(batch[t])} : t \in Threads}
Served == UNION {connectList[t] : t \in Threads}
Seen == Held \cup Queued \cup InPipe \cup InBatch \cup Served \cup closed

\* The listening sockets are closed by stop_accept, the loop by set_stop.
Accept(a) ==
  /\ ~stoped
  /\ Step(a, "accept", "size")
  /\ \E c \in Clients \ Seen : hand' = [hand EXCEPT ![a] = c]
  /\ UNCHANGED <<target, taskQueue, threadVars, managerVars, recordVars, closed, wild>>

TestSize(a) ==
  /\ Step(a, "size", IF taskQueue # <<>> THEN "queue" ELSE "choose")
  /\ UNCHANGED <<hand, target, taskQueue, threadVars, managerVars, recordVars, closed, wild>>

ChooseThread(a) ==
  /\ Step(a, "choose", IF MinTaskThread = NULL THEN "queue" ELSE "write")
  /\ target' = [target EXCEPT ![a] = MinTaskThread]
  /\ UNCHANGED <<hand, taskQueue, threadVars, managerVars, recordVars, closed, wild>>

WriteSocketPair(a) ==
  /\ Step(a, "write", "record")
  /\ pipe' = [pipe EXCEPT ![target[a]] = Append(@, Address(hand[a]))]
  /\ hand' = [hand EXCEPT ![a] = NULL]
  /\ target' = [target EXCEPT ![a] = NULL]
  /\ UNCHANGED <<taskQueue, tpc, batch, counters, connections, managerVars,
                 recordVars, closed, wild>>

\* add_task: push and signal in one critical section.
AddTask(a) ==
  /\ ~Locked
  /\ Step(a, "queue", "global")
  /\ taskQueue' = Append(taskQueue, hand[a])
  /\ hand' = [hand EXCEPT ![a] = NULL]
  /\ mpc' = Signalled
  /\ UNCHANGED <<target, threadVars, allocVars, stopVars, recordVars, closed, wild>>

RecordGlobalQueue(a) ==
  /\ Step(a, "global", "record")
  /\ globalSum' = Inc(globalSum)
  /\ UNCHANGED <<hand, target, taskQueue, threadVars, managerVars, waitSum, handingSum,
                 closed, wild>>

RecordAccept(a) ==
  /\ Step(a, "record", "accept")
  /\ waitSum' = Inc(waitSum)
  /\ UNCHANGED <<hand, target, taskQueue, threadVars, managerVars, handingSum, globalSum,
                 closed, wild>>

-----------------------------------------------------------------------------
(* read_clientSocket and add_task *)

GoTo(t, from, to) == ~wild /\ tpc[t] = from /\ tpc' = [tpc EXCEPT ![t] = to]

\* Mutant: one address is taken from what was read, the rest is dropped.
ReadOneClient(t) ==
  /\ pipe[t] # <<>>
  /\ GoTo(t, "loop", "start")
  /\ batch' = [batch EXCEPT ![t] = <<Head(pipe[t])>>]
  /\ pipe' = [pipe EXCEPT ![t] = <<>>]
  /\ UNCHANGED <<acceptVars, taskQueue, counters, connections, managerVars,
                 recordVars, closed, wild>>

ReadClientSocket(t) ==
  /\ pipe[t] # <<>>
  /\ GoTo(t, "loop", "start")
  /\ batch' = [batch EXCEPT ![t] = pipe[t]]
  /\ pipe' = [pipe EXCEPT ![t] = <<>>]
  /\ UNCHANGED <<acceptVars, taskQueue, counters, connections, managerVars,
                 recordVars, closed, wild>>

\* record_startHandingConn, before ns is looked at.
StartTask(t) ==
  /\ GoTo(t, "start", "attach")
  /\ waitSum' = Dec(waitSum)
  /\ handingSum' = Inc(handingSum)
  /\ UNCHANGED <<acceptVars, taskQueue, pipe, batch, counters, connections, managerVars,
                 globalSum, closed, wild>>

\* Following bytes that are no address is undefined: nothing is known after it.
FollowContent(t) ==
  /\ ~wild /\ tpc[t] = "attach" /\ ~Head(batch[t]).isAddress
  /\ wild' = TRUE
  /\ UNCHANGED <<acceptVars, taskQueue, threadVars, managerVars, recordVars, closed>>

\* The first half of doing_connection; registering the socket with libev
\* cannot fail.
TakeUp(t) ==
  /\ tpc[t] = "attach" /\ Head(batch[t]).isAddress
  /\ GoTo(t, "attach", "doing")
  /\ wait' = [wait EXCEPT ![t] = Dec(@)]
  /\ UNCHANGED <<acceptVars, taskQueue, pipe, batch, doing, fail, connections, managerVars,
                 recordVars, closed, wild>>

\* The second half, and connectList.push_back.
DoingConnection(t) ==
  /\ GoTo(t, "doing", "recv")
  /\ doing' = [doing EXCEPT ![t] = Inc(@)]
  /\ connectList' = [connectList EXCEPT ![t] = @ \cup {Head(batch[t]).ns}]
  /\ batch' = [batch EXCEPT ![t] = Tail(@)]
  /\ UNCHANGED <<acceptVars, taskQueue, pipe, wait, fail, failed, timers, closing,
                 managerVars, recordVars, closed, wild>>

\* Mutant: recv_connection is not called.
RecvUncounted(t) ==
  /\ GoTo(t, "recv", IF batch[t] = <<>> THEN "loop" ELSE "start")
  /\ UNCHANGED <<acceptVars, taskQueue, pipe, batch, counters, connections, managerVars,
                 recordVars, closed, wild>>

RecvConnection(t) ==
  /\ GoTo(t, "recv", IF batch[t] = <<>> THEN "loop" ELSE "start")
  /\ wait' = [wait EXCEPT ![t] = Inc(@)]
  /\ UNCHANGED <<acceptVars, taskQueue, pipe, batch, doing, fail, connections, managerVars,
                 recordVars, closed, wild>>

-----------------------------------------------------------------------------
(* finished_connection *)

\* Mutant: record_closeClientConn is not called.
FinishedUnrecorded(t) ==
  /\ GoTo(t, "loop", "done")
  /\ \E c \in connectList[t] : closing' = [closing EXCEPT ![t] = c]
  /\ UNCHANGED <<acceptVars, taskQueue, pipe, batch, counters, connectList, failed, timers,
                 managerVars, recordVars, closed, wild>>

\* record_closeClientConn.
FinishedConnection(t) ==
  /\ GoTo(t, "loop", "done")
  /\ \E c \in connectList[t] : closing' = [closing EXCEPT ![t] = c]
  /\ handingSum' = Dec(handingSum)
  /\ UNCHANGED <<acceptVars, taskQueue, pipe, batch, counters, connectList, failed, timers,
                 managerVars, waitSum, globalSum, closed, wild>>

DoneConnection(t) ==
  /\ GoTo(t, "done", "remove")
  /\ doing' = [doing EXCEPT ![t] = Dec(@)]
  /\ UNCHANGED <<acceptVars, taskQueue, pipe, batch, wait, fail, connections, managerVars,
                 recordVars, closed, wild>>

\* close_fds, connectList.remove and the end of the Connection; a timer armed
\* for it stays armed.
RemoveConnection(t) ==
  /\ GoTo(t, "remove", "signal")
  /\ connectList' = [connectList EXCEPT ![t] = @ \ {closing[t]}]
  /\ failed' = failed \ {closing[t]}
  /\ closing' = [closing EXCEPT ![t] = NULL]
  /\ closed' = closed \cup {closing[t]}
  /\ UNCHANGED <<acceptVars, taskQueue, pipe, batch, counters, timers, managerVars,
                 recordVars, wild>>

SignalFinished(t) ==
  /\ ~Locked
  /\ GoTo(t, "signal", "loop")
  /\ mpc' = Signalled
  /\ UNCHANGED <<acceptVars, taskQueue, pipe, batch, counters, connections, allocVars,
                 stopVars, recordVars, closed, wild>>

-----------------------------------------------------------------------------
(***************************************************************************)
(* get_serverFailed and retry_failedConnection.  A connection that has     *)
(* failed keeps the socket that never got connected, and does not ask for  *)
(* a server again: when its timer fires, it goes on or ends like any       *)
(* other, and so does one that fails on its last try.                      *)
(***************************************************************************)

\* add_timerEvent and the first half of doing_failConnection.
ServerFailed(t) ==
  /\ TryConnServerTimes > 1
  /\ GoTo(t, "loop", "fail")
  /\ \E c \in connectList[t] \ failed :
       /\ failed' = failed \cup {c}
       /\ timers' = [timers EXCEPT ![t] = @ \cup {c}]
  /\ doing' = [doing EXCEPT ![t] = Dec(@)]
  /\ UNCHANGED <<acceptVars, taskQueue, pipe, batch, wait, fail, connectList, closing,
                 managerVars, recordVars, closed, wild>>

DoingFailConnection(t) ==
  /\ GoTo(t, "fail", "loop")
  /\ fail' = [fail EXCEPT ![t] = Inc(@)]
  /\ UNCHANGED <<acceptVars, taskQueue, pipe, batch, wait, doing, connections, managerVars,
                 recordVars, closed, wild>>

\* The timer fires: the first half of retry_failConnection.
RetryFailed(t) ==
  /\ \E c \in timers[t] :
       /\ GoTo(t, "loop", IF c \in connectList[t] THEN "retry" ELSE "freed")
       /\ timers' = [timers EXCEPT ![t] = @ \ {c}]
  /\ fail' = [fail EXCEPT ![t] = Dec(@)]
  /\ UNCHANGED <<acceptVars, taskQueue, pipe, batch, wait, doing, connectList, failed,
                 closing, managerVars, recordVars, closed, wild>>

RetryFailConnection(t) ==
  /\ GoTo(t, "retry", "loop")
  /\ doing' = [doing EXCEPT ![t] = Inc(@)]
  /\ UNCHANGED <<acceptVars, taskQueue, pipe, batch, wait, fail, connections, managerVars,
                 recordVars, closed, wild>>

\* The same for a Connection that was deleted, and then its handler.
FollowFreed(t) ==
  /\ GoTo(t, "freed", "loop")
  /\ doing' = [doing EXCEPT ![t] = Inc(@)]
  /\ wild' = TRUE
  /\ UNCHANGED <<acceptVars, taskQueue, pipe, batch, wait, fail, connections, managerVars,
                 recordVars, closed>>

-----------------------------------------------------------------------------
(* start_child *)

Manager(from, to) == ~wild /\ mpc = from /\ mpc' = to

ManagerOnly == UNCHANGED <<acceptVars, taskQueue, threadVars, recordVars, closed, wild>>

TestStop ==
  /\ Manager("while", IF ~stop \/ taskQueue # <<>> THEN "test" ELSE "join")
  /\ UNCHANGED <<allocVars, stopVars>> /\ ManagerOnly

TestWork ==
  /\ Manager("test", IF taskQueue # <<>> /\ AllThreadTasks < MaxConnectNum
                     THEN "alloc" ELSE "park")
  /\ loop' = "fill" /\ fill' = 1
  /\ UNCHANGED <<popped, stopVars>> /\ ManagerOnly

\* The queue and the counters are not tested again under the lock.
Park ==
  /\ Manager("park", "waiting")
  /\ UNCHANGED <<allocVars, stopVars>> /\ ManagerOnly

SpuriousWake ==
  /\ Manager("waiting", "woken")
  /\ UNCHANGED <<allocVars, stopVars>> /\ ManagerOnly

\* After the wait, and after alloc_task.
StopAccept ==
  /\ Manager("woken", "while")
  /\ stoped' = (stoped \/ stop)
  /\ UNCHANGED <<allocVars, stop, signalling>> /\ ManagerOnly

-----------------------------------------------------------------------------
(* alloc_task *)

NumPerThread == MaxConnectNum \div NThreads

\* Each thread up to its share ...
FillThread ==
  /\ loop = "fill" /\ TaskNum(fill) < NumPerThread /\ taskQueue # <<>>
  /\ Manager("alloc", "pop")
  /\ UNCHANGED <<allocVars, stopVars>> /\ ManagerOnly

NextThread ==
  /\ loop = "fill" /\ TaskNum(fill) >= NumPerThread
  /\ Manager("alloc", "alloc")
  /\ IF fill < NThreads THEN fill' = fill + 1 /\ UNCHANGED loop
                        ELSE loop' = "spill" /\ UNCHANGED fill
  /\ UNCHANGED <<popped, stopVars>> /\ ManagerOnly

\* ... then the rest to the thread with the fewest tasks.
Spill ==
  /\ loop = "spill" /\ taskQueue # <<>> /\ MinTaskThread # NULL
  /\ Manager("alloc", "pop")
  /\ fill' = MinTaskThread
  /\ UNCHANGED <<loop, popped, stopVars>> /\ ManagerOnly

AllocTaskReturns ==
  /\ \/ loop = "fill" /\ TaskNum(fill) < NumPerThread /\ taskQueue = <<>>
     \/ loop = "spill" /\ (taskQueue = <<>> \/ MinTaskThread = NULL)
  /\ Manager("alloc", "woken")
  /\ UNCHANGED <<allocVars, stopVars>> /\ ManagerOnly

\* Mutant: front() without pop().
PeekTask ==
  /\ Manager("pop", "hand")
  /\ popped' = <<Head(taskQueue)>>
  /\ UNCHANGED <<acceptVars, taskQueue, threadVars, loop, fill, stopVars, recordVars,
                 closed, wild>>

\* front and pop, under mutexLock; nobody else takes anything out.
PopTask ==
  /\ Manager("pop", "hand")
  /\ popped' = <<Head(taskQueue)>>
  /\ taskQueue' = Tail(taskQueue)
  /\ UNCHANGED <<acceptVars, threadVars, loop, fill, stopVars, recordVars, closed, wild>>

\* write_socketPair(ns, sizeof(ns)): the object's first bytes, not its address.
HandOver ==
  /\ Manager("hand", "out")
  /\ pipe' = [pipe EXCEPT ![fill] = Append(@, Content(Head(popped)))]
  /\ popped' = <<>>
  /\ UNCHANGED <<acceptVars, taskQueue, tpc, batch, counters, connections, loop, fill,
                 stopVars, recordVars, closed, wild>>

RecordOutGlobalQueue ==
  /\ Manager("out", "alloc")
  /\ globalSum' = Dec(globalSum)
  /\ UNCHANGED <<acceptVars, taskQueue, threadVars, allocVars, stopVars, waitSum,
                 handingSum, closed, wild>>

-----------------------------------------------------------------------------
\* stop_thread: each accept thread finishes its handler and is joined.
JoinAcceptors ==
  /\ Manager("join", "done")
  /\ \A a \in Acceptors : apc[a] = "accept"
  /\ apc' = [a \in Acceptors |-> "joined"]
  /\ UNCHANGED <<hand, target, taskQueue, threadVars, allocVars, stopVars,
                 recordVars, closed, wild>>

\* handle_signal, on any thread.
HandleSignal ==
  /\ ~wild /\ ~stop
  /\ stop' = TRUE /\ signalling' = TRUE
  /\ UNCHANGED <<mpc, allocVars, stoped>> /\ ManagerOnly

SignalStop ==
  /\ ~wild /\ signalling /\ ~Locked
  /\ signalling' = FALSE
  /\ mpc' = Signalled
  /\ UNCHANGED <<allocVars, stop, stoped>> /\ ManagerOnly

-----------------------------------------------------------------------------
AcceptorStep(a) ==
  \/ TestSize(a) \/ ChooseThread(a) \/ WriteSocketPair(a)
  \/ AddTask(a) \/ RecordGlobalQueue(a) \/ RecordAccept(a)

ThreadStep(t) ==
  \/ ReadClientSocket(t) \/ StartTask(t) \/ FollowContent(t) \/ TakeUp(t)
  \/ DoingConnection(t) \/ RecvConnection(t)
  \/ DoneConnection(t) \/ RemoveConnection(t) \/ SignalFinished(t)
  \/ DoingFailConnection(t) \/ RetryFailConnection(t) \/ FollowFreed(t)

\* What a client or a server does to a connection, or the clock.
ConnectionEvent(t) == FinishedConnection(t) \/ ServerFailed(t) \/ RetryFailed(t)

ManagerStep ==
  \/ TestStop \/ TestWork \/ Park \/ StopAccept \/ JoinAcceptors
  \/ FillThread \/ NextThread \/ Spill \/ AllocTaskReturns
  \/ PopTask \/ HandOver \/ RecordOutGlobalQueue

Next ==
  \/ \E a \in Acceptors : Accept(a) \/ AcceptorStep(a)
  \/ \E t \in Threads : ThreadStep(t) \/ ConnectionEvent(t)
  \/ ManagerStep \/ SpuriousWake \/ HandleSignal \/ SignalStop

Spec == Init /\ [][Next]_vars

(***************************************************************************)
(* Every thread goes on with what it has begun.  Nothing promises that     *)
(* clients come, that connections finish or fail, that a timer fires or    *)
(* that a signal arrives.                                                  *)
(***************************************************************************)
Fairness ==
  /\ \A a \in Acceptors : WF_vars(AcceptorStep(a))
  /\ \A t \in Threads : WF_vars(ThreadStep(t))
  /\ WF_vars(ManagerStep)
  /\ WF_vars(SignalStop)

FairSpec == Spec /\ Fairness
-----------------------------------------------------------------------------
(* Type invariant of the accept threads, the queue, the client threads and  *)
(* the manager.                                                             *)
TypeOK ==
  /\ apc \in [Acceptors -> {"accept", "size", "choose", "write", "queue", "global",
                            "record", "joined"}]
  /\ hand \in [Acceptors -> Clients \cup {NULL}]
  /\ target \in [Acceptors -> Threads \cup {NULL}]
  /\ taskQueue \in Seq(Clients)
  /\ pipe \in [Threads -> Seq([ns : Clients, isAddress : BOOLEAN])]
  /\ tpc \in [Threads -> {"loop", "start", "attach", "doing", "recv", "done", "remove",
                            "signal", "fail", "retry", "freed"}]
  /\ batch \in [Threads -> Seq([ns : Clients, isAddress : BOOLEAN])]
  /\ wait \in [Threads -> 0..(Word - 1)]
  /\ doing \in [Threads -> 0..(Word - 1)]
  /\ fail \in [Threads -> 0..(Word - 1)]
  /\ connectList \in [Threads -> SUBSET Clients]
  /\ failed \in SUBSET Clients
  /\ timers \in [Threads -> SUBSET Clients]
  /\ closing \in [Threads -> Clients \cup {NULL}]
  /\ mpc \in {"while", "test", "park", "waiting", "woken", "alloc", "pop", "hand", "out",
              "join", "done"}
  /\ loop \in {"fill", "spill"}
  /\ fill \in Threads
  /\ popped \in Seq(Clients)
  /\ stop \in BOOLEAN /\ stoped \in BOOLEAN /\ signalling \in BOOLEAN
  /\ {waitSum, handingSum, globalSum} \subseteq 0..(Word - 1)
  /\ closed \in SUBSET Clients
  /\ wild \in BOOLEAN

Count(S) == Cardinality(S)

\* Where a client is, each position of a list for itself.
InList(name, list, c) ==
  UNION {{<<name, t, i>> : i \in {j \in DOMAIN list[t] : list[t][j].ns = c}} : t \in Threads}
Places(c) ==
  {<<"hand", a, 0>> : a \in {b \in Acceptors : hand[b] = c}}
  \cup {<<"queue", 0, i>> : i \in {j \in DOMAIN Waiting : Waiting[j] = c}}
  \cup InList("pipe", pipe, c) \cup InList("batch", batch, c)
  \cup {<<"served", t, 0>> : t \in {u \in Threads : c \in connectList[u]}}
  \cup {<<"closed", d, 0>> : d \in closed \cap {c}}

(* A client is in one place only: with one accept thread, once in the task  *)
(* queue or out of it with the manager, in one socket pair, with one client *)
(* thread, or closed.                                                       *)
(* (accept_clientRequest, alloc_task, read_clientSocket.)                   *)
OnePlace == \A c \in Clients : \A x, y \in Places(c) : x = y

(* The three counters of a client thread add up to the number of            *)
(* connections it serves, or to one less, so to 2^32 - 1 when it serves     *)
(* none: while it takes one over (doing_connection runs before              *)
(* recv_connection), while it finishes one (done_connection before          *)
(* connectList.remove), and between the two halves of doing_failConnection  *)
(* and of retry_failConnection.  A retry whose connection has ended in the  *)
(* meantime leaves nothing behind in the sum.                               *)
TaskNumLags ==
  \A t \in Threads :
    LET lag == IF tpc[t] \in {"doing", "recv", "remove", "fail", "retry", "freed"}
               THEN 1 ELSE 0
    IN TaskNum(t) = (Word + Count(connectList[t]) - lag) % Word

(* The totals of record.cpp, at any moment and whatever the order in which  *)
(* the threads report to it.  sum_waitClientConn is short of those an       *)
(* accept thread has handed over and not yet reported, and of those whose   *)
(* handling was reported before they were taken up; sum_handingClientConn   *)
(* is ahead by the latter, and short of those whose end was reported and    *)
(* who are still in a list; sum_waitInGlobalQueue is short of those an      *)
(* accept thread has queued and not yet reported, and ahead by the one the  *)
(* manager has taken out, until it has written it and reported that.        *)
RecordsAddUp ==
  LET Unreported == Count({a \in Acceptors : apc[a] \in {"global", "record"}})
      Unqueued == Count({a \in Acceptors : apc[a] = "global"})
      TakenOver == Count({t \in Threads : tpc[t] \in {"attach", "doing"}})
      Finishing == Count({t \in Threads : tpc[t] \in {"done", "remove"}})
      Leaving == IF mpc \in {"hand", "out"} THEN 1 ELSE 0
  IN /\ waitSum = (Word + Count(Queued \cup InPipe \cup InBatch) - TakenOver - Unreported)
                  % Word
     /\ globalSum = (Word + Len(taskQueue) + Leaving - Unqueued) % Word
     /\ handingSum = (Count(Served) + TakenOver - Finishing) % Word

\* A thread's line: what it has read, then what waits in its socket pair.
Names(s) == [i \in 1..Len(s) |-> s[i].ns]
Line(t) == Names(batch[t] \o pipe[t])

Promise == INSTANCE Lines WITH
  held   <- Held,
  queue  <- Waiting,
  line   <- [t \in Threads |-> Line(t)],
  served <- connectList,
  ended  <- closed

(* No client overtakes another one in the task queue or in a socket pair,   *)
(* none is dropped, handed out twice or taken over by a second thread, and  *)
(* a closed one never comes back, in whatever order the accept threads, the *)
(* manager and the client threads run.  (add_task, alloc_task,              *)
(* write_socketPair, read_clientSocket, finished_connection.)               *)
ImplementsLines == Promise!Spec

(* A client that was written to a socket pair by its address is served or   *)
(* closed, unless a thread follows bytes that are no address, or the        *)
(* address of a Connection that was deleted.                                *)
IsServed(c) ==
  (\E t \in Threads : Address(c) \in Range(pipe[t])) ~> (c \in Served \cup closed \/ wild)

(* A socket that is taken out of the task queue reaches a client thread     *)
(* that can handle it: the queue holds sockets "need to handle".            *)
(* (connectmanager.h:77; alloc_task)                                        *)
QueuedReachesThread == \A t \in Threads : tpc[t] = "attach" => Head(batch[t]).isAddress

=============================================================================
