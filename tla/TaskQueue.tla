------------------------------ MODULE TaskQueue ------------------------------
(***************************************************************************)
(* ThreadTask<T> (util/threadtask.h): one worker thread serves a list of   *)
(* tasks that any thread may append to.  DBManager is its instance: every  *)
(* statistics record that goes to the database passes through this queue.  *)
(*                                                                         *)
(* The worker tests m_isStop and m_dataList.empty() WITHOUT the lock and   *)
(* takes the lock only to pop or to wait, so every unlocked test is a step *)
(* of its own.  A critical section that nobody can observe half-way is one *)
(* step; add_taskData is two, because the unlocked test of the worker sees *)
(* the new element before the producer signals.                            *)
(***************************************************************************)
EXTENDS Naturals, Sequences, Functions

CONSTANTS
  Producers,  \* threads that call add_taskData (client threads, assist thread)
  NoThread,   \* value of lock when the mutex is free
  Tasks       \* the tasks that will ever be added, each by one call

ASSUME TaskQueueAssumption == NoThread \notin Producers

VARIABLES
  m_dataList,  \* the list of queued tasks
  m_isStop,    \* set once by set_stop, read without the lock
  lock,        \* the producer between push_back and signal_mutexCond, or NoThread
  wpc,         \* where the worker is in start() and handle_taskData()
  task,        \* the task popped by handle_taskData, until m_func returned
  stopping,    \* set_stop has set the flag and has not signalled yet
  added,       \* history: every task ever pushed, in order
  handled,     \* history: every task m_func was called with, in order
  addedAtStop  \* history: how many tasks had been pushed when m_isStop was set

vars == <<m_dataList, m_isStop, lock, wpc, task, stopping,
          added, handled, addedAtStop>>

(***************************************************************************)
(* ThreadTask::ThreadTask: empty list, flag clear, worker at its loop.     *)
(***************************************************************************)
Init ==
  /\ m_dataList = <<>>
  /\ m_isStop = FALSE
  /\ lock = NoThread
  /\ wpc = "while"
  /\ task = <<>>
  /\ stopping = FALSE
  /\ added = <<>>
  /\ handled = <<>>
  /\ addedAtStop = 0

(***************************************************************************)
(* pthread_cond_signal: wakes the worker if it waits, is lost otherwise.   *)
(***************************************************************************)
Signalled == IF wpc = "waiting" THEN "woken" ELSE wpc

-----------------------------------------------------------------------------
(* add_taskData *)

AddPush(p) ==
  /\ lock = NoThread
  /\ \E t \in Tasks \ Range(added) :
       /\ m_dataList' = Append(m_dataList, t)
       /\ added' = Append(added, t)
  /\ lock' = p
  /\ UNCHANGED <<m_isStop, wpc, task, stopping, handled, addedAtStop>>

\* Mutant: the producer leaves without signalling.
AddSilently(p) ==
  /\ lock = p
  /\ lock' = NoThread
  /\ UNCHANGED <<m_dataList, m_isStop, wpc, task, stopping, added, handled, addedAtStop>>

AddSignal(p) ==
  /\ lock = p
  /\ lock' = NoThread
  /\ wpc' = Signalled
  /\ UNCHANGED <<m_dataList, m_isStop, task, stopping, added, handled, addedAtStop>>

-----------------------------------------------------------------------------
(* set_stop: the flag is set before the lock is taken. *)

SetStop ==
  /\ ~m_isStop
  /\ m_isStop' = TRUE
  /\ stopping' = TRUE
  /\ addedAtStop' = Len(added)
  /\ UNCHANGED <<m_dataList, lock, wpc, task, added, handled>>

StopSignal ==
  /\ stopping
  /\ lock = NoThread
  /\ stopping' = FALSE
  /\ wpc' = Signalled
  /\ UNCHANGED <<m_dataList, m_isStop, lock, task, added, handled, addedAtStop>>

-----------------------------------------------------------------------------
(* start() *)

GoTo(from, to) == wpc = from /\ wpc' = to

\* Mutant: while (m_isStop == false).
TestStopOnly ==
  /\ GoTo("while", IF m_isStop THEN "done" ELSE "body")
  /\ UNCHANGED <<m_dataList, m_isStop, lock, task, stopping, added, handled, addedAtStop>>

\* while (m_isStop == false || ...
TestStop ==
  /\ GoTo("while", IF m_isStop THEN "drain" ELSE "body")
  /\ UNCHANGED <<m_dataList, m_isStop, lock, task, stopping, added, handled, addedAtStop>>

\* ... || !m_dataList.empty())
TestDrained ==
  /\ GoTo("drain", IF m_dataList = <<>> THEN "done" ELSE "body")
  /\ UNCHANGED <<m_dataList, m_isStop, lock, task, stopping, added, handled, addedAtStop>>

\* if (!m_dataList.empty()) handle_taskData() else wait
TestEmpty ==
  /\ GoTo("body", IF m_dataList = <<>> THEN "park" ELSE "handle")
  /\ UNCHANGED <<m_dataList, m_isStop, lock, task, stopping, added, handled, addedAtStop>>

\* lock(); wait_mutexCond(): the list is not tested again under the lock.
Park ==
  /\ lock = NoThread
  /\ GoTo("park", "waiting")
  /\ UNCHANGED <<m_dataList, m_isStop, lock, task, stopping, added, handled, addedAtStop>>

\* pthread_cond_wait may return without a signal.
SpuriousWake ==
  /\ GoTo("waiting", "woken")
  /\ UNCHANGED <<m_dataList, m_isStop, lock, task, stopping, added, handled, addedAtStop>>

\* pthread_cond_wait takes the lock again, unlock().
Wake ==
  /\ lock = NoThread
  /\ GoTo("woken", "while")
  /\ UNCHANGED <<m_dataList, m_isStop, lock, task, stopping, added, handled, addedAtStop>>

\* Mutant: front() without pop_front().
Peek ==
  /\ lock = NoThread
  /\ IF m_dataList # <<>>
     THEN GoTo("handle", "run") /\ task' = <<Head(m_dataList)>>
     ELSE GoTo("handle", "while") /\ UNCHANGED task
  /\ UNCHANGED <<m_dataList, m_isStop, lock, stopping, added, handled, addedAtStop>>

\* handle_taskData: the locked part.
Pop ==
  /\ lock = NoThread
  /\ IF m_dataList # <<>>
     THEN /\ GoTo("handle", "run")
          /\ task' = <<Head(m_dataList)>>
          /\ m_dataList' = Tail(m_dataList)
     ELSE /\ GoTo("handle", "while")
          /\ UNCHANGED <<task, m_dataList>>
  /\ UNCHANGED <<m_isStop, lock, stopping, added, handled, addedAtStop>>

\* Mutant: m_func gets the list node, not the task in it.
RunOnNode ==
  /\ GoTo("run", "while")
  /\ handled' = Append(handled, task)
  /\ task' = <<>>
  /\ UNCHANGED <<m_dataList, m_isStop, lock, stopping, added, addedAtStop>>

\* m_func((void*)&task, m_funcArgs)
Run ==
  /\ GoTo("run", "while")
  /\ handled' = handled \o task
  /\ task' = <<>>
  /\ UNCHANGED <<m_dataList, m_isStop, lock, stopping, added, addedAtStop>>

WorkerStep ==
  TestStop \/ TestDrained \/ TestEmpty \/ Park \/ Wake \/ Pop \/ Run

Next ==
  \/ \E p \in Producers : AddPush(p) \/ AddSignal(p)
  \/ SetStop
  \/ StopSignal
  \/ WorkerStep
  \/ SpuriousWake

Spec == Init /\ [][Next]_vars

(***************************************************************************)
(* The threads are scheduled, a thread that holds the lock goes on, and    *)
(* the main thread completes set_stop once it has begun.  Nothing promises *)
(* another add_taskData, a call of set_stop, or a spurious wakeup.         *)
(***************************************************************************)
Fairness ==
  /\ WF_vars(WorkerStep)
  /\ \A p \in Producers : WF_vars(AddSignal(p))
  /\ WF_vars(StopSignal)

FairSpec == Spec /\ Fairness
-----------------------------------------------------------------------------
(* Type invariant of the worker, its lock and its list. *)
TypeOK ==
  /\ m_dataList \in Seq(Tasks)
  /\ m_isStop \in BOOLEAN
  /\ lock \in Producers \cup {NoThread}
  /\ wpc \in {"while", "drain", "body", "park", "waiting", "woken", "handle", "run", "done"}
  /\ task \in Seq(Tasks)
  /\ stopping \in BOOLEAN
  /\ added \in Seq(Tasks)
  /\ handled \in Seq(Tasks)
  /\ addedAtStop \in Nat

(* Every task that was pushed is in exactly one place, in the order it was  *)
(* pushed: already handled, in the hands of the worker, or still queued.    *)
(* (add_taskData, handle_taskData: nothing lost, doubled or reordered.)     *)
InOrderOnce == added = handled \o task \o m_dataList

(* A worker that has left its loop has handled every task that was pushed   *)
(* before m_isStop was set, although the loop condition is read in two      *)
(* unlocked steps.  (start(): m_isStop == false || !m_dataList.empty().)    *)
DrainedBeforeExit == wpc = "done" => m_isStop /\ Len(handled) >= addedAtStop

(* A worker that waits when a producer or set_stop is about to signal goes  *)
(* back to its loop and empties the list: the push behind that signal, and  *)
(* any push whose own signal had been lost before it, is not left behind.   *)
SignalDrains ==
  (wpc = "waiting" /\ (lock # NoThread \/ stopping)) ~> (m_dataList = <<>>)
=============================================================================
