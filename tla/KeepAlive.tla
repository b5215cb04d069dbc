------------------------------ MODULE KeepAlive ------------------------------
(***************************************************************************)
(* The process life cycle: main() forks, the parent stays in KeepAlive::   *)
(* keepalive and restarts the child that serves (ManagerBase::start).      *)
(* Several instances started in one directory share its pid files: a new   *)
(* one signals the process named by the first file it finds.               *)
(*                                                                         *)
(* Every instance is a process group of its own, whose parent's pid names  *)
(* its file.  Signals reach the parent; only the parent's handler sends    *)
(* them to the group.  A signal is handled some time after it is sent.     *)
(***************************************************************************)
EXTENDS Naturals, FiniteSets

CONSTANTS Instances,    \* invocations of the program with keepalive and pidfile
          MaxSignals,   \* bound: signals sent from outside
          MaxCrashes    \* bound: children that die, and forks that fail

InitProcess == "init"   \* the parent of an orphan

ASSUME KeepAliveAssumption ==
    MaxSignals \in Nat /\ MaxCrashes \in Nat /\ InitProcess \notin Instances

VARIABLES parent,     \* where each instance's parent is in keepalive()
          child,      \* where its child is in ManagerBase::start
          installed,  \* whether the parent has installed its handlers once
          ignored,    \* the signals whose handler has set them to SIG_IGN
          inbox,      \* signals sent to the parent and not delivered yet
          stop,       \* KeepAlive::stop_keepAlive
          told,       \* whether the child's own handler has set its stop flag
          pidFiles,   \* the pid files there are, by the process they name
          signals, crashes,   \* how much of the bounds is used
          asked,      \* history: the instances somebody wanted to end
          abrupt      \* history: those that lost a process without its clean-up

vars == <<parent, child, installed, ignored, inbox, stop, told, pidFiles,
          signals, crashes, asked, abrupt>>

Restarting == {"INT", "TERM", "HUP"}   \* set back to SIG_DFL before a restart
Signals == Restarting \cup {"USR1"}
Armed == {"armed", "rebooted", "serving", "leaving"}   \* past signal() in start()

\* Type invariant of the processes, their signals and the pid file.
TypeOK ==
    /\ parent \in [Instances -> {"absent", "forking", "waiting", "sleeping", "gone"}]
    /\ child \in [Instances -> {"none", "young"} \cup Armed]
    /\ installed \in [Instances -> BOOLEAN] /\ stop \in [Instances -> BOOLEAN]
    /\ told \in [Instances -> BOOLEAN]
    /\ ignored \in [Instances -> SUBSET Signals] /\ inbox \in [Instances -> SUBSET Signals]
    /\ pidFiles \subseteq Instances \cup {InitProcess}
    /\ signals \in 0..MaxSignals /\ crashes \in 0..MaxCrashes
    /\ asked \subseteq Instances /\ abrupt \subseteq Instances

Init ==
    /\ parent = [i \in Instances |-> "absent"] /\ child = [i \in Instances |-> "none"]
    /\ installed = [i \in Instances |-> FALSE] /\ stop = [i \in Instances |-> FALSE]
    /\ told = [i \in Instances |-> FALSE]
    /\ ignored = [i \in Instances |-> {}] /\ inbox = [i \in Instances |-> {}]
    /\ pidFiles = {} /\ signals = 0 /\ crashes = 0 /\ asked = {} /\ abrupt = {}

------------------------------------------------------------------------------
(* The parent.                                                             *)

\* fork(): the child has everything at its default except what the parent's
\* handlers set for USR1 and USR2, which nobody sends to a child that young.
Fork(i) ==
    /\ parent' = [parent EXCEPT ![i] = "forking"]
    /\ child' = [child EXCEPT ![i] = "young"]
    /\ told' = [told EXCEPT ![i] = FALSE]

Start(i) ==
    /\ parent[i] = "absent"
    /\ Fork(i)
    /\ UNCHANGED <<installed, ignored, inbox, stop, pidFiles, signals, crashes, asked, abrupt>>

\* The five calls of signal() after a fork.
InstallHandlers(i) ==
    /\ parent[i] = "forking"
    /\ parent' = [parent EXCEPT ![i] = "waiting"]
    /\ installed' = [installed EXCEPT ![i] = TRUE]
    /\ ignored' = [ignored EXCEPT ![i] = {}]
    /\ UNCHANGED <<child, inbox, stop, told, pidFiles, signals, crashes, asked, abrupt>>

\* waitpid returns the child, whatever it ended with (nothing exits with 4):
\* three signals go back to their default and the parent sleeps.
Reap(i) ==
    /\ parent[i] = "waiting" /\ child[i] = "none"
    /\ parent' = [parent EXCEPT ![i] = "sleeping"]
    /\ ignored' = [ignored EXCEPT ![i] = @ \ Restarting]
    /\ UNCHANGED <<child, installed, inbox, stop, told, pidFiles, signals, crashes, asked, abrupt>>

\* The head of the loop after the sleep.
Respawn(i) ==
    /\ parent[i] = "sleeping" /\ ~stop[i]
    /\ Fork(i)
    /\ UNCHANGED <<installed, ignored, inbox, stop, pidFiles, signals, crashes, asked, abrupt>>

LoopEnds(i) ==
    /\ parent[i] = "sleeping" /\ stop[i]
    /\ parent' = [parent EXCEPT ![i] = "gone"]
    /\ UNCHANGED <<child, installed, ignored, inbox, stop, told, pidFiles, signals, crashes, asked, abrupt>>

\* fork() fails: keepalive returns -1 and main ends.
ForkFails(i) ==
    /\ parent[i] = "sleeping" /\ ~stop[i] /\ crashes < MaxCrashes
    /\ parent' = [parent EXCEPT ![i] = "gone"]
    /\ crashes' = crashes + 1 /\ abrupt' = abrupt \cup {i}
    /\ UNCHANGED <<child, installed, ignored, inbox, stop, told, pidFiles, signals, asked>>

\* What kill(0, s) does to the child: before its own signal() calls it dies of
\* the default; after them HUP still has no handler, the others set its flag.
Dies(i, s) == child[i] = "young" \/ (child[i] \in Armed /\ s = "HUP")
KillChild(i, s) ==
    /\ child' = [child EXCEPT ![i] = IF Dies(i, s) THEN "none" ELSE @]
    /\ told' = [told EXCEPT ![i] = @ \/ (child[i] \in Armed /\ ~Dies(i, s))]

ByDefault(i, s) == \/ s \in Restarting /\ parent[i] \in {"forking", "sleeping"}
                   \/ s = "USR1" /\ ~installed[i]
\* A child past its signal() calls is killed, or goes on without its parent.
Abandoned(i, s) == child[i] \in Armed /\ (Dies(i, s) \/ ByDefault(i, s))
Forwarded(s) == IF s = "USR1" THEN "INT" ELSE s

\* Mutant: USR1 and INT only set the flag.
HandleFlagOnly(i, s) ==
    /\ ignored' = [ignored EXCEPT ![i] = @ \cup {s, Forwarded(s)}]
    /\ stop' = [stop EXCEPT ![i] = @ \/ Forwarded(s) = "INT"]
    /\ UNCHANGED <<parent, child, told, abrupt>>
\* KeepAlive::handle_signal.  kill(0, INT) comes back to the parent: ignored,
\* handled once more with the same effect, or, where INT is at its default,
\* the parent's end.
HandleSignal(i, s) ==
    /\ ignored' = [ignored EXCEPT ![i] = @ \cup {s, Forwarded(s)}]
    /\ KillChild(i, Forwarded(s))
    /\ abrupt' = IF Abandoned(i, Forwarded(s)) THEN abrupt \cup {i} ELSE abrupt
    /\ IF ByDefault(i, Forwarded(s))
       THEN parent' = [parent EXCEPT ![i] = "gone"] /\ UNCHANGED stop
       ELSE stop' = [stop EXCEPT ![i] = @ \/ Forwarded(s) = "INT"] /\ UNCHANGED parent

\* The parent dies of a signal at its default and leaves its child behind.
DieOf(i, s) ==
    /\ parent' = [parent EXCEPT ![i] = "gone"]
    /\ asked' = asked \cup {i}
    /\ abrupt' = IF child[i] # "none" THEN abrupt \cup {i} ELSE abrupt
    /\ UNCHANGED <<child, ignored, stop, told>>

Deliver(i, s) ==
    /\ s \in inbox[i] /\ parent[i] \in {"forking", "waiting", "sleeping"}
    /\ inbox' = [inbox EXCEPT ![i] = @ \ {s}]
    /\ \/ ByDefault(i, s) /\ DieOf(i, s)
       \/ ~ByDefault(i, s) /\ s \in ignored[i]
          /\ UNCHANGED <<parent, child, ignored, stop, told, asked, abrupt>>
       \/ ~ByDefault(i, s) /\ s \notin ignored[i] /\ HandleSignal(i, s) /\ UNCHANGED asked
    /\ UNCHANGED <<installed, pidFiles, signals, crashes>>

------------------------------------------------------------------------------
(* The child.                                                              *)

\* The signal() calls of ManagerBase::start.
SetHandlers(i) ==
    /\ child[i] = "young"
    /\ child' = [child EXCEPT ![i] = "armed"]
    /\ UNCHANGED <<parent, installed, ignored, inbox, stop, told, pidFiles, signals, crashes, asked, abrupt>>

\* PidManager::handle_reboot: the first file of the directory, in whatever
\* order, and USR1 to the process it names, if there is one.
HandleReboot(i) ==
    /\ child[i] = "armed"
    /\ child' = [child EXCEPT ![i] = "rebooted"]
    /\ \/ pidFiles = {} /\ UNCHANGED <<inbox, asked>>
       \/ \E f \in pidFiles :
             IF f \in Instances /\ parent[f] # "gone"
             THEN /\ inbox' = [inbox EXCEPT ![f] = @ \cup {"USR1"}]
                  /\ asked' = IF f # i THEN asked \cup {f} ELSE asked
             ELSE UNCHANGED <<inbox, asked>>
    /\ UNCHANGED <<parent, installed, ignored, stop, told, pidFiles, signals, crashes, abrupt>>

\* Mutant: the pid of the child itself.
OwnPid(i) == "child"
\* getppid().
ParentOf(i) == IF parent[i] = "gone" THEN InitProcess ELSE i

\* PidManager::save_pid, then start_child.
SavePid(i) ==
    /\ child[i] = "rebooted"
    /\ child' = [child EXCEPT ![i] = "serving"]
    /\ pidFiles' = pidFiles \cup {ParentOf(i)}
    /\ UNCHANGED <<parent, installed, ignored, inbox, stop, told, signals, crashes, asked, abrupt>>

\* start_child returns some time after the flag is set, or never: its signal
\* falls between the test of the flag and the wait, the queue never runs empty,
\* handle_signal waits for a lock its own thread holds, no packet comes.
Leave(i) ==
    /\ child[i] = "serving" /\ told[i]
    /\ child' = [child EXCEPT ![i] = "leaving"]
    /\ UNCHANGED <<parent, installed, ignored, inbox, stop, told, pidFiles, signals, crashes, asked, abrupt>>

\* Mutant: the file stays.
ExitOnly(i) ==
    /\ child[i] = "leaving"
    /\ child' = [child EXCEPT ![i] = "none"]
    /\ UNCHANGED <<parent, installed, ignored, inbox, stop, told, pidFiles, signals, crashes, asked, abrupt>>
\* PidManager::unlink_pid asks for the parent again; then main returns.
UnlinkPid(i) ==
    /\ child[i] = "leaving"
    /\ child' = [child EXCEPT ![i] = "none"]
    /\ pidFiles' = pidFiles \ {ParentOf(i)}
    /\ UNCHANGED <<parent, installed, ignored, inbox, stop, told, signals, crashes, asked, abrupt>>

\* A child dies of an error at any point.
Crash(i) ==
    /\ child[i] # "none" /\ crashes < MaxCrashes
    /\ child' = [child EXCEPT ![i] = "none"]
    /\ crashes' = crashes + 1 /\ abrupt' = abrupt \cup {i}
    /\ UNCHANGED <<parent, installed, ignored, inbox, stop, told, pidFiles, signals, asked>>

\* Somebody signals the parent.
Outside(i, s) ==
    /\ signals < MaxSignals /\ parent[i] \in {"forking", "waiting", "sleeping"}
    /\ signals' = signals + 1
    /\ inbox' = [inbox EXCEPT ![i] = @ \cup {s}]
    /\ asked' = IF s = "INT" THEN asked \cup {i} ELSE asked
    /\ UNCHANGED <<parent, child, installed, ignored, stop, told, pidFiles, crashes, abrupt>>

ParentSteps(i) == InstallHandlers(i) \/ Reap(i) \/ Respawn(i) \/ LoopEnds(i)
ChildSteps(i) == SetHandlers(i) \/ HandleReboot(i) \/ SavePid(i) \/ UnlinkPid(i)

Next == \E i \in Instances :
            \/ Start(i) \/ ParentSteps(i) \/ ForkFails(i) \/ ChildSteps(i) \/ Leave(i) \/ Crash(i)
            \/ \E s \in Signals : Deliver(i, s)
            \/ \E s \in Restarting : Outside(i, s)

\* Processes run and signals arrive; nobody need start, signal or crash anything,
\* and nothing makes start_child return.
Fairness == \A i \in Instances : /\ WF_vars(ParentSteps(i)) /\ WF_vars(ChildSteps(i))
                                 /\ \A s \in Signals : WF_vars(Deliver(i, s))
Spec == Init /\ [][Next]_vars /\ Fairness

------------------------------------------------------------------------------
(* Properties.                                                             *)

\* An instance of which nothing runs any more has left no file, unless one of
\* its processes ended abruptly.
CleanStopLeavesNothing ==
    \A i \in Instances : (parent[i] = "gone" /\ child[i] = "none" /\ i \in pidFiles)
        => i \in abrupt

\* In the long run whoever is asked to end has ended, with its child, or its
\* child has been told and sits in start_child for good: neither a restart in
\* between nor a signal that is already ignored keeps the parent or a child
\* that was not told. A child that lost its parent to a signal the parent had
\* no handler for yet may go on. (KeepAlive::handle_signal, keepalive.)
Stalled(i) == child[i] = "serving" /\ told[i]
AskedEnds ==
    \A i \in Instances :
        <>[](\/ i \notin asked \/ Stalled(i)
             \/ parent[i] = "gone" /\ (child[i] = "none" \/ i \in abrupt))

\* In the long run an instance that nobody asked to end and that lost no
\* process serves, however often it was restarted.
UndisturbedServes ==
    \A i \in Instances :
        <>[](parent[i] = "absent" \/ i \in asked \cup abrupt \/ child[i] = "serving")

\* "--keepalive  keep the process alive": a parent ends only on request.
KeptAlive == \A i \in Instances : parent[i] = "gone" => i \in asked
=============================================================================
