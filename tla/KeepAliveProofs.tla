--------------------------- MODULE KeepAliveProofs ---------------------------
(* Invariance proofs about parents, children and their pid files, for any   *)
(* number of instances, signals and crashes.                                *)
EXTENDS KeepAlive, TLAPS

(* Unless an instance has lost a process, it has a child only while its     *)
(* parent waits for one, and its file only while that child serves.         *)
ChildHasParent(i) ==
  i \notin abrupt /\ child[i] # "none" => parent[i] \in {"forking", "waiting"}
FileHasChild(i) ==
  i \notin abrupt /\ i \in pidFiles => child[i] \in {"serving", "leaving"}

IInv == TypeOK /\ \A i \in Instances : ChildHasParent(i) /\ FileHasChild(i)

(* No process and no file exists at first.                                  *)
LEMMA InitIInv == Init => IInv
BY KeepAliveAssumption DEF Init, IInv, TypeOK, ChildHasParent, FileHasChild, Signals

(* The parent's own steps: it restarts only when its child is gone.         *)
LEMMA ParentKeeps ==
  ASSUME IInv, NEW i \in Instances, Start(i) \/ ParentSteps(i) \/ ForkFails(i)
  PROVE  IInv'
<1>1. TypeOK'
  <2>1. CASE Start(i) \/ Respawn(i)
    <3>1. /\ Fork(i)
          /\ UNCHANGED <<installed, ignored, inbox, stop, pidFiles, signals, crashes, asked, abrupt>>
      BY <2>1, Zenon DEF Start, Respawn
    <3>2. /\ parent' \in [Instances -> {"absent", "forking", "waiting", "sleeping", "gone"}]
          /\ child' \in [Instances -> {"none", "young"} \cup Armed]
          /\ told' \in [Instances -> BOOLEAN]
      BY <3>1 DEF IInv, TypeOK, Fork
    <3> QED
      BY <3>1, <3>2, SMTT(30) DEF IInv, TypeOK
  <2>2. CASE InstallHandlers(i) \/ Reap(i)
    <3>1. CASE InstallHandlers(i)
      BY <3>1 DEF IInv, TypeOK, InstallHandlers
    <3>2. CASE Reap(i)
      <4>1. ignored' \in [Instances -> SUBSET Signals]
        BY <3>2 DEF IInv, TypeOK, Reap
      <4>2. parent' \in [Instances -> {"absent", "forking", "waiting", "sleeping", "gone"}]
        BY <3>2 DEF IInv, TypeOK, Reap
      <4>3. UNCHANGED <<child, installed, inbox, stop, told, pidFiles, signals, crashes, asked, abrupt>>
        BY <3>2 DEF Reap
      <4> QED
        BY <4>1, <4>2, <4>3, SMTT(30) DEF IInv, TypeOK
    <3> QED
      BY <2>2, <3>1, <3>2
  <2>3. CASE LoopEnds(i)
    BY <2>3 DEF IInv, TypeOK, LoopEnds
  <2>4. CASE ForkFails(i)
    <3>1. crashes' \in 0..MaxCrashes
      BY <2>4, KeepAliveAssumption DEF IInv, TypeOK, ForkFails
    <3> QED
      BY <2>4, <3>1 DEF IInv, TypeOK, ForkFails
  <2> QED
    BY <2>1, <2>2, <2>3, <2>4 DEF ParentSteps
<1>2. ASSUME NEW j \in Instances
      PROVE  ChildHasParent(j)' /\ FileHasChild(j)'
  BY <1>2 DEF IInv, TypeOK, Start, Fork, ParentSteps, InstallHandlers, Reap, Respawn, LoopEnds,
         ForkFails, ChildHasParent, FileHasChild
<1> QED
  BY <1>1, <1>2 DEF IInv

(* Signals: whoever dies of one with a process left is abrupt.              *)
LEMMA SignalsKeep ==
  ASSUME IInv, NEW i \in Instances, NEW s \in Signals, Deliver(i, s)
  PROVE  IInv'
<1>1. CASE ByDefault(i, s) /\ DieOf(i, s)
  <2>1. TypeOK'
    BY <1>1 DEF IInv, TypeOK, Deliver, DieOf
  <2>2. ASSUME NEW j \in Instances
        PROVE  ChildHasParent(j)' /\ FileHasChild(j)'
    BY <1>1 DEF IInv, TypeOK, Deliver, DieOf, ChildHasParent, FileHasChild
  <2> QED
    BY <2>1, <2>2 DEF IInv
<1>2. CASE UNCHANGED <<parent, child, ignored, stop, told, asked, abrupt>>
  <2>1. TypeOK'
    <3>1. inbox' \in [Instances -> SUBSET Signals]
      BY <1>2 DEF IInv, TypeOK, Deliver
    <3>2. UNCHANGED <<parent, child, installed, ignored, stop, told, pidFiles, signals, crashes, asked, abrupt>>
      BY <1>2 DEF Deliver
    <3> QED
      BY <3>1, <3>2 DEF IInv, TypeOK
  <2> QED
    BY <1>2, <2>1 DEF IInv, Deliver, ChildHasParent, FileHasChild
<1>3. CASE HandleSignal(i, s) /\ UNCHANGED asked
  <2>1. Forwarded(s) \in Signals
    BY DEF Forwarded, Signals, Restarting
  <2>2. TypeOK'
    <3>1. ignored' \in [Instances -> SUBSET Signals] /\ inbox' \in [Instances -> SUBSET Signals]
      BY <1>3, <2>1 DEF IInv, TypeOK, Deliver, HandleSignal
    <3>2. /\ child' \in [Instances -> {"none", "young"} \cup Armed]
          /\ told' \in [Instances -> BOOLEAN]
      BY <1>3 DEF IInv, TypeOK, HandleSignal, KillChild
    <3>3. /\ parent' \in [Instances -> {"absent", "forking", "waiting", "sleeping", "gone"}]
          /\ stop' \in [Instances -> BOOLEAN] /\ abrupt' \subseteq Instances
      BY <1>3 DEF IInv, TypeOK, HandleSignal
    <3>4. UNCHANGED <<installed, pidFiles, signals, crashes, asked>>
      BY <1>3 DEF Deliver
    <3> QED
      BY <3>1, <3>2, <3>3, <3>4, SMTT(30) DEF IInv, TypeOK
  <2>3. ASSUME NEW j \in Instances
        PROVE  ChildHasParent(j)' /\ FileHasChild(j)'
    BY <1>3 DEF IInv, TypeOK, Deliver, HandleSignal, KillChild, Dies, Abandoned, Armed,
       ChildHasParent, FileHasChild
  <2> QED
    BY <2>2, <2>3 DEF IInv
<1> QED
  BY <1>1, <1>2, <1>3 DEF Deliver

(* The child: it writes its file after it has looked for others' and takes  *)
(* it away before it ends.                                                  *)
LEMMA ChildKeeps ==
  ASSUME IInv, NEW i \in Instances, ChildSteps(i) \/ Leave(i) \/ Crash(i)
  PROVE  IInv'
<1>1. TypeOK'
  <2> USE DEF IInv, TypeOK, Armed
  <2>1. CASE SetHandlers(i) \/ Leave(i)
    BY <2>1 DEF SetHandlers, Leave
  <2>2. CASE HandleReboot(i)
    BY <2>2 DEF HandleReboot, Signals
  <2>3. CASE SavePid(i) \/ UnlinkPid(i)
    BY <2>3 DEF SavePid, UnlinkPid, ParentOf
  <2>4. CASE Crash(i)
    <3>1. crashes' \in 0..MaxCrashes
      BY <2>4, KeepAliveAssumption DEF Crash
    <3> QED
      BY <2>4, <3>1 DEF Crash
  <2> QED
    BY <2>1, <2>2, <2>3, <2>4 DEF ChildSteps
<1>2. ASSUME NEW j \in Instances
      PROVE  ChildHasParent(j)' /\ FileHasChild(j)'
  <2>1. CASE SetHandlers(i) \/ HandleReboot(i) \/ Leave(i) \/ Crash(i)
    BY <2>1 DEF IInv, TypeOK, SetHandlers, HandleReboot, Leave, Crash, ChildHasParent, FileHasChild
  <2>2. CASE SavePid(i)
    BY <2>2, KeepAliveAssumption
       DEF IInv, TypeOK, SavePid, ParentOf, ChildHasParent, FileHasChild
  <2>3. CASE UnlinkPid(i)
    BY <2>3 DEF IInv, TypeOK, UnlinkPid, ParentOf, ChildHasParent, FileHasChild
  <2> QED
    BY <2>1, <2>2, <2>3 DEF ChildSteps
<1> QED
  BY <1>1, <1>2 DEF IInv

(* Parents, children and signals keep the invariant.                        *)
LEMMA NextIInv == IInv /\ [Next]_vars => IInv'
<1> SUFFICES ASSUME IInv, [Next]_vars
             PROVE  IInv'
  OBVIOUS
<1>1. ASSUME NEW i \in Instances, NEW s \in Restarting, Outside(i, s)
      PROVE  IInv'
  <2>1. TypeOK'
    BY <1>1, KeepAliveAssumption DEF IInv, TypeOK, Outside, Signals
  <2> QED
    BY <1>1, <2>1 DEF IInv, Outside, ChildHasParent, FileHasChild
<1>2. CASE UNCHANGED vars
  BY <1>2 DEF vars, IInv, TypeOK, ChildHasParent, FileHasChild
<1> QED
  BY <1>1, <1>2, ParentKeeps, SignalsKeep, ChildKeeps DEF Next

(* The inductive invariant holds always: a child has its parent, a file its child. *)
THEOREM Inductive == Spec => []IInv
BY InitIInv, NextIInv, PTL DEF Spec

(* Processes, signals and pid files keep their types.                       *)
THEOREM TypeCorrect == Spec => []TypeOK
<1>1. IInv => TypeOK
  BY DEF IInv
<1> QED
  BY <1>1, Inductive, PTL

(* For any number of instances in a directory, with signals at any moment:  *)
(* an instance that has ended without losing a process on the way has left  *)
(* no pid file.  (ManagerBase::start, PidManager, KeepAlive::keepalive.)    *)
THEOREM NoFileLeft == Spec => []CleanStopLeavesNothing
<1>1. IInv => CleanStopLeavesNothing
  BY DEF IInv, FileHasChild, CleanStopLeavesNothing
<1> QED
  BY <1>1, Inductive, PTL
=============================================================================
