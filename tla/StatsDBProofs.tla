---------------------------- MODULE StatsDBProofs ----------------------------
(* The task queue, for any producers and tasks, and the statistics          *)
(* database, for any connections, records and number of failing statements: *)
(* it implements the task queue, so that what is proved of the queue holds  *)
(* of it, only a worker that started too early saves nothing, and every     *)
(* update reaches the row it is for.                                        *)
EXTENDS StatsDB, SequenceTheorems, FiniteSetTheorems, TLAPS
-----------------------------------------------------------------------------
(* The task queue, for any producers and tasks.                             *)

(***************************************************************************)
(* The worker holds a task exactly while it runs m_func; it leaves the     *)
(* loop only over a flag that is set; what had been pushed when the flag   *)
(* was set is a part of all that was pushed.                               *)
(***************************************************************************)
WorkerHolds == wpc # "run" => task = <<>>
FlagSeen == wpc \in {"drain", "done"} => m_isStop
StopCount == addedAtStop <= Len(added)

IInv ==
  /\ TypeOK
  /\ WorkerHolds
  /\ FlagSeen
  /\ StopCount
  /\ InOrderOnce
  /\ DrainedBeforeExit

(* The three places a task can be in, put together one after the other.    *)
LEMMA MoveHead ==
  ASSUME NEW S, NEW h \in Seq(S), NEW q \in Seq(S), q # <<>>
  PROVE  h \o <<>> \o q = h \o <<Head(q)>> \o Tail(q)
<1>1. q = <<Head(q)>> \o Tail(q)
  BY HeadTailProperties
<1>2. <<Head(q)>> \in Seq(S) /\ Tail(q) \in Seq(S)
  BY HeadTailProperties
<1>3. h \o <<Head(q)>> \o Tail(q) = h \o (<<Head(q)>> \o Tail(q))
  BY <1>2, ConcatAssociative
<1>4. h \o <<>> = h
  BY ConcatEmptySeq
<1> QED
  BY <1>1, <1>3, <1>4

(* The invariant holds at first.                                            *)
LEMMA InitIInv == Init => IInv
<1> SUFFICES ASSUME Init
             PROVE  IInv
  OBVIOUS
<1>1. TypeOK
  BY EmptySeq DEF Init, TypeOK
<1>2. <<>> \o <<>> \o <<>> = <<>>
  <2>1. <<>> \in Seq(Tasks)
    BY EmptySeq
  <2> QED
    BY <2>1, ConcatEmptySeq
<1>3. InOrderOnce
  BY <1>2, Zenon DEF Init, InOrderOnce
<1>4. WorkerHolds /\ FlagSeen /\ StopCount /\ DrainedBeforeExit
  BY DEF Init, WorkerHolds, FlagSeen, StopCount, DrainedBeforeExit
<1> QED
  BY <1>1, <1>3, <1>4 DEF IInv

(* Every step of the worker, of a producer and of the stop keeps it.        *)
LEMMA NextIInv == IInv /\ [Next]_vars => IInv'
<1> SUFFICES ASSUME IInv, [Next]_vars
             PROVE  IInv'
  OBVIOUS
<1> USE DEF IInv, TypeOK, WorkerHolds, FlagSeen, StopCount, InOrderOnce, DrainedBeforeExit,
            GoTo, Signalled
<1>1. ASSUME NEW p \in Producers, AddPush(p)
      PROVE  IInv'
  <2>1. PICK t \in Tasks : m_dataList' = Append(m_dataList, t) /\ added' = Append(added, t)
    BY <1>1 DEF AddPush
  <2>2. m_dataList' \in Seq(Tasks) /\ added' \in Seq(Tasks) /\ Len(added') = Len(added) + 1
    BY <2>1
  <2>3. InOrderOnce'
    <3> DEFINE before == handled \o task
    <3>1. before \in Seq(Tasks)
      OBVIOUS
    <3>2. before \o Append(m_dataList, t) = Append(before \o m_dataList, t)
      BY <3>1
    <3> QED
      BY <1>1, <2>1, <3>2 DEF AddPush
  <2> QED
    BY <1>1, <2>2, <2>3 DEF AddPush
<1>2. ASSUME NEW p \in Producers, AddSignal(p)
      PROVE  IInv'
  BY <1>2 DEF AddSignal
<1>3. CASE SetStop
  <2>1. ~(wpc \in {"drain", "done"})
    BY <1>3 DEF SetStop
  <2> QED
    BY <1>3, <2>1 DEF SetStop
<1>4. CASE StopSignal
  BY <1>4 DEF StopSignal
<1>5. CASE TestStop
  BY <1>5 DEF TestStop
<1>6. CASE TestDrained
  <2>1. m_dataList = <<>> => Len(handled) >= addedAtStop
    <3> SUFFICES ASSUME m_dataList = <<>>
                 PROVE  Len(handled) >= addedAtStop
      OBVIOUS
    <3>1. task = <<>>
      BY <1>6 DEF TestDrained
    <3>2. handled \o <<>> \o <<>> = handled
      BY ConcatEmptySeq
    <3> QED
      BY <3>1, <3>2
  <2> QED
    BY <1>6, <2>1 DEF TestDrained
<1>7. CASE TestEmpty
  BY <1>7 DEF TestEmpty
<1>8. CASE Park
  BY <1>8 DEF Park
<1>9. CASE Wake
  BY <1>9 DEF Wake
<1>10. CASE Pop
  <2>1. CASE m_dataList = <<>>
    BY <1>10, <2>1 DEF Pop
  <2>2. CASE m_dataList # <<>>
    <3>1. task = <<>> /\ task' = <<Head(m_dataList)>> /\ m_dataList' = Tail(m_dataList)
      BY <1>10, <2>2 DEF Pop
    <3>2. task' \in Seq(Tasks) /\ m_dataList' \in Seq(Tasks)
      BY <2>2, <3>1, HeadTailProperties
    <3>3. handled \o task \o m_dataList = handled \o task' \o m_dataList'
      BY <2>2, <3>1, MoveHead
    <3> QED
      BY <1>10, <2>2, <3>2, <3>3 DEF Pop
  <2> QED
    BY <2>1, <2>2
<1>11. CASE Run
  <2>1. handled' \in Seq(Tasks) /\ task' = <<>> /\ handled' = handled \o task
    BY <1>11 DEF Run
  <2>2. handled' \o <<>> = handled'
    BY <2>1, ConcatEmptySeq
  <2> QED
    BY <1>11, <2>1, <2>2 DEF Run
<1>12. CASE SpuriousWake
  BY <1>12 DEF SpuriousWake
<1>13. CASE UNCHANGED vars
  BY <1>13 DEF vars
<1> QED
  BY <1>1, <1>2, <1>3, <1>4, <1>5, <1>6, <1>7, <1>8, <1>9, <1>10, <1>11, <1>12, <1>13
     DEF Next, WorkerStep

(* The inductive invariant holds in every behaviour of the queue.          *)
THEOREM Inductive == Spec => []IInv
BY InitIInv, NextIInv, PTL DEF Spec

(* The variables of ThreadTask keep their types, whatever the threads do.  *)
THEOREM TypeCorrect == Spec => []TypeOK
<1>1. IInv => TypeOK
  BY DEF IInv
<1> QED
  BY <1>1, Inductive, PTL

(* add_taskData and handle_taskData: no task is lost, doubled or reordered, *)
(* with any number of producers and tasks.                                  *)
THEOREM FirstInFirstOut == Spec => []InOrderOnce
<1>1. IInv => InOrderOnce
  BY DEF IInv
<1> QED
  BY <1>1, Inductive, PTL

(* start(): the worker never leaves its loop with a task unhandled that was *)
(* pushed before set_stop set the flag.                                     *)
THEOREM NothingLeftAtExit == Spec => []DrainedBeforeExit
<1>1. IInv => DrainedBeforeExit
  BY DEF IInv
<1> QED
  BY <1>1, Inductive, PTL

-----------------------------------------------------------------------------
(* The refinement.                                                          *)

(* Every step of the database is one of the task queue or leaves the queue alone. *)
LEMMA StepRefines == [DBNext]_allVars => [Next]_vars
<1> SUFFICES ASSUME [DBNext]_allVars
             PROVE  [Next]_vars
  OBVIOUS
<1>1. CASE EnterBody \/ ClearDbBase \/ InitChildThread \/ CreateDBObject
  BY <1>1 DEF EnterBody, ClearDbBase, InitChildThread, CreateDBObject
<1>2. ASSUME NEW p \in Producers, Record(p) \/ RecordSignal(p)
      PROVE  Next
  BY <1>2 DEF Record, RecordSignal, Next
<1>3. CASE Loop \/ Handle \/ Discard
  BY <1>3 DEF Loop, Handle, Discard, Next, WorkerStep
<1>4. CASE RecordStop
  BY <1>4 DEF RecordStop, Next
<1>5. CASE SpuriousWake /\ UNCHANGED dbVars
  BY <1>5 DEF Next
<1>6. CASE UNCHANGED allVars
  BY <1>6 DEF allVars
<1> QED
  BY <1>1, <1>2, <1>3, <1>4, <1>5, <1>6 DEF DBNext, DBThread

(* DBManager with its construction, its handler and its tables is a         *)
(* ThreadTask: every step is one of the queue or leaves the queue alone.    *)
THEOREM ImplementsTaskQueue == DBSpec => Spec
<1>1. DBInit => Init
  BY DEF DBInit
<1> QED
  BY <1>1, StepRefines, PTL DEF DBSpec, Spec

(* Every record is handled once and in the order of the calls of record_*,  *)
(* whatever the state of the database. (DBManager, ThreadTask.)             *)
THEOREM RecordsInOrder == DBSpec => []InOrderOnce
BY ImplementsTaskQueue, FirstInFirstOut, PTL

(* When the worker ends, no record is left that preceded record_stop.       *)
THEOREM RecordsDrained == DBSpec => []DrainedBeforeExit
BY ImplementsTaskQueue, NothingLeftAtExit, PTL

-----------------------------------------------------------------------------
(* What a task writes.                                                      *)

Ops == {"insert", "insertNew", "update"}

(* What saving the tables of a statement inserts.                           *)
LEMMA SaveTableLemma ==
  ASSUME NEW q, NEW s \in SaveTable(q)
  PROVE  s.op = "insertNew" /\ s.row[1] \in {"sqltable", "sql_table_rel"}
<1>1. PICK b \in TablesOf[q] :
        s = InsertNew(<<"sqltable", b>>) \/ s = InsertNew(<<"sql_table_rel", q, b>>)
  BY Zenon DEF SaveTable
<1>2. CASE s = InsertNew(<<"sqltable", b>>)
  <2>1. s.op = "insertNew" /\ s.row = <<"sqltable", b>>
    BY <1>2 DEF InsertNew
  <2>. QED
    BY <2>1
<1>3. CASE s = InsertNew(<<"sql_table_rel", q, b>>)
  <2>1. s.op = "insertNew" /\ s.row = <<"sql_table_rel", q, b>>
    BY <1>3 DEF InsertNew
  <2>. QED
    BY <2>1
<1>. QED
  BY <1>1, <1>2, <1>3

(* A record is handled with statements on rows of the database: either only *)
(* insertions or only updates.                                              *)
LEMMA StatementsOfTask ==
  ASSUME NEW t \in Tasks
  PROVE  /\ \A s \in Statements(t) : s.op \in Ops /\ s.row \in Rows
         /\ \A s, u \in Statements(t) : s.op # "update" => u.op # "update"
<1> DEFINE p == t[1]
           j == Script[p][t[2]]
<1>1. j.kind \in Kinds
  <2>1. PICK q \in Producers : t \in {<<q, i>> : i \in DOMAIN Script[q]}
    BY StatsDBAssumption
  <2>2. PICK i \in DOMAIN Script[q] : t = <<q, i>>
    BY <2>1
  <2>3. Script[q] \in Seq(Jobs)
    BY StatsDBAssumption
  <2>4. Script[q][i] \in Jobs
    BY <2>2, <2>3
  <2> QED
    BY <2>2, <2>4 DEF Jobs
<1>2. \A s \in Statements(t) : s.row \in Rows
  BY DEF Rows
<1>3. \A s \in Statements(t) :
         s.op \in Ops /\ (s.op = "update" <=> j.kind \in {"traffic", "result"})
  <2>. DEFINE IsInsertion(s) == s.op \in {"insert", "insertNew"}
  <2>1. CASE j.kind \in {"traffic", "result"}
    <3>1. CASE j.kind = "traffic"
      BY <3>1 DEF Statements, Update, Ops
    <3>2. CASE j.kind = "result"
      BY <3>2 DEF Statements, Update, Ops
    <3>. QED
      BY <2>1, <3>1, <3>2
  <2>2. CASE j.kind = "exec"
    <3>1. \A s \in SaveTable(j.sql) : IsInsertion(s)
      BY SaveTableLemma
    <3>2. \A s \in Statements(t) : IsInsertion(s)
      BY <2>2, <3>1, SMTT(30) DEF Statements, Insert, InsertNew
    <3>. QED
      BY <2>2, <3>2 DEF Ops
  <2>3. CASE j.kind \in {"client", "addsql", "trans"}
    <3>1. \A s \in Statements(t) : IsInsertion(s)
      <4>1. CASE j.kind = "client"
        BY <4>1 DEF Statements, Insert, InsertNew
      <4>2. CASE j.kind = "addsql"
        BY <4>2 DEF Statements, Insert, InsertNew
      <4>3. CASE j.kind = "trans"
        BY <4>3 DEF Statements, Insert, InsertNew
      <4>. QED
        BY <2>3, <4>1, <4>2, <4>3
    <3>. QED
      BY <2>3, <3>1 DEF Ops
  <2>. QED
    BY <1>1, <2>1, <2>2, <2>3 DEF Kinds
<1> QED
  BY <1>2, <1>3

(* A statement keeps what is there; an insertion leaves a row behind.       *)
LEMMA AfterStatement ==
  ASSUME NEW counts \in Seq(Nat), NEW op \in Ops
  PROVE  /\ After(counts, op) \in Seq(Nat)
         /\ op # "update" \/ counts # <<>> => After(counts, op) # <<>>
<1>1. CASE op = "insert"
  BY <1>1 DEF After
<1>2. CASE op = "insertNew"
  BY <1>2 DEF After
<1>3. CASE op = "update"
  <2> DEFINE more == [i \in DOMAIN counts |-> counts[i] + 1]
  <2>1. After(counts, op) = more
    BY <1>3 DEF After
  <2>2. more \in Seq(Nat) /\ Len(more) = Len(counts)
    <3>1. more \in [1..Len(counts) -> Nat] /\ Len(counts) \in Nat
      OBVIOUS
    <3> QED
      BY <3>1, IsASeq, LenProperties
  <2> QED
    BY <1>3, <2>1, <2>2, EmptySeq
<1> QED
  BY <1>1, <1>2, <1>3 DEF Ops

(* What one task's statements, less those that failed, do to the tables.    *)
LEMMA ExecuteRows ==
  ASSUME NEW t \in Tasks, NEW F \in SUBSET Statements(t), rows \in [Rows -> Seq(Nat)]
  PROVE  /\ Execute(Statements(t) \ F) \in [Rows -> Seq(Nat)]
         /\ \A r \in Rows : rows[r] # <<>> => Execute(Statements(t) \ F)[r] # <<>>
         /\ \A s \in Statements(t) \ F :
              s.op # "update" => Execute(Statements(t) \ F)[s.row] # <<>>
<1> DEFINE stmts == Statements(t) \ F
           on(r) == CHOOSE s \in stmts : s.row = r
           new(r) == IF \E s \in stmts : s.row = r THEN After(rows[r], on(r).op) ELSE rows[r]
<1>1. \A r \in Rows : (\E s \in stmts : s.row = r) => on(r) \in stmts
  OBVIOUS
<1>2. \A s \in stmts : s.op \in Ops /\ s.row \in Rows
  BY StatementsOfTask
<1>3. \A r \in Rows : new(r) \in Seq(Nat) /\ (rows[r] # <<>> => new(r) # <<>>)
  <2> SUFFICES ASSUME NEW r \in Rows
               PROVE  new(r) \in Seq(Nat) /\ (rows[r] # <<>> => new(r) # <<>>)
    OBVIOUS
  <2>1. CASE \E s \in stmts : s.row = r
    <3>1. on(r).op \in Ops
      BY <1>1, <1>2, <2>1
    <3> HIDE DEF on
    <3> QED
      BY <2>1, <3>1, AfterStatement
  <2>2. CASE ~ \E s \in stmts : s.row = r
    BY <2>2
  <2> QED
    BY <2>1, <2>2
<1>4. \A s \in stmts : s.op # "update" => new(s.row) # <<>>
  <2> SUFFICES ASSUME NEW s \in stmts, s.op # "update"
               PROVE  new(s.row) # <<>>
    OBVIOUS
  <2>1. on(s.row) \in stmts /\ s.row \in Rows
    BY <1>1, <1>2
  <2>2. on(s.row).op \in Ops /\ on(s.row).op # "update"
    BY <2>1, <1>2, StatementsOfTask
  <2> HIDE DEF on
  <2> QED
    BY <2>1, <2>2, AfterStatement
<1>5. Execute(stmts) = [r \in Rows |-> new(r)]
  BY DEF Execute
<1> HIDE DEF new
<1> QED
  BY <1>2, <1>3, <1>4, <1>5

-----------------------------------------------------------------------------
(* The invariant: the worker holds one task while it runs; it is at the     *)
(* head of its loop until init_childThread returns; after that it has the   *)
(* database unless init_childThread was early.                              *)
OneInHand == wpc = "run" => Len(task) = 1
AtLoopUntilInit == init # "done" => wpc = "while" /\ handled = <<>> /\ ~early
ClearedWhenReady == ctor = "ready" => dbBase # "garbage"
MadeUnlessEarly == init = "done" /\ ~early => dbBase = "made" /\ ctor = "ready"

DBIInv ==
  /\ DBTypeOK
  /\ OneInHand
  /\ AtLoopUntilInit
  /\ ClearedWhenReady
  /\ MadeUnlessEarly
  /\ SavedUnlessBornEarly

(* The invariant holds at first.                                            *)
LEMMA InitDBIInv == DBInit => DBIInv
<1> SUFFICES ASSUME DBInit
             PROVE  DBIInv
  OBVIOUS
<1>1. TypeOK
  BY InitIInv DEF DBInit, IInv
<1>2. rows \in [Rows -> Seq(Nat)]
  BY EmptySeq DEF DBInit
<1>3. Range(handled) = {}
  BY DEF DBInit, Init, Range
<1> QED
  BY <1>1, <1>2, <1>3 DEF DBInit, Init, DBIInv, DBTypeOK, OneInHand, AtLoopUntilInit,
     ClearedWhenReady, MadeUnlessEarly, SavedUnlessBornEarly

(* A step that handles nothing, forgets no early start and leaves the       *)
(* tables alone saves what was saved.                                       *)
LEMMA SavedStays ==
  ASSUME SavedUnlessBornEarly, UNCHANGED <<handled, rows, failed>>, early => early'
  PROVE  SavedUnlessBornEarly'
BY DEF SavedUnlessBornEarly

(* The steps of the queue with no part in the database.                     *)
LEMMA QueueStep ==
  ASSUME DBIInv, TypeOK', UNCHANGED dbVars, UNCHANGED handled,
         wpc' = "run" => (wpc = "run" /\ task' = task) \/ Len(task') = 1,
         init # "done" => wpc' = wpc
  PROVE  DBIInv'
<1>1. SavedUnlessBornEarly'
  BY SavedStays DEF DBIInv, dbVars
<1> QED
  BY <1>1 DEF DBIInv, DBTypeOK, dbVars, OneInHand, AtLoopUntilInit, ClearedWhenReady, MadeUnlessEarly

(* What the handler does, and what a missing object discards, keeps it.     *)
LEMMA HandleSaves ==
  ASSUME DBIInv, TypeOK', Handle \/ Discard
  PROVE  DBIInv'
<1>1. wpc = "run" /\ wpc' = "while" /\ handled' = handled \o task
  BY DEF Handle, Discard, Run, GoTo
<1>2. PICK t \in Tasks : task = <<t>>
  <2>1. task \in Seq(Tasks) /\ Len(task) = 1
    BY <1>1 DEF DBIInv, DBTypeOK, TypeOK, OneInHand
  <2>2. task[1] \in Tasks /\ task = <<task[1]>>
    BY <2>1
  <2> QED
    BY <2>2
<1>3. \A u \in Range(handled') : u = t \/ u \in Range(handled)
  <2>1. handled \in Seq(Tasks) /\ handled' = handled \o <<t>>
    BY <1>1, <1>2 DEF DBIInv, DBTypeOK, TypeOK
  <2> QED
    BY <2>1 DEF Range
<1>4. init = "done" /\ init' = init /\ ctor' = ctor /\ dbBase' = dbBase /\ early' = early
  BY <1>1 DEF DBIInv, AtLoopUntilInit, Handle, Discard, dbVars
<1>5. CASE Handle
  <2>1. PICK F \in SUBSET Statements(t) :
           /\ failed' = failed \cup {<<t, s.row>> : s \in F}
           /\ rows' = Execute(Statements(t) \ F)
    BY <1>2, <1>5 DEF Handle
  <2>2. rows \in [Rows -> Seq(Nat)] /\ failed \subseteq Tasks \X Rows
    BY DEF DBIInv, DBTypeOK
  <2>3. failed' \subseteq Tasks \X Rows
    BY <2>1, <2>2, StatementsOfTask
  <2>4. /\ rows' \in [Rows -> Seq(Nat)]
        /\ \A r \in Rows : rows[r] # <<>> => rows'[r] # <<>>
        /\ \A s \in Statements(t) \ F : s.op # "update" => rows'[s.row] # <<>>
    BY <2>1, <2>2, ExecuteRows
  <2>5. SavedUnlessBornEarly'
    <3> SUFFICES ASSUME NEW u \in Range(handled'), NEW s \in Statements(u),
                        s.op # "update", <<u, s.row>> \notin failed'
                 PROVE  rows'[s.row] # <<>> \/ early'
      BY DEF SavedUnlessBornEarly
    <3>1. CASE u = t
      <4>1. s \notin F
        BY <2>1, <3>1
      <4> QED
        BY <2>4, <3>1, <4>1
    <3>2. CASE u \in Range(handled)
      <4>1. <<u, s.row>> \notin failed
        BY <2>1
      <4>2. rows[s.row] # <<>> \/ early
        BY <3>2, <4>1 DEF DBIInv, SavedUnlessBornEarly
      <4>3. u \in Tasks
        BY <3>2 DEF DBIInv, DBTypeOK, TypeOK, Range
      <4>4. s.row \in Rows
        BY <4>3, StatementsOfTask
      <4> QED
        BY <1>4, <2>4, <4>2, <4>4
    <3> QED
      BY <1>3, <3>1, <3>2
  <2> QED
    BY <1>1, <1>4, <2>3, <2>4, <2>5 DEF DBIInv, DBTypeOK, OneInHand, AtLoopUntilInit,
       ClearedWhenReady, MadeUnlessEarly
<1>6. CASE Discard
  <2>1. early' /\ rows' = rows /\ failed' = failed
    BY <1>4, <1>6 DEF Discard, dbVars, DBIInv, DBTypeOK, MadeUnlessEarly
  <2>2. SavedUnlessBornEarly'
    BY <2>1 DEF SavedUnlessBornEarly
  <2> QED
    BY <1>1, <1>4, <2>1, <2>2 DEF DBIInv, DBTypeOK, OneInHand, AtLoopUntilInit,
       ClearedWhenReady, MadeUnlessEarly
<1> QED
  BY <1>5, <1>6

(* Every step keeps it.                                                     *)
LEMMA NextDBIInv == DBIInv /\ TypeOK' /\ [DBNext]_allVars => DBIInv'
<1> SUFFICES ASSUME DBIInv, TypeOK', [DBNext]_allVars
             PROVE  DBIInv'
  OBVIOUS
<1>1. CASE EnterBody \/ ClearDbBase \/ InitChildThread \/ CreateDBObject
  <2>1. UNCHANGED vars /\ UNCHANGED <<rows, failed>>
    BY <1>1 DEF EnterBody, ClearDbBase, InitChildThread, CreateDBObject
  <2>2. early => early'
    BY <1>1 DEF EnterBody, ClearDbBase, InitChildThread, CreateDBObject, DBIInv, AtLoopUntilInit
  <2>3. SavedUnlessBornEarly'
    BY <2>1, <2>2, SavedStays DEF vars, DBIInv
  <2>4. OneInHand'
    BY <2>1 DEF vars, DBIInv, OneInHand
  <2>5. DBTypeOK'
    BY <1>1, <2>1 DEF EnterBody, ClearDbBase, InitChildThread, CreateDBObject, vars, DBIInv, DBTypeOK
  <2>6. (AtLoopUntilInit /\ ClearedWhenReady /\ MadeUnlessEarly)'
    <3> USE DEF DBIInv, DBTypeOK, AtLoopUntilInit, ClearedWhenReady, MadeUnlessEarly
    <3>1. CASE EnterBody
      BY <3>1, <2>1 DEF EnterBody, vars
    <3>2. CASE ClearDbBase
      BY <3>2, <2>1 DEF ClearDbBase, vars
    <3>3. CASE InitChildThread
      BY <3>3, <2>1 DEF InitChildThread, vars
    <3>4. CASE CreateDBObject
      BY <3>4, <2>1 DEF CreateDBObject, vars
    <3> QED
      BY <1>1, <3>1, <3>2, <3>3, <3>4
  <2> QED
    BY <2>3, <2>4, <2>5, <2>6 DEF DBIInv
<1>2. ASSUME NEW p \in Producers, Record(p) \/ RecordSignal(p)
      PROVE  DBIInv'
  BY <1>2, QueueStep DEF Record, RecordSignal, AddPush, AddSignal, Signalled, DBIInv, AtLoopUntilInit
<1>3. CASE Loop
  <2>1. init = "done" /\ UNCHANGED dbVars /\ UNCHANGED handled
    BY <1>3 DEF Loop, TestStop, TestDrained, TestEmpty, Park, Wake, Pop
  <2>2. wpc' = "run" => Len(task') = 1
    BY <1>3 DEF Loop, TestStop, TestDrained, TestEmpty, Park, Wake, Pop, GoTo
  <2> QED
    BY <2>1, <2>2, QueueStep
<1>4. CASE Handle \/ Discard
  BY <1>4, HandleSaves
<1>5. CASE RecordStop
  BY <1>5, QueueStep DEF RecordStop, SetStop, StopSignal, Signalled, DBIInv, AtLoopUntilInit
<1>6. CASE SpuriousWake /\ UNCHANGED dbVars
  BY <1>6, QueueStep DEF SpuriousWake, GoTo, DBIInv, AtLoopUntilInit
<1>7. CASE UNCHANGED allVars
  BY <1>7, QueueStep DEF allVars, vars
<1> QED
  BY <1>1, <1>2, <1>3, <1>4, <1>5, <1>6, <1>7 DEF DBNext, DBThread

(* The inductive invariant of the database thread holds always.             *)
THEOREM DBInductive == DBSpec => []DBIInv
<1>1. DBSpec => []TypeOK
  BY ImplementsTaskQueue, TypeCorrect, PTL
<1> QED
  BY <1>1, InitDBIInv, NextDBIInv, PTL DEF DBSpec

(* The worker, the constructor, the database object and the tables keep     *)
(* their types: no failing statement leaves a row without a count.          *)
THEOREM DBTypeCorrect == DBSpec => []DBTypeOK
<1>1. DBIInv => DBTypeOK
  BY DEF DBIInv
<1> QED
  BY <1>1, DBInductive, PTL

(* What was handled and did not fail is in the tables, unless               *)
(* init_childThread returned before the constructor was ready, for any      *)
(* records, tables and failures.  (DBManager::DBManager, DBManager::start.) *)
THEOREM SavedForAll == DBSpec => []SavedUnlessBornEarly
<1>1. DBIInv => SavedUnlessBornEarly
  BY DEF DBIInv
<1> QED
  BY <1>1, DBInductive, PTL
-----------------------------------------------------------------------------
(* What is counted.                                                         *)

Adds(u, r) == Update(r) \in Statements(u)
Makes(t, r) == Insert(r) \in Statements(t)

(* A task is a record of a script.                                          *)
LEMMA TaskOfScript ==
  ASSUME NEW t \in Tasks
  PROVE  /\ t[1] \in Producers /\ t[2] \in Nat \ {0} /\ t = <<t[1], t[2]>>
         /\ Script[t[1]][t[2]] \in Jobs /\ Script[t[1]][t[2]].kind \in Kinds
<1>1. PICK q \in Producers : t \in {<<q, i>> : i \in DOMAIN Script[q]}
  BY StatsDBAssumption
<1>2. PICK i \in DOMAIN Script[q] : t = <<q, i>>
  BY <1>1
<1>3. Script[q] \in Seq(Jobs)
  BY StatsDBAssumption
<1>4. Script[q][i] \in Jobs /\ i \in Nat \ {0}
  BY <1>2, <1>3
<1>5. t[1] = q /\ t[2] = i
  BY <1>2
<1>. QED
  BY <1>2, <1>4, <1>5 DEF Jobs

(* Which records have statements on the rows of users and of executions.    *)
LEMMA StatementsByKind ==
  ASSUME ~Monitor, NEW t \in Tasks
  PROVE  LET p == t[1]
             j == Script[p][t[2]]
             user == <<"user", p, "connHashCode">>
             exec == <<"sql_exec", p, j.sql, j.at>>
         IN  /\ j.kind = "traffic" => Statements(t) = {Update(user)}
             /\ j.kind = "result" => Statements(t) = {Update(exec)}
             /\ j.kind = "client" => Statements(t) = {Insert(user)}
             /\ j.kind = "exec" => Insert(exec) \in Statements(t)
             /\ \A s \in Statements(t) :
                  /\ s.op = "update" => \/ j.kind = "traffic" /\ s = Update(user)
                                        \/ j.kind = "result" /\ s = Update(exec)
                  /\ s.op # "update" /\ s.row[1] = "user" => j.kind = "client" /\ s = Insert(user)
                  /\ s.op # "update" /\ s.row[1] = "sql_exec" => j.kind = "exec" /\ s = Insert(exec)
<1>. DEFINE p == t[1]
            j == Script[p][t[2]]
            user == <<"user", p, "connHashCode">>
            exec == <<"sql_exec", p, j.sql, j.at>>
<1>1. j.kind \in Kinds
  BY TaskOfScript
<1>2. UserRow(p, "connHashCode") = user /\ ExecRow(p, j) = exec /\ ClientKey = "connHashCode"
  BY DEF UserRow, ExecRow, ClientKey
<1>3. CASE j.kind = "traffic"
  <2>1. Statements(t) = {Update(user)}
    BY <1>2, <1>3 DEF Statements
  <2>. QED
    BY <1>3, <2>1 DEF Update
<1>4. CASE j.kind = "result"
  <2>1. Statements(t) = {Update(exec)}
    BY <1>2, <1>4 DEF Statements
  <2>. QED
    BY <1>4, <2>1 DEF Update
<1>5. CASE j.kind = "client"
  <2>1. Statements(t) = {Insert(user)}
    BY <1>2, <1>5 DEF Statements
  <2>. QED
    BY <1>5, <2>1 DEF Insert
<1>6. CASE j.kind = "exec"
  <2>1. Statements(t) = {Insert(exec), InsertNew(<<"sql", j.sql>>)} \cup SaveTable(j.sql)
    BY <1>2, <1>6 DEF Statements
  <2>2. \A s \in Statements(t) : s = Insert(exec) \/ (s.op # "update" /\ s.row[1] \notin {"user", "sql_exec"})
    <3>1. \A s \in SaveTable(j.sql) : s.op # "update" /\ s.row[1] \notin {"user", "sql_exec"}
      BY SaveTableLemma
    <3>2. LET s == InsertNew(<<"sql", j.sql>>) IN s.op # "update" /\ s.row[1] \notin {"user", "sql_exec"}
      BY DEF InsertNew
    <3>. QED
      BY <2>1, <3>1, <3>2
  <2>. QED
    BY <1>6, <2>1, <2>2 DEF Insert
<1>7. CASE j.kind = "addsql"
  <2>1. Statements(t) = {Insert(<<"user_sql_rel", p, j.sql, j.at>>)}
    BY <1>7 DEF Statements
  <2>. QED
    BY <1>7, <2>1 DEF Insert
<1>8. CASE j.kind = "trans"
  <2>1. Statements(t) = {Insert(<<"transinfo", p, j.sql>>), InsertNew(<<"trans_sql_rel", j.sql, j.sql>>)}
    BY <1>8 DEF Statements, TransRow
  <2>. QED
    BY <1>8, <2>1 DEF Insert, InsertNew
<1>. QED
  BY <1>1, <1>3, <1>4, <1>5, <1>6, <1>7, <1>8 DEF Kinds

(* The proxy keys a client's row as its traffic does, so that the row that  *)
(* an update is for is inserted by the record it comes from, and nothing    *)
(* else has statements on it than that record and updates.                  *)
LEMMA KeysMatch ==
  ASSUME ~Monitor, NEW u \in Tasks, NEW r, Adds(u, r), NEW t \in Tasks
  PROVE  /\ Statements(u) = {Update(r)} /\ r \in Rows
         /\ Script[u[1]][u[2]].kind \in {"traffic", "result"}
         /\ Creates(t, u) <=> Makes(t, r)
         /\ \A s \in Statements(t) :
              s.row = r => s = Update(r) \/ (s = Insert(r) /\ Creates(t, u))
         /\ Adds(t, r) => ~ Makes(t, r) /\ Statements(t) = {Update(r)}
                          /\ \A v \in Tasks : Creates(v, t) <=> Creates(v, u)
<1>. DEFINE k == Script[u[1]][u[2]]
            j == Script[t[1]][t[2]]
            userU == <<"user", u[1], "connHashCode">>
            execU == <<"sql_exec", u[1], k.sql, k.at>>
            userT == <<"user", t[1], "connHashCode">>
            execT == <<"sql_exec", t[1], j.sql, j.at>>
<1>1. Update(r) \in Statements(u) /\ Update(r).op = "update" /\ Update(r).row = r
  BY DEF Adds, Update
<1>2. \/ k.kind = "traffic" /\ r = userU /\ Statements(u) = {Update(r)}
      \/ k.kind = "result" /\ r = execU /\ Statements(u) = {Update(r)}
  <2>1. \/ k.kind = "traffic" /\ Update(r) = Update(userU)
        \/ k.kind = "result" /\ Update(r) = Update(execU)
    BY <1>1, StatementsByKind
  <2>2. \/ k.kind = "traffic" /\ r = userU
        \/ k.kind = "result" /\ r = execU
    BY <1>1, <2>1 DEF Update
  <2>. QED
    BY <2>2, StatementsByKind
<1>3. r \in Rows
  BY <1>1 DEF Rows
<1>4. Insert(r).op = "insert" /\ Insert(r).row = r
  BY DEF Insert
<1>5. Creates(t, u) <=> \/ t[1] = u[1] /\ j.kind = "client" /\ k.kind = "traffic"
                        \/ t[1] = u[1] /\ j.kind = "exec" /\ k.kind = "result" /\ j.sql = k.sql /\ j.at = k.at
  BY DEF Creates
<1>6. ASSUME NEW s \in Statements(t), s.row = r, s.op # "update"
      PROVE  s = Insert(r) /\ Creates(t, u)
  <2>1. CASE k.kind = "traffic" /\ r = userU
    <3>1. r[1] = "user"
      BY <2>1
    <3>2. j.kind = "client" /\ s = Insert(userT)
      BY <1>6, <3>1, StatementsByKind
    <3>3. userT = userU
      BY <1>6, <2>1, <3>2 DEF Insert
    <3>. QED
      BY <1>5, <2>1, <3>2, <3>3
  <2>2. CASE k.kind = "result" /\ r = execU
    <3>1. r[1] = "sql_exec"
      BY <2>2
    <3>2. j.kind = "exec" /\ s = Insert(execT)
      BY <1>6, <3>1, StatementsByKind
    <3>3. execT = execU
      BY <1>6, <2>2, <3>2 DEF Insert
    <3>. QED
      BY <1>5, <2>2, <3>2, <3>3
  <2>. QED
    BY <1>2, <2>1, <2>2
<1>7. Creates(t, u) => Makes(t, r)
  <2>1. CASE k.kind = "traffic" /\ r = userU
    BY <1>5, <2>1, StatementsByKind DEF Makes
  <2>2. CASE k.kind = "result" /\ r = execU
    BY <1>5, <2>2, StatementsByKind DEF Makes
  <2>. QED
    BY <1>2, <2>1, <2>2
<1>8. Makes(t, r) => Creates(t, u)
  BY <1>4, <1>6 DEF Makes
<1>9. ASSUME NEW s \in Statements(t), s.row = r, s.op = "update" PROVE s = Update(r)
  <2>1. s = Update(userT) \/ s = Update(execT)
    BY <1>9, StatementsByKind
  <2>2. Update(userT).row = userT /\ Update(execT).row = execT
    BY DEF Update
  <2>. QED
    BY <1>9, <2>1, <2>2
<1>10. ASSUME Adds(t, r)
       PROVE  /\ ~ Makes(t, r) /\ Statements(t) = {Update(r)}
              /\ \A v \in Tasks : Creates(v, t) <=> Creates(v, u)
  <2>1. Update(r) \in Statements(t)
    BY <1>10 DEF Adds
  <2>2. \/ j.kind = "traffic" /\ Update(r) = Update(userT) /\ Statements(t) = {Update(userT)}
        \/ j.kind = "result" /\ Update(r) = Update(execT) /\ Statements(t) = {Update(execT)}
    BY <1>1, <2>1, StatementsByKind
  <2>3. \/ j.kind = "traffic" /\ r = userT /\ Statements(t) = {Update(r)}
        \/ j.kind = "result" /\ r = execT /\ Statements(t) = {Update(r)}
    BY <2>2, <1>1 DEF Update
  <2>4. ~ Makes(t, r)
    BY <1>1, <1>4, <2>3 DEF Makes
  <2>5. \/ j.kind = "traffic" /\ k.kind = "traffic" /\ t[1] = u[1]
        \/ j.kind = "result" /\ k.kind = "result" /\ t[1] = u[1] /\ j.sql = k.sql /\ j.at = k.at
    <3>1. r[1] = "user" <=> k.kind = "traffic"
      BY <1>2
    <3>2. r[1] = "user" <=> j.kind = "traffic"
      BY <2>3
    <3>. QED
      BY <1>2, <2>3, <3>1, <3>2
  <2>. QED
    BY <2>3, <2>4, <2>5 DEF Creates
<1>. QED
  BY <1>2, <1>3, <1>6, <1>7, <1>8, <1>9, <1>10

(* What a handled record and those before it in its script have in common:  *)
(* no record is pushed twice, a connection's are pushed from the first on   *)
(* and without a gap, and only handled records have failed.                 *)
NoRepeat == \A i, j \in 1..Len(added) : added[i] = added[j] => i = j
PushedFromFirst ==
  \A p \in Producers : \E n \in Nat : Pushed(p) = {<<p, k>> : k \in 1..n}
ScriptOrder ==
  \A i \in 1..Len(added) : \A t \in Tasks :
    t[1] = added[i][1] /\ t[2] < added[i][2] => \E h \in 1..(i - 1) : added[h] = t
FailedHandled == failed \subseteq Range(handled) \X Rows
EarlyLoses == early /\ ctor = "ready" => dbBase # "made"

(* A row is missing until the record that inserts it is handled, and then   *)
(* has the number of its updates, unless the insertion failed.              *)
RowsRight ==
  ~early =>
    \A r \in Rows : \A t \in Tasks : \A u \in Tasks : Makes(t, r) /\ Adds(u, r) =>
      /\ t \notin Range(handled) => rows[r] = <<>>
      /\ t \in Range(handled) /\ <<t, r>> \notin failed
           => rows[r] = <<Cardinality(Done("update", r))>>

CountInv ==
  /\ IInv /\ DBIInv
  /\ NoRepeat /\ PushedFromFirst /\ ScriptOrder /\ FailedHandled /\ EarlyLoses /\ RowsRight

(* The front of what was pushed is handled; then comes what is in hand.     *)
LEMMA HandledIsFront ==
  ASSUME IInv
  PROVE  /\ Len(handled) \in Nat /\ Len(added) \in Nat /\ Len(handled) <= Len(added)
         /\ \A i \in 1..Len(handled) : handled[i] = added[i]
         /\ Range(handled) = {added[i] : i \in 1..Len(handled)}
         /\ \A t : task = <<t>> => /\ Len(handled) + 1 \in 1..Len(added)
                                   /\ added[Len(handled) + 1] = t
<1>1. /\ handled \in Seq(Tasks) /\ task \in Seq(Tasks) /\ m_dataList \in Seq(Tasks)
      /\ added = handled \o task \o m_dataList
  BY DEF IInv, TypeOK, InOrderOnce
<1>2. /\ Len(handled) \in Nat /\ Len(task) \in Nat /\ Len(m_dataList) \in Nat
      /\ Len(added) = Len(handled) + Len(task) + Len(m_dataList)
      /\ \A i \in 1..Len(handled) : added[i] = handled[i]
      /\ \A i \in 1..Len(task) : added[Len(handled) + i] = task[i]
  BY <1>1
<1>3. DOMAIN handled = 1..Len(handled)
  BY <1>1
<1>4. Range(handled) = {added[i] : i \in 1..Len(handled)}
  BY <1>2, <1>3 DEF Range
<1>5. ASSUME NEW t, task = <<t>>
      PROVE  Len(handled) + 1 \in 1..Len(added) /\ added[Len(handled) + 1] = t
  <2>1. Len(task) = 1 /\ task[1] = t
    BY <1>5
  <2>. QED
    BY <1>2, <2>1
<1>. QED
  BY <1>2, <1>4, <1>5

(* A record is handled after those before it in its script, and once.       *)
LEMMA HandledInOrder ==
  ASSUME IInv, NoRepeat, ScriptOrder
  PROVE  /\ \A u \in Range(handled) : \A t \in Tasks :
              t[1] = u[1] /\ t[2] < u[2] => t \in Range(handled)
         /\ \A u : task = <<u>> =>
              /\ u \notin Range(handled)
              /\ \A t \in Tasks : t[1] = u[1] /\ t[2] < u[2] => t \in Range(handled)
<1>0. /\ Len(handled) \in Nat /\ Len(added) \in Nat /\ Len(handled) <= Len(added)
      /\ Range(handled) = {added[i] : i \in 1..Len(handled)}
      /\ \A t : task = <<t>> => /\ Len(handled) + 1 \in 1..Len(added)
                                /\ added[Len(handled) + 1] = t
  BY HandledIsFront
<1>1. ASSUME NEW i \in 1..(Len(handled) + 1), i <= Len(added), NEW t \in Tasks,
             t[1] = added[i][1], t[2] < added[i][2]
      PROVE  t \in Range(handled)
  <2>1. i \in 1..Len(added)
    BY <1>0, <1>1
  <2>2. PICK h \in 1..(i - 1) : added[h] = t
    BY <1>1, <2>1 DEF ScriptOrder
  <2>3. h \in 1..Len(handled)
    BY <1>0
  <2>. QED
    BY <1>0, <2>2, <2>3
<1>2. ASSUME NEW u \in Range(handled), NEW t \in Tasks, t[1] = u[1], t[2] < u[2]
      PROVE  t \in Range(handled)
  <2>1. PICK i \in 1..Len(handled) : u = added[i]
    BY <1>0
  <2>. QED
    BY <1>0, <1>1, <1>2, <2>1
<1>3. ASSUME NEW u, task = <<u>>
      PROVE  /\ u \notin Range(handled)
             /\ \A t \in Tasks : t[1] = u[1] /\ t[2] < u[2] => t \in Range(handled)
  <2>1. Len(handled) + 1 \in 1..Len(added) /\ added[Len(handled) + 1] = u
    BY <1>0, <1>3
  <2>2. u \notin Range(handled)
    <3>1. ASSUME NEW i \in 1..Len(handled), added[i] = u PROVE FALSE
      <4>1. i \in 1..Len(added) /\ i # Len(handled) + 1
        BY <1>0
      <4>. QED
        BY <2>1, <3>1, <4>1 DEF NoRepeat
    <3>. QED
      BY <1>0, <3>1
  <2>. QED
    BY <1>0, <1>1, <2>1, <2>2
<1>. QED
  BY <1>2, <1>3

(* The handled records are finitely many.                                   *)
LEMMA HandledFinite ==
  ASSUME handled \in Seq(Tasks)
  PROVE  IsFiniteSet(Range(handled))
<1>. DEFINE n == Len(handled)
            R == Range(handled)
<1>1. n \in Nat /\ DOMAIN handled = 1..n /\ handled \in [1..n -> Tasks]
  OBVIOUS
<1>r. \A i \in 1..n : handled[i] \in R
  BY <1>1 DEF Range
<1>s. \A t \in R : \E i \in 1..n : handled[i] = t
  BY <1>1 DEF Range
<1>f. handled \in [1..n -> R]
  BY <1>1, <1>r
<1>2. handled \in Surjection(1..n, R)
  BY <1>s, <1>f DEF Surjection
<1>. QED
  BY <1>1, <1>2, FS_Interval, FS_Surjection

(* A connection has pushed as many records as it is told the next number.   *)
LEMMA PushedNumber ==
  ASSUME NEW p \in Producers, NEW n \in Nat, Pushed(p) = {<<p, k>> : k \in 1..n}
  PROVE  Cardinality(Pushed(p)) = n
<1>. DEFINE T == {<<p, k>> : k \in 1..n}
            f == [k \in 1..n |-> <<p, k>>]
<1>1. f \in Bijection(1..n, T)
  <2>1. f \in [1..n -> T] /\ \A k \in 1..n : f[k] = <<p, k>>
    OBVIOUS
  <2>2. \A k, h \in 1..n : f[k] = f[h] => k = h
    OBVIOUS
  <2>3. \A t \in T : \E k \in 1..n : f[k] = t
    OBVIOUS
  <2>. HIDE DEF f, T
  <2>. QED
    BY <2>1, <2>2, <2>3 DEF Bijection, Injection, IsInjective, Surjection
<1>2. ExistsBijection(1..n, T)
  BY <1>1 DEF ExistsBijection
<1>3. IsFiniteSet(1..n) /\ Cardinality(1..n) = n
  BY FS_Interval
<1>4. Pushed(p) = T
  OBVIOUS
<1>. HIDE DEF T
<1>5. Cardinality(T) = n
  BY <1>2, <1>3, FS_Bijection
<1>. QED
  BY <1>4, <1>5

(* record_*: the connection's next record is pushed.                        *)
LEMMA RecordInOrder ==
  ASSUME IInv, NoRepeat, PushedFromFirst, ScriptOrder, NEW p \in Producers, Record(p)
  PROVE  NoRepeat' /\ PushedFromFirst' /\ ScriptOrder'
<1>1. PICK n \in Nat : Pushed(p) = {<<p, k>> : k \in 1..n}
  BY DEF PushedFromFirst
<1>2. PICK t \in Tasks \ Range(added) : added' = Append(added, t)
  BY DEF Record, AddPush
<1>3. added' = Append(added, <<p, n + 1>>)
  BY <1>1, PushedNumber DEF Record
<1>4. added \in Seq(Tasks)
  BY DEF IInv, TypeOK
<1>5. /\ Len(added) \in Nat /\ Len(added') = Len(added) + 1
      /\ \A i \in 1..Len(added) : added'[i] = added[i] /\ added[i] \in Tasks
      /\ added'[Len(added) + 1] = t /\ t = <<p, n + 1>>
      /\ DOMAIN added = 1..Len(added) /\ DOMAIN added' = 1..Len(added')
  <2>1. /\ Len(added) \in Nat /\ Len(added') = Len(added) + 1
        /\ \A i \in 1..Len(added) : added'[i] = added[i] /\ added[i] \in Tasks
        /\ added'[Len(added) + 1] = t
        /\ DOMAIN added = 1..Len(added) /\ DOMAIN added' = 1..Len(added')
    BY <1>2, <1>4
  <2>2. added'[Len(added) + 1] = <<p, n + 1>>
    BY <1>3, <1>4
  <2>. QED
    BY <2>1, <2>2
<1>6. Range(added') = Range(added) \cup {t}
  BY <1>5 DEF Range
<1>7. t[1] = p /\ t[2] = n + 1
  BY <1>5
<1>8. NoRepeat'
  <2>1. ASSUME NEW i \in 1..Len(added') PROVE i \in 1..Len(added) \/ i = Len(added) + 1
    BY <1>5
  <2>2. ASSUME NEW i \in 1..Len(added) PROVE added'[i] # t
    BY <1>2, <1>5 DEF Range
  <2>. QED
    BY <1>5, <2>1, <2>2 DEF NoRepeat
<1>9. PushedFromFirst'
  <2>1. SUFFICES ASSUME NEW q \in Producers
                 PROVE  \E m \in Nat : Pushed(q)' = {<<q, k>> : k \in 1..m}
    BY DEF PushedFromFirst
  <2>2. CASE q = p
    <3>1. Pushed(q)' = Pushed(q) \cup {t}
      BY <1>6, <1>7, <2>2 DEF Pushed
    <3>2. 1..(n + 1) = 1..n \cup {n + 1}
      OBVIOUS
    <3>3. {<<p, k>> : k \in 1..(n + 1)} = {<<p, k>> : k \in 1..n} \cup {<<p, n + 1>>}
      BY <3>2
    <3>4. Pushed(q)' = {<<q, k>> : k \in 1..(n + 1)}
      BY <1>1, <1>5, <2>2, <3>1, <3>3
    <3>. QED
      BY <3>4
  <2>3. CASE q # p
    <3>1. Pushed(q)' = Pushed(q)
      BY <1>6, <1>7, <2>3 DEF Pushed
    <3>2. PICK m \in Nat : Pushed(q) = {<<q, k>> : k \in 1..m}
      BY DEF PushedFromFirst
    <3>. QED
      BY <3>1, <3>2
  <2>. QED
    BY <2>2, <2>3
<1>10. ScriptOrder'
  <2>1. SUFFICES ASSUME NEW i \in 1..Len(added'), NEW u \in Tasks,
                        u[1] = added'[i][1], u[2] < added'[i][2]
                 PROVE  \E h \in 1..(i - 1) : added'[h] = u
    BY DEF ScriptOrder
  <2>2. CASE i \in 1..Len(added)
    <3>1. PICK h \in 1..(i - 1) : added[h] = u
      BY <1>5, <2>1, <2>2 DEF ScriptOrder
    <3>2. h \in 1..Len(added)
      BY <1>5, <2>2
    <3>. QED
      BY <1>5, <3>1, <3>2
  <2>3. CASE i = Len(added) + 1
    <3>1. u[1] = p /\ u[2] < n + 1 /\ u[2] \in Nat \ {0} /\ u = <<u[1], u[2]>>
      BY <1>5, <1>7, <2>1, <2>3, TaskOfScript
    <3>2. u[2] \in 1..n
      BY <3>1
    <3>3. u \in Pushed(p)
      BY <1>1, <3>1, <3>2
    <3>4. PICK h \in 1..Len(added) : added[h] = u
      BY <1>5, <3>3 DEF Pushed, Range
    <3>5. h \in 1..(i - 1)
      BY <1>5, <2>3
    <3>. QED
      BY <1>5, <3>4, <3>5
  <2>. QED
    BY <1>5, <2>1, <2>2, <2>3
<1>. QED
  BY <1>8, <1>9, <1>10

(* A statement of the handler on the one row it names.                      *)
LEMMA ExecuteOne ==
  ASSUME NEW stmts, NEW r \in Rows, NEW s \in stmts, s.row = r,
         \A x \in stmts : x.row = r => x = s
  PROVE  Execute(stmts)[r] = After(rows[r], s.op)
<1>1. (CHOOSE x \in stmts : x.row = r) = s
  OBVIOUS
<1>. QED
  BY <1>1 DEF Execute

(* A row that no statement names stays.                                     *)
LEMMA ExecuteNone ==
  ASSUME NEW stmts, NEW r \in Rows, \A x \in stmts : x.row # r
  PROVE  Execute(stmts)[r] = rows[r]
BY DEF Execute

(* What becomes of the row of a user or an execution when the handler goes  *)
(* through a record u, of which the statements F fail.                      *)
LEMMA HandleCounts ==
  ASSUME ~Monitor, WellRecorded, CountInv, ~early,
         NEW u \in Tasks, task = <<u>>, NEW F \in SUBSET Statements(u),
         handled' = handled \o <<u>>,
         failed' = failed \cup {<<u, s.row>> : s \in F},
         rows' = Execute(Statements(u) \ F),
         NEW r \in Rows, NEW t \in Tasks, NEW v \in Tasks, Makes(t, r), Adds(v, r)
  PROVE  /\ t \notin Range(handled') => rows'[r] = <<>>
         /\ t \in Range(handled') /\ <<t, r>> \notin failed'
              => rows'[r] = <<Cardinality(Done("update", r)')>>
<1>. DEFINE C == Cardinality(Done("update", r))
            stmts == Statements(u) \ F
<1>0. /\ handled \in Seq(Tasks) /\ Range(handled) \subseteq Tasks
      /\ IInv /\ NoRepeat /\ ScriptOrder /\ FailedHandled
  BY DEF CountInv, IInv, TypeOK, Range
<1>1. Range(handled') = Range(handled) \cup {u} /\ u \notin Range(handled)
  <2>1. Range(handled') = Range(handled) \cup {u}
    <3>1. /\ DOMAIN handled = 1..Len(handled) /\ Len(handled) \in Nat
          /\ DOMAIN handled' = 1..(Len(handled) + 1)
          /\ \A i \in 1..Len(handled) : handled'[i] = handled[i]
          /\ handled'[Len(handled) + 1] = u
      BY <1>0
    <3>2. 1..(Len(handled) + 1) = 1..Len(handled) \cup {Len(handled) + 1}
      BY <3>1
    <3>. QED
      BY <3>1, <3>2 DEF Range
  <2>. QED
    BY <1>0, <2>1, HandledInOrder
<1>2. /\ t \notin Range(handled) => rows[r] = <<>>
      /\ t \in Range(handled) /\ <<t, r>> \notin failed => rows[r] = <<C>>
  BY DEF CountInv, RowsRight
<1>3. /\ Creates(t, v) /\ t # v
      /\ \A w \in Tasks : Makes(w, r) => w = t
      /\ \A w \in Tasks : Adds(w, r) => Creates(t, w) /\ t[2] < w[2] /\ t[1] = w[1]
  <2>1. /\ Creates(t, v)
        /\ \A w \in Tasks : Makes(w, r) => Creates(w, v)
        /\ \A w \in Tasks : Adds(w, r) => Creates(t, w) /\ Script[w[1]][w[2]].kind \in {"traffic", "result"}
    BY KeysMatch
  <2>2. \A w \in Tasks : Adds(w, r) => Creates(t, w) /\ t[2] < w[2] /\ t[1] = w[1]
    <3>1. SUFFICES ASSUME NEW w \in Tasks, Adds(w, r) PROVE Creates(t, w) /\ t[2] < w[2] /\ t[1] = w[1]
      OBVIOUS
    <3>2. PICK x \in Tasks : x[2] < w[2] /\ \A y \in Tasks : Creates(y, w) => y = x
      BY <2>1, <3>1 DEF WellRecorded
    <3>3. x = t
      BY <2>1, <3>1, <3>2
    <3>. QED
      BY <2>1, <3>1, <3>2, <3>3 DEF Creates
  <2>3. \A w \in Tasks : Makes(w, r) => w = t
    <3>1. PICK x \in Tasks : \A y \in Tasks : Creates(y, v) => y = x
      BY <2>1, KeysMatch DEF WellRecorded
    <3>. QED
      BY <2>1, <3>1
  <2>4. t # v
    BY KeysMatch
  <2>. QED
    BY <2>1, <2>2, <2>3, <2>4
<1>4. \A w \in Range(handled) : Adds(w, r) => t \in Range(handled)
  BY <1>0, <1>3, HandledInOrder
<1>5. IsFiniteSet(Done("update", r)) /\ C \in Nat
  <2>1. Done("update", r) \subseteq Range(handled)
    BY DEF Done
  <2>. QED
    BY <1>0, <2>1, HandledFinite, FS_Subset, FS_CardinalityType
<1>6. \A w \in Range(handled) : <<w, r>> \in failed' <=> <<w, r>> \in failed
  BY <1>1
<1>7. <<u, r>> \notin failed
  BY <1>0, <1>1 DEF FailedHandled
<1>8. Done("update", r)' = {w \in Range(handled') : <<w, r>> \notin failed' /\ Adds(w, r)}
  BY DEF Done, Adds, Update
<1>9. Done("update", r) = {w \in Range(handled) : <<w, r>> \notin failed /\ Adds(w, r)}
  BY DEF Done, Adds, Update
<1>. DEFINE Goal == /\ t \notin Range(handled') => rows'[r] = <<>>
                    /\ t \in Range(handled') /\ <<t, r>> \notin failed'
                         => rows'[r] = <<Cardinality(Done("update", r)')>>
\* The record that inserts the row.
<1>10. ASSUME u = t PROVE Goal
  <2>1. t \notin Range(handled) /\ t \in Range(handled') /\ rows[r] = <<>>
    BY <1>1, <1>2, <1>10
  <2>2. Insert(r) \in Statements(u) /\ Insert(r).op = "insert" /\ Insert(r).row = r
    BY <1>10 DEF Makes, Insert
  <2>3. \A s \in Statements(u) : s.row = r => s = Insert(r)
    <3>1. ~ Adds(t, r)
      BY KeysMatch
    <3>. QED
      BY <1>10, <3>1, KeysMatch DEF Adds
  <2>4. ASSUME <<t, r>> \notin failed' PROVE rows'[r] = <<Cardinality(Done("update", r)')>>
    <3>1. Insert(r) \notin F
      BY <1>10, <2>2, <2>4
    <3>2. Execute(stmts)[r] = After(rows[r], Insert(r).op)
      <4>1. Insert(r) \in stmts /\ \A x \in stmts : x.row = r => x = Insert(r)
        BY <2>2, <2>3, <3>1
      <4>. HIDE DEF stmts
      <4>. QED
        BY <2>2, <4>1, ExecuteOne
    <3>3. rows'[r] = <<0>>
      <4>1. After(<<>>, "insert") = <<0>>
        BY DEF After
      <4>2. rows'[r] = Execute(stmts)[r]
        OBVIOUS
      <4>. QED
        BY <2>1, <2>2, <3>2, <4>1, <4>2
    <3>4. Done("update", r)' = {}
      <4>1. ~ Adds(u, r)
        BY <1>10, KeysMatch
      <4>. QED
        BY <1>1, <1>4, <1>8, <2>1, <4>1
    <3>. QED
      BY <3>3, <3>4, FS_EmptySet
  <2>. QED
    BY <2>1, <2>4
\* A record that is added to the row.
<1>11. ASSUME u # t, Adds(u, r) PROVE Goal
  <2>1. t \in Range(handled) /\ t \in Range(handled')
    BY <1>0, <1>1, <1>3, <1>11, HandledInOrder
  <2>2. Statements(u) = {Update(r)} /\ Update(r).op = "update" /\ Update(r).row = r
    BY <1>11, KeysMatch DEF Update
  <2>3. ASSUME <<t, r>> \notin failed' PROVE rows'[r] = <<Cardinality(Done("update", r)')>>
    <3>1. rows[r] = <<C>>
      BY <1>2, <1>6, <2>1, <2>3
    <3>2. CASE F = {}
      <4>1. Execute(stmts)[r] = After(rows[r], "update")
        <5>1. Update(r) \in stmts /\ \A x \in stmts : x.row = r => x = Update(r)
          BY <2>2, <3>2
        <5>. HIDE DEF stmts
        <5>. QED
          BY <2>2, <5>1, ExecuteOne
      <4>2. rows'[r] = <<C + 1>>
        <5>. HIDE DEF C
        <5>1. After(<<C>>, "update") = <<C + 1>>
          BY <1>5 DEF After
        <5>. QED
          BY <3>1, <4>1, <5>1
      <4>3. failed' = failed
        BY <3>2
      <4>4. Done("update", r)' = Done("update", r) \cup {u} /\ u \notin Done("update", r)
        BY <1>1, <1>7, <1>8, <1>9, <1>11, <4>3
      <4>5. Cardinality(Done("update", r)') = C + 1
        BY <1>5, <4>4, FS_AddElement
      <4>. QED
        BY <4>2, <4>5
    <3>3. CASE F # {}
      <4>1. F = {Update(r)} /\ stmts = {}
        BY <2>2, <3>3
      <4>2. rows'[r] = rows[r]
        BY <4>1, ExecuteNone
      <4>3. <<u, r>> \in failed'
        BY <2>2, <4>1
      <4>4. Done("update", r)' = Done("update", r)
        BY <1>1, <1>6, <1>8, <1>9, <4>3
      <4>. QED
        BY <3>1, <4>2, <4>4
    <3>. QED
      BY <3>2, <3>3
  <2>. QED
    BY <2>1, <2>3
\* A record with no statement on the row.
<1>12. ASSUME u # t, ~ Adds(u, r) PROVE Goal
  <2>1. \A s \in Statements(u) : s.row # r
    <3>1. ~ Makes(u, r)
      BY <1>3, <1>12
    <3>. QED
      BY <1>12, <3>1, KeysMatch DEF Adds, Makes
  <2>2. rows'[r] = rows[r]
    BY <2>1, ExecuteNone
  <2>3. t \in Range(handled') <=> t \in Range(handled)
    BY <1>1, <1>12
  <2>4. Done("update", r)' = Done("update", r)
    BY <1>1, <1>6, <1>8, <1>9, <1>12
  <2>. QED
    BY <1>2, <1>6, <2>2, <2>3, <2>4
<1>. QED
  BY <1>10, <1>11, <1>12

(* The rows stay right when no record is handled.                           *)
LEMMA RowsStay ==
  ASSUME RowsRight, UNCHANGED <<handled, rows, failed>>, early => early'
  PROVE  RowsRight'
BY DEF RowsRight, Done

(* The handler, with a database and without.                                *)
LEMMA HandleKeepsCounts ==
  ASSUME ~Monitor, WellRecorded, CountInv, Handle \/ Discard
  PROVE  FailedHandled' /\ RowsRight'
<1>1. wpc = "run" /\ handled' = handled \o task /\ early' = early
  BY DEF Handle, Discard, Run, GoTo, dbVars
<1>2. PICK u \in Tasks : task = <<u>>
  <2>1. task \in Seq(Tasks) /\ Len(task) = 1
    BY <1>1 DEF CountInv, DBIInv, DBTypeOK, TypeOK, OneInHand
  <2>2. task[1] \in Tasks /\ task = <<task[1]>>
    BY <2>1
  <2>. QED
    BY <2>2
<1>3. Range(handled) \cup {u} \subseteq Range(handled')
  <2>1. handled \in Seq(Tasks) /\ handled' = handled \o <<u>>
    BY <1>1, <1>2 DEF CountInv, IInv, TypeOK
  <2>2. /\ DOMAIN handled = 1..Len(handled) /\ Len(handled) \in Nat
        /\ DOMAIN handled' = 1..(Len(handled) + 1)
        /\ \A i \in 1..Len(handled) : handled'[i] = handled[i]
        /\ handled'[Len(handled) + 1] = u
    BY <2>1
  <2>. QED
    BY <2>2 DEF Range
<1>4. CASE Handle
  <2>1. PICK F \in SUBSET Statements(u) :
           /\ failed' = failed \cup {<<u, s.row>> : s \in F}
           /\ rows' = Execute(Statements(u) \ F)
    BY <1>2, <1>4 DEF Handle
  <2>2. FailedHandled'
    <3>1. \A s \in F : s.row \in Rows
      BY StatementsOfTask
    <3>. QED
      BY <1>3, <2>1, <3>1 DEF CountInv, FailedHandled
  <2>3. RowsRight'
    <3>1. SUFFICES ASSUME ~early, NEW r \in Rows, NEW t \in Tasks, NEW v \in Tasks,
                          Makes(t, r), Adds(v, r)
                   PROVE  /\ t \notin Range(handled') => rows'[r] = <<>>
                          /\ t \in Range(handled') /\ <<t, r>> \notin failed'
                               => rows'[r] = <<Cardinality(Done("update", r)')>>
      BY <1>1 DEF RowsRight
    <3>2. handled' = handled \o <<u>>
      BY <1>1, <1>2
    <3>. QED
      BY <1>2, <2>1, <3>1, <3>2, HandleCounts
  <2>. QED
    BY <2>2, <2>3
<1>5. CASE Discard
  <2>1. dbBase # "made" /\ failed' = failed /\ init = "done"
    BY <1>1, <1>5 DEF Discard, dbVars, CountInv, DBIInv, AtLoopUntilInit
  <2>2. early'
    BY <1>1, <2>1 DEF CountInv, DBIInv, MadeUnlessEarly
  <2>3. FailedHandled'
    BY <1>3, <2>1 DEF CountInv, FailedHandled
  <2>. QED
    BY <2>2, <2>3 DEF RowsRight
<1>. QED
  BY <1>4, <1>5

(* A step that neither pushes a record nor handles one.                     *)
LEMMA CountsStay ==
  ASSUME CountInv, UNCHANGED <<added, handled, rows, failed>>, early => early', EarlyLoses'
  PROVE  /\ NoRepeat' /\ PushedFromFirst' /\ ScriptOrder'
         /\ FailedHandled' /\ EarlyLoses' /\ RowsRight'
<1>1. RowsRight'
  BY RowsStay DEF CountInv
<1>2. NoRepeat' /\ ScriptOrder' /\ FailedHandled'
  BY DEF CountInv, NoRepeat, ScriptOrder, FailedHandled
<1>3. PushedFromFirst'
  BY DEF CountInv, PushedFromFirst, Pushed
<1>. QED
  BY <1>1, <1>2, <1>3

(* Every step keeps the counts right.                                       *)
LEMMA CountStep ==
  ASSUME ~Monitor, WellRecorded, CountInv, IInv', DBIInv', [DBNext]_allVars
  PROVE  CountInv'
<1>. DEFINE Goal == /\ NoRepeat' /\ PushedFromFirst' /\ ScriptOrder'
                    /\ FailedHandled' /\ EarlyLoses' /\ RowsRight'
<1>1. ASSUME EnterBody \/ ClearDbBase \/ InitChildThread \/ CreateDBObject PROVE Goal
  <2>1. UNCHANGED <<added, handled, rows, failed>>
    BY <1>1 DEF EnterBody, ClearDbBase, InitChildThread, CreateDBObject, vars
  <2>2. (early => early') /\ EarlyLoses'
    <3>. USE DEF EarlyLoses, CountInv, DBIInv, AtLoopUntilInit
    <3>1. CASE EnterBody
      BY <3>1 DEF EnterBody
    <3>2. CASE ClearDbBase
      BY <3>2 DEF ClearDbBase
    <3>3. CASE InitChildThread
      BY <3>3 DEF InitChildThread
    <3>4. CASE CreateDBObject
      BY <3>4 DEF CreateDBObject
    <3>. QED
      BY <1>1, <3>1, <3>2, <3>3, <3>4
  <2>. QED
    BY <2>1, <2>2, CountsStay
<1>2. ASSUME NEW p \in Producers, Record(p) PROVE Goal
  <2>1. NoRepeat' /\ PushedFromFirst' /\ ScriptOrder'
    BY <1>2, RecordInOrder DEF CountInv
  <2>2. UNCHANGED <<handled, dbVars>>
    BY <1>2 DEF Record, AddPush
  <2>3. FailedHandled' /\ EarlyLoses'
    BY <2>2 DEF CountInv, FailedHandled, EarlyLoses, dbVars
  <2>4. RowsRight'
    BY <2>2, RowsStay DEF CountInv, dbVars
  <2>. QED
    BY <2>1, <2>3, <2>4
<1>3. ASSUME Handle \/ Discard PROVE Goal
  <2>1. FailedHandled' /\ RowsRight'
    BY <1>3, HandleKeepsCounts
  <2>2. UNCHANGED <<added, early, ctor, dbBase>>
    BY <1>3 DEF Handle, Discard, Run, dbVars
  <2>3. NoRepeat' /\ ScriptOrder' /\ EarlyLoses'
    BY <2>2 DEF CountInv, NoRepeat, ScriptOrder, EarlyLoses
  <2>4. PushedFromFirst'
    BY <2>2 DEF CountInv, PushedFromFirst, Pushed
  <2>. QED
    BY <2>1, <2>3, <2>4
<1>4. ASSUME UNCHANGED <<added, handled, dbVars>> PROVE Goal
  <2>1. EarlyLoses'
    BY <1>4 DEF CountInv, EarlyLoses, dbVars
  <2>. QED
    BY <1>4, <2>1, CountsStay DEF dbVars
<1>5. ASSUME NEW p \in Producers, RecordSignal(p) PROVE Goal
  BY <1>4, <1>5 DEF RecordSignal, AddSignal
<1>6. ASSUME Loop PROVE Goal
  BY <1>4, <1>6 DEF Loop, TestStop, TestDrained, TestEmpty, Park, Wake, Pop
<1>7. ASSUME RecordStop PROVE Goal
  BY <1>4, <1>7 DEF RecordStop, SetStop, StopSignal
<1>8. ASSUME SpuriousWake /\ UNCHANGED dbVars PROVE Goal
  BY <1>4, <1>8 DEF SpuriousWake
<1>9. ASSUME UNCHANGED allVars PROVE Goal
  BY <1>4, <1>9 DEF allVars, vars
<1>10. Goal
  BY <1>1, <1>2, <1>3, <1>5, <1>6, <1>7, <1>8, <1>9 DEF DBNext, DBThread
<1>. QED
  BY <1>10 DEF CountInv

(* At first nothing is pushed, handled or in a table.                       *)
LEMMA CountInit ==
  ASSUME DBInit
  PROVE  CountInv
<1>1. IInv /\ DBIInv
  BY InitIInv, InitDBIInv DEF DBInit
<1>2. added = <<>> /\ handled = <<>> /\ failed = {} /\ ~early /\ rows = [r \in Rows |-> <<>>]
  BY DEF DBInit, Init
<1>3. Range(added) = {} /\ Range(handled) = {} /\ Len(added) = 0
  BY <1>2 DEF Range
<1>4. NoRepeat /\ ScriptOrder /\ FailedHandled /\ EarlyLoses /\ RowsRight
  BY <1>2, <1>3 DEF NoRepeat, ScriptOrder, FailedHandled, EarlyLoses, RowsRight
<1>5. PushedFromFirst
  <2>1. ASSUME NEW p \in Producers PROVE Pushed(p) = {<<p, k>> : k \in 1..0}
    BY <1>3 DEF Pushed
  <2>. QED
    BY <2>1 DEF PushedFromFirst
<1>. QED
  BY <1>1, <1>4, <1>5 DEF CountInv

(* With a database, what is in the tables is right.                         *)
LEMMA CountsSuffice ==
  ASSUME ~Monitor, WellRecorded, CountInv
  PROVE  UpdatesCounted
<1>1. SUFFICES ASSUME dbBase = "made", init = "done", ctor = "ready",
                      NEW u \in Range(handled), NEW s \in Statements(u), s.op = "update"
               PROVE  \/ \E t \in Tasks : Creates(t, u) /\ \E r \in Rows : <<t, r>> \in failed
                      \/ /\ rows[s.row] # <<>>
                         /\ \A i \in DOMAIN rows[s.row] :
                              rows[s.row][i] = Cardinality(Done("update", s.row))
  BY DEF UpdatesCounted
<1>2. ~early
  BY <1>1 DEF CountInv, EarlyLoses
<1>3. u \in Tasks
  BY DEF CountInv, IInv, TypeOK, Range
<1>4. Adds(u, s.row)
  <2>1. s = Update(s.row)
    <3>1. ASSUME NEW x, s = Update(x) PROVE s = Update(s.row)
      BY <3>1 DEF Update
    <3>. QED
      BY <1>1, <1>3, <3>1, StatementsByKind
  <2>. QED
    BY <2>1 DEF Adds
<1>5. s.row \in Rows /\ Script[u[1]][u[2]].kind \in {"traffic", "result"}
  BY <1>3, <1>4, KeysMatch
<1>6. PICK t \in Tasks : Creates(t, u) /\ t[2] < u[2]
  BY <1>3, <1>5 DEF WellRecorded
<1>7. Makes(t, s.row) /\ t[1] = u[1]
  BY <1>3, <1>4, <1>6, KeysMatch DEF Creates
<1>8. t \in Range(handled)
  BY <1>6, <1>7, HandledInOrder DEF CountInv
<1>9. <<t, s.row>> \notin failed => rows[s.row] = <<Cardinality(Done("update", s.row))>>
  BY <1>2, <1>3, <1>4, <1>5, <1>7, <1>8 DEF CountInv, RowsRight
<1>10. CASE <<t, s.row>> \in failed
  BY <1>5, <1>6, <1>10
<1>11. CASE <<t, s.row>> \notin failed
  <2>. DEFINE c == Cardinality(Done("update", s.row))
  <2>1. rows[s.row] = <<c>>
    BY <1>9, <1>11
  <2>. HIDE DEF c
  <2>2. rows[s.row] # <<>> /\ \A i \in DOMAIN rows[s.row] : rows[s.row][i] = c
    BY <2>1
  <2>. QED
    BY <2>2 DEF c
<1>. QED
  BY <1>10, <1>11

(* In the proxy the rows of users and executions hold exactly the updates   *)
(* recorded for them, for any records that are pushed in the order of       *)
(* WellRecorded and any failing statements.  (record_*, DBManager::start.)  *)
THEOREM UpdatesAreCounted ==
  ASSUME ~Monitor, WellRecorded
  PROVE  DBSpec => []UpdatesCounted
<1>1. DBSpec => []IInv
  BY ImplementsTaskQueue, Inductive, PTL
<1>2. DBInit => CountInv
  BY CountInit
<1>3. CountInv /\ IInv' /\ DBIInv' /\ [DBNext]_allVars => CountInv'
  BY CountStep
<1>4. CountInv => UpdatesCounted
  BY CountsSuffice
<1>. QED
  BY <1>1, <1>2, <1>3, <1>4, DBInductive, PTL DEF DBSpec
=============================================================================
