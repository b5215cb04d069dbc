------------------------------- MODULE StatsDB --------------------------------
(***************************************************************************)
(* The statistics database: DBManager, which is the task queue of module   *)
(* TaskQueue with a handler that writes to SQLite, and the record_* calls  *)
(* that feed it (stats/record.cpp).                                        *)
(*                                                                         *)
(* A producer is a client connection: the accept thread and then a client  *)
(* thread push its records, one after the other.  What a connection pushes *)
(* is its script.  Text, sizes and times of a record are left out: a row   *)
(* is its table and its key, and its value is the number of updates that   *)
(* were added to it.  Any SQL statement may fail (MaxFails of them do),    *)
(* also because the file cannot be opened; the handler ignores that.       *)
(*                                                                         *)
(* The worker is started by the constructor of the base class, so it runs  *)
(* while DBManager is still being built.                                   *)
(***************************************************************************)
EXTENDS TaskQueue, Integers, FiniteSets

CONSTANTS
  Script,    \* for each producer, what it records, in order
  TablesOf,  \* for each SQL text, the tables that the parser found in it
  Monitor,   \* TRUE for the traffic monitor, FALSE for the proxy
  MaxFails   \* bound on the SQL statements that fail

Kinds == {"client", "traffic", "exec", "addsql", "result", "trans"}
Jobs == [kind : Kinds, sql : DOMAIN TablesOf, at : Nat]

ASSUME StatsDBAssumption ==
  /\ Script \in [Producers -> Seq(Jobs)]
  /\ Tasks = UNION {{<<p, i>> : i \in DOMAIN Script[p]} : p \in Producers}
  /\ Monitor \in BOOLEAN
  /\ MaxFails \in Nat

VARIABLES
  ctor,    \* how far the constructor of DBManager is: base, body or ready
  init,    \* the worker in init_childThread: call, store or done
  dbBase,  \* the database object: garbage (not NULL), null or made
  early,   \* history: init_childThread had returned before ctor was ready
  rows,    \* for each table and key, the rows it has: updates added to each
  failed   \* history: the statements that failed, as <<task, row>>

dbVars == <<ctor, init, dbBase, early, rows, failed>>
allVars == <<vars, dbVars>>

-----------------------------------------------------------------------------
(* What the handler does for a task: DBManager::start.                      *)

Insert(r) == [op |-> "insert", row |-> r]
\* Inserted after a select that finds no such row.
InsertNew(r) == [op |-> "insertNew", row |-> r]
\* Added to every row with the key, none if there is none.
Update(r) == [op |-> "update", row |-> r]

(***************************************************************************)
(* The key of a client's row: the proxy passes the connection's hash code, *)
(* the monitor passes the time of the connection.                          *)
(***************************************************************************)
ClientKey == IF Monitor THEN "createConnTime" ELSE "connHashCode"

\* An execution is known by the hash of its time, connection and SQL text.
ExecRow(p, j) == <<"sql_exec", p, j.sql, j.at>>
UserRow(p, key) == <<"user", p, key>>
TransRow(p, j) == <<"transinfo", p, j.sql>>

SaveTable(sql) ==
  {InsertNew(<<"sqltable", b>>) : b \in TablesOf[sql]}
    \cup {InsertNew(<<"sql_table_rel", sql, b>>) : b \in TablesOf[sql]}

Statements(t) ==
  LET p == t[1]
      j == Script[p][t[2]]
  IN  CASE j.kind = "client"  -> {Insert(UserRow(p, ClientKey))}
        [] j.kind = "traffic" -> {Update(UserRow(p, "connHashCode"))}
        [] j.kind = "addsql"  -> {Insert(<<"user_sql_rel", p, j.sql, j.at>>)}
        [] j.kind = "exec"    -> {Insert(ExecRow(p, j)), InsertNew(<<"sql", j.sql>>)}
                                   \cup SaveTable(j.sql)
        [] j.kind = "result"  -> {Update(ExecRow(p, j))}
        [] j.kind = "trans"   -> {Insert(TransRow(p, j)),
                                  InsertNew(<<"trans_sql_rel", j.sql, j.sql>>)}

Rows == {s.row : s \in UNION {Statements(t) : t \in Tasks}}

\* Mutant: an update subtracts what it should add.
AfterSwapped(counts, op) ==
  CASE op = "insert"    -> Append(counts, 0)
    [] op = "insertNew" -> IF counts = <<>> THEN <<0>> ELSE counts
    [] op = "update"    -> [i \in DOMAIN counts |-> counts[i] - 1]

\* The rows of one key after a statement on it.
After(counts, op) ==
  CASE op = "insert"    -> Append(counts, 0)
    [] op = "insertNew" -> IF counts = <<>> THEN <<0>> ELSE counts
    [] op = "update"    -> [i \in DOMAIN counts |-> counts[i] + 1]

\* The statements of one task name different rows: their order is immaterial.
Execute(stmts) ==
  [r \in Rows |->
     IF \E s \in stmts : s.row = r
     THEN After(rows[r], (CHOOSE s \in stmts : s.row = r).op)
     ELSE rows[r]]
-----------------------------------------------------------------------------
DBInit ==
  /\ Init
  /\ ctor = "base"
  /\ init = "call"
  /\ dbBase \in {"garbage", "null"}
  /\ early = FALSE
  /\ rows = [r \in Rows |-> <<>>]
  /\ failed = {}

(* DBManager::DBManager, after its base class has started the worker.       *)

EnterBody ==
  /\ ctor = "base"
  /\ ctor' = "body"
  /\ UNCHANGED <<vars, init, dbBase, early, rows, failed>>

ClearDbBase ==
  /\ ctor = "body"
  /\ ctor' = "ready"
  /\ dbBase' = "null"
  /\ UNCHANGED <<vars, init, early, rows, failed>>

(***************************************************************************)
(* The worker calls the virtual init_childThread: that of ThreadTask, which *)
(* does nothing, as long as the base class is being constructed.           *)
(***************************************************************************)
InitChildThread ==
  /\ init = "call"
  /\ init' = IF ctor # "base" /\ dbBase = "null" THEN "store" ELSE "done"
  /\ early' = (init' = "done" /\ ctor # "ready")
  /\ UNCHANGED <<vars, ctor, dbBase, rows, failed>>

CreateDBObject ==
  /\ init = "store"
  /\ init' = "done"
  /\ dbBase' = "made"
  /\ early' = (ctor # "ready")
  /\ UNCHANGED <<vars, ctor, rows, failed>>

(* record_*: each call pushes the connection's next record.                 *)

Pushed(p) == {t \in Range(added) : t[1] = p}

\* Mutant: the client is handed over before its own record is made.
RecordHandedOver(p) ==
  /\ ctor = "ready"
  /\ AddPush(p)
  /\ LET n == Cardinality(Pushed(p)) + 1
     IN  added' = Append(added, <<p, IF n = 1 THEN 2 ELSE IF n = 2 THEN 1 ELSE n>>)
  /\ UNCHANGED dbVars

Record(p) ==
  /\ ctor = "ready"
  /\ AddPush(p)
  /\ added' = Append(added, <<p, Cardinality(Pushed(p)) + 1>>)
  /\ UNCHANGED dbVars

RecordSignal(p) == AddSignal(p) /\ UNCHANGED dbVars

\* Mutant: a statement that fails ends the handling of its task.
HandleUntilFailure ==
  /\ Run
  /\ dbBase = "made"
  /\ \E F \in SUBSET Statements(task[1]) :
       /\ failed' = failed \cup {<<task[1], s.row>> : s \in F}
       /\ Cardinality(failed') <= MaxFails
       /\ rows' = IF F = {} THEN Execute(Statements(task[1])) ELSE rows
  /\ UNCHANGED <<ctor, init, dbBase, early>>

\* DBManager::start with a database: each statement succeeds or fails.
Handle ==
  /\ Run
  /\ dbBase = "made"
  /\ \E F \in SUBSET Statements(task[1]) :
       /\ failed' = failed \cup {<<task[1], s.row>> : s \in F}
       /\ Cardinality(failed') <= MaxFails
       /\ rows' = Execute(Statements(task[1]) \ F)
  /\ UNCHANGED <<ctor, init, dbBase, early>>

\* Without one the record is freed.
Discard ==
  /\ Run
  /\ dbBase # "made"
  /\ UNCHANGED dbVars

Loop ==
  /\ init = "done"
  /\ TestStop \/ TestDrained \/ TestEmpty \/ Park \/ Wake \/ Pop
  /\ UNCHANGED dbVars

RecordStop ==
  /\ ctor = "ready"
  /\ SetStop \/ StopSignal
  /\ UNCHANGED dbVars

DBThread == InitChildThread \/ CreateDBObject \/ Loop \/ Handle \/ Discard

DBNext ==
  \/ EnterBody
  \/ ClearDbBase
  \/ \E p \in Producers : Record(p) \/ RecordSignal(p)
  \/ RecordStop
  \/ DBThread
  \/ SpuriousWake /\ UNCHANGED dbVars

DBSpec == DBInit /\ [][DBNext]_allVars

(* As in TaskQueue: threads are scheduled; no record or stop is promised.   *)
DBFairSpec ==
  /\ DBSpec
  /\ WF_allVars(DBThread)
  /\ \A p \in Producers : WF_allVars(RecordSignal(p))
  /\ WF_allVars(StopSignal /\ UNCHANGED dbVars)
-----------------------------------------------------------------------------
(* Type invariant of the worker, the database thread and its tables. *)
DBTypeOK ==
  /\ TypeOK
  /\ ctor \in {"base", "body", "ready"}
  /\ init \in {"call", "store", "done"}
  /\ dbBase \in {"garbage", "null", "made"}
  /\ early \in BOOLEAN
  /\ rows \in [Rows -> Seq(Nat)]
  /\ failed \subseteq Tasks \X Rows

Done(op, r) ==
  {t \in Range(handled) : <<t, r>> \notin failed /\ [op |-> op, row |-> r] \in Statements(t)}

(* The record whose insertion a row of users or executions comes from.      *)
Creates(t, u) ==
  LET j == Script[t[1]][t[2]]
      k == Script[u[1]][u[2]]
  IN  t[1] = u[1] /\ \/ j.kind = "client" /\ k.kind = "traffic"
                     \/ j.kind = "exec" /\ k.kind = "result" /\ j.sql = k.sql /\ j.at = k.at

\* A connection is recorded before its traffic (record_clientQueryAddNewClient), an
\* execution before its result (record_sqlInfoAddSql), and no two have one key.
WellRecorded ==
  \A u \in Tasks : Script[u[1]][u[2]].kind \in {"traffic", "result"} =>
    \E t \in Tasks : /\ Creates(t, u) /\ t[2] < u[2]
                     /\ \A v \in Tasks : Creates(v, u) => v = t

(* With a database, the rows of a user or an execution hold exactly the     *)
(* updates recorded for it, each once, and an update misses its row only    *)
(* if that row's own insertion failed.  (DBManager::start ignores failures  *)
(* and nothing but the order of the queue puts the row there first.)        *)
UpdatesCounted ==
  dbBase = "made" /\ init = "done" /\ ctor = "ready" =>
    \A u \in Range(handled) : \A s \in Statements(u) :
      s.op = "update" =>
        \/ \E t \in Tasks : Creates(t, u) /\ \E r \in Rows : <<t, r>> \in failed
        \/ /\ rows[s.row] # <<>>
           /\ \A i \in DOMAIN rows[s.row] :
                rows[s.row][i] = Cardinality(Done("update", s.row))

(* A record that was handled is in its tables, except for the statements    *)
(* that failed; only a worker whose init_childThread returned before the    *)
(* constructor was ready saves nothing at all.  (DBManager::DBManager.)     *)
SavedUnlessBornEarly ==
  \A t \in Range(handled) : \A s \in Statements(t) :
    s.op # "update" /\ <<t, s.row>> \notin failed => rows[s.row] # <<>> \/ early
=============================================================================
