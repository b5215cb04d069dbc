------------------------------ MODULE MCStatsDB -------------------------------
(* Two connections that run the same SQL text.  The first goes from its     *)
(* arrival to a result; the second ends a transaction, and its arrival is   *)
(* left out: it would repeat the first one's.  The time of an execution is  *)
(* the tick in its hash.                                                    *)
EXTENDS StatsDB

CONSTANTS c1, c2

Job(kind, at) == [kind |-> kind, sql |-> "select", at |-> at]

Query == <<Job("client", 0), Job("traffic", 0), Job("exec", 1), Job("result", 1)>>
Transaction == <<Job("exec", 2), Job("addsql", 2), Job("trans", 2)>>

MCProducers == {c1, c2}
MCScript == [p \in MCProducers |-> IF p = c1 THEN Query ELSE Transaction]
MCTasks == UNION {{<<p, i>> : i \in DOMAIN MCScript[p]} : p \in MCProducers}
MCTablesOf == [sql \in {"select"} |-> {"orders"}]

\* The records of both are in the order in which UpdatesCounted is proved.
ASSUME MCStatsDBAssumption == WellRecorded
=============================================================================
