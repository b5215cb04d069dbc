------------------------------- MODULE Monitor -------------------------------
(***************************************************************************)
(* The traffic monitor: the capture callback deals packets to the monitor  *)
(* threads in turn, a monitor thread routes each to the parser thread of   *)
(* its remote port, and a parser keeps the connections it has seen.  Every *)
(* thread runs the same loop over a list it tests without the lock.  A     *)
(* spurious wake-up is not an action: it leads where a thread is that has  *)
(* not yet made its test.                                                  *)
(*                                                                         *)
(* A packet is its position in captured.  A flow is one direction of a     *)
(* connection: the key of taskDataConnMap holds source and destination as  *)
(* they are in the packet.  The list of local addresses is not empty.      *)
(***************************************************************************)
EXTENDS Integers, Sequences, FiniteSets, Functions

CONSTANTS NMon,         \* monitorThreadNum
          NParse,       \* threadNum
          Conns,        \* connections and datagram exchanges on the wire
          Local,        \* Local[c]: which ends of c have a local address
          Port,         \* Port[c][end]
          Classified,   \* the connections whose port has a plug-in
          Wire,         \* the packets that are captured
          MaxPackets    \* bound: how many of them

Ends == {"client", "server"}
Flows == [conn : Conns, from : Ends]
Other(e) == IF e = "client" THEN "server" ELSE "client"

\* ~MonitorManager steps twice per round through the monitor threads, which
\* leaves the vector if their number is odd.
ASSUME MonitorAssumption ==
    /\ NMon \in Nat \ {0} /\ NMon % 2 = 0 /\ NParse \in Nat \ {0} /\ MaxPackets \in Nat
    /\ IsFiniteSet(Conns) /\ Local \in [Conns -> SUBSET Ends] /\ Port \in [Conns -> [Ends -> Nat]]
    /\ Classified \subseteq Conns
    /\ Wire \subseteq [flow : Flows, kind : {"udp", "ack", "syn", "data", "fin", "datafin"}]

MonThreads == 1..NMon
ParseThreads == (NMon + 1)..(NMon + NParse)
Threads == MonThreads \cup ParseThreads

VARIABLES captured,   \* history: the packets, in the order of the callback
          main,       \* where the thread of the callback is
          queue, pc, stop,   \* per thread: its list, where it is, its flag
          conns,      \* per parser: the flows in taskDataConnMap
          accepts, closes, leaked, \* record's totals; connections never closed
          handled,    \* history: per parser the packets it has handled
          dropped,    \* history: packets no parser is to see
          late,       \* history: packets routed to a parser told to stop
          deleted, touched   \* parsers deleted; monitors that used one later

vars == <<captured, main, queue, pc, stop, conns, accepts, closes,
          leaked, handled, dropped, late, deleted, touched>>
loop == <<queue, pc, stop>>
stats == <<conns, accepts, closes, leaked>>
hist == <<handled, dropped, late>>

Packets == 1..Len(captured)
Flow(n) == captured[n].flow
Kind(n) == captured[n].kind

\* Type invariant of the threads, their lists and the connections.
TypeOK ==
    /\ captured \in Seq(Wire) /\ Len(captured) <= MaxPackets
    /\ main \in {"capturing", "stopping", "joining", "over"}
    /\ pc \in [Threads -> {"loop", "decided", "waiting", "done"}]
    /\ queue \in [Threads -> Seq(Packets)]
    /\ stop \in [Threads -> BOOLEAN] /\ conns \in [ParseThreads -> SUBSET Flows]
    /\ accepts \in Nat /\ closes \in 0..accepts /\ leaked \in 0..accepts
    /\ handled \in [ParseThreads -> Seq(Packets)] /\ dropped \subseteq Packets /\ late \subseteq Packets
    /\ deleted \subseteq ParseThreads /\ touched \subseteq MonThreads

Init ==
    /\ captured = <<>> /\ main = "capturing"
    /\ queue = [t \in Threads |-> <<>>] /\ pc = [t \in Threads |-> "loop"]
    /\ stop = [t \in Threads |-> FALSE]
    /\ conns = [p \in ParseThreads |-> {}] /\ accepts = 0 /\ closes = 0 /\ leaked = 0
    /\ handled = [p \in ParseThreads |-> <<>>] /\ dropped = {} /\ late = {} /\ deleted = {} /\ touched = {}

------------------------------------------------------------------------------
(* The loop of SuperMonitor::start and ParseData::start.                   *)

\* Push under the lock and signal: a thread that waits goes on, another one
\* that has decided to wait does not hear it.
Woken(t) == IF pc[t] = "waiting" THEN "loop" ELSE pc[t]

\* Mutant: the flag ends the loop whatever is in the list.
TestStopFirst(t) ==
    /\ pc[t] = "loop" /\ (queue[t] = <<>> \/ stop[t])
    /\ pc' = [pc EXCEPT ![t] = IF stop[t] THEN "done" ELSE "decided"]
    /\ UNCHANGED <<captured, main, queue, stop, stats, hist, deleted, touched>>

\* The loop's tests, unlocked, that find the list empty.
TestEmpty(t) ==
    /\ pc[t] = "loop" /\ queue[t] = <<>>
    /\ pc' = [pc EXCEPT ![t] = IF stop[t] THEN "done" ELSE "decided"]
    /\ UNCHANGED <<captured, main, queue, stop, stats, hist, deleted, touched>>

Park(t) ==
    /\ pc[t] = "decided"
    /\ pc' = [pc EXCEPT ![t] = "waiting"]
    /\ UNCHANGED <<captured, main, queue, stop, stats, hist, deleted, touched>>

------------------------------------------------------------------------------
(* The capture callback and the end.                                       *)

\* MonitorManager::monitorData: the static index goes round the threads.  At
\* its end it may find m_stop, which handle_signal sets at any time and nothing
\* else reads: without another packet no stop is noticed.
Mon(n) == ((n - 1) % NMon) + 1
Capture(pkt) ==
    /\ main = "capturing" /\ Len(captured) < MaxPackets
    /\ captured' = Append(captured, pkt)
    /\ LET n == Len(captured) + 1 IN
           /\ queue' = [queue EXCEPT ![Mon(n)] = Append(@, n)]
           /\ pc' = [pc EXCEPT ![Mon(n)] = Woken(Mon(n))]
    /\ main' \in {"capturing", "stopping"}
    /\ UNCHANGED <<stop, stats, hist, deleted, touched>>

\* stop_childThread, one set_stop after the other: the monitors, the parsers.
StopThread(t) ==
    /\ main = "stopping" /\ ~stop[t] /\ \A u \in 1..(t - 1) : stop[u]
    /\ stop' = [stop EXCEPT ![t] = TRUE]
    /\ pc' = [pc EXCEPT ![t] = Woken(t)]
    /\ main' = IF t = NMon + NParse THEN "joining" ELSE main
    /\ UNCHANGED <<captured, queue, stats, hist, deleted, touched>>

\* Mutant: no monitor is joined.
JoinNone == {}
\* ~MonitorManager increments its iterator twice per round.
Joined == {m \in MonThreads : m % 2 = 1}

\* The parsers are joined and deleted in turn, after the joined monitors.
DeleteParser(p) ==
    /\ main = "joining" /\ \A m \in Joined : pc[m] = "done"
    /\ p \notin deleted /\ \A q \in (NMon + 1)..(p - 1) : q \in deleted
    /\ pc[p] = "done"
    /\ deleted' = deleted \cup {p}
    /\ main' = IF p = NMon + NParse THEN "over" ELSE main
    /\ UNCHANGED <<captured, loop, stats, hist, touched>>

------------------------------------------------------------------------------
(* SuperMonitor::handle_task.  A packet that is popped and not yet routed is *)
(* as good as one in the list of its only reader, so the pop is part of it. *)

\* Mutant: by the port of the source, whichever end is local.
SourcePort(f) == Port[f.conn][f.from]
\* The remote port, or, if both ends are local, the destination's.
RoutePort(f) ==
    LET c == f.conn IN
    IF f.from \in Local[c] THEN Port[c][Other(f.from)] ELSE Port[c][f.from]
Parser(f) == NMon + 1 + (RoutePort(f) % NParse)

\* What has no flag but ACK, data or not, and packets between foreign hosts go
\* no further.
Dropped(n) == Kind(n) = "ack" \/ Local[Flow(n).conn] = {}

Dispatch(m) ==
    /\ m \in MonThreads /\ pc[m] = "loop" /\ queue[m] # <<>>
    /\ LET n == Head(queue[m])  p == Parser(Flow(n)) IN
       CASE Dropped(n) ->
               /\ dropped' = dropped \cup {n}
               /\ queue' = [queue EXCEPT ![m] = Tail(@)]
               /\ UNCHANGED <<pc, late, touched>>
         [] ~Dropped(n) /\ p \in deleted ->   \* undefined; the packet is lost
               /\ touched' = touched \cup {m} /\ late' = late \cup {n}
               /\ queue' = [queue EXCEPT ![m] = Tail(@)]
               /\ UNCHANGED <<pc, dropped>>
         [] OTHER ->
               /\ queue' = [queue EXCEPT ![m] = Tail(@), ![p] = Append(@, n)]
               /\ pc' = [pc EXCEPT ![p] = Woken(p)]
               /\ late' = IF stop[p] THEN late \cup {n} ELSE late
               /\ UNCHANGED <<dropped, touched>>
    /\ UNCHANGED <<captured, main, stop, stats, handled, deleted>>

------------------------------------------------------------------------------
(* ParseData::handle_protocolData.                                         *)

\* Mutant: also one that is not known.
FinishedAnyway(p, f) ==
    /\ conns' = [conns EXCEPT ![p] = @ \ {f}] /\ closes' = closes + 1
    /\ UNCHANGED <<accepts, leaked>>
\* A FIN without data ends a connection that is known.
Finished(p, f) ==
    IF f \in conns[p]
    THEN /\ conns' = [conns EXCEPT ![p] = @ \ {f}] /\ closes' = closes + 1
         /\ UNCHANGED <<accepts, leaked>>
    ELSE UNCHANGED stats

\* Mutant: the FIN that carries data leaves the entry in the map.
DataKeepsEntry(p, f, k) ==
    /\ accepts' = IF f \in conns[p] THEN accepts ELSE accepts + 1
    /\ IF f.conn \notin Classified
       THEN leaked' = leaked + 1 /\ UNCHANGED <<conns, closes>>
       ELSE /\ conns' = [conns EXCEPT ![p] = IF k = "udp" THEN @ ELSE @ \cup {f}]
            /\ closes' = IF k = "data" THEN closes ELSE closes + 1
            /\ UNCHANGED leaked
\* Data: a first packet makes a connection; without a plug-in it is freed at
\* once, and the totals keep it; a datagram, or the data of a FIN, is its end.
Data(p, f, k) ==
    /\ accepts' = IF f \in conns[p] THEN accepts ELSE accepts + 1
    /\ IF f.conn \notin Classified
       THEN leaked' = leaked + 1 /\ UNCHANGED <<conns, closes>>
       ELSE /\ conns' = [conns EXCEPT ![p] = IF k = "data" THEN @ \cup {f} ELSE @ \ {f}]
            /\ closes' = IF k = "data" THEN closes ELSE closes + 1
            /\ UNCHANGED leaked

HandleTaskData(p) ==
    /\ p \in ParseThreads /\ pc[p] = "loop" /\ queue[p] # <<>>
    /\ LET n == Head(queue[p]) IN
       /\ CASE Kind(n) = "fin" -> Finished(p, Flow(n))
            [] Kind(n) = "syn" -> UNCHANGED stats
            [] OTHER -> Data(p, Flow(n), Kind(n))
       /\ handled' = [handled EXCEPT ![p] = Append(@, n)]
    /\ queue' = [queue EXCEPT ![p] = Tail(@)]
    /\ UNCHANGED <<captured, main, pc, stop, dropped, late, deleted, touched>>

ThreadStep(t) == TestEmpty(t) \/ Park(t) \/ Dispatch(t) \/ HandleTaskData(t)
MainStep == (\E t \in Threads : StopThread(t)) \/ (\E p \in ParseThreads : DeleteParser(p))

Next == \/ \E pkt \in Wire : Capture(pkt)
        \/ MainStep
        \/ \E t \in Threads : ThreadStep(t)

Spec == Init /\ [][Next]_vars

------------------------------------------------------------------------------
(* Properties.                                                             *)

\* Two packets of one connection that went through the same monitor thread
\* reach the plug-in in the order they were captured, whichever direction they
\* go, unless both ends are local and the two directions have two parsers.
OrderWithinThread ==
    \A p, q \in ParseThreads : \A i \in DOMAIN handled[p], j \in DOMAIN handled[q] :
        LET a == handled[p][i]  b == handled[q][j] IN
        (Flow(a).conn = Flow(b).conn /\ Local[Flow(a).conn] # Ends /\ Mon(a) = Mon(b))
            => p = q /\ (i < j <=> a < b)

\* A flow that is in a map although its FIN was handled has had data that was
\* captured later, or that overtook the FIN or was overtaken by it between two
\* monitor threads: a closed connection does not come back otherwise.
ClosedStaysClosed ==
    \A p \in ParseThreads : \A f \in conns[p] : \A i \in DOMAIN handled[p] :
        LET a == handled[p][i] IN
        (Flow(a) = f /\ Kind(a) \in {"fin", "datafin"}) =>
            \E j \in DOMAIN handled[p] :
                LET b == handled[p][j] IN
                Flow(b) = f /\ Kind(b) = "data" /\ j > i /\ (b > a \/ Mon(b) # Mon(a))

\* The totals: accepted less closed is what the maps hold and what had no
\* plug-in, which is never reported as closed.
TotalsMatchMaps ==
    accepts - closes = leaked + Cardinality({x \in ParseThreads \X Flows : x[2] \in conns[x[1]]})

\* A connection that was closed is closed in the map and in the totals.
\* (handle_protocolData: remove and record_closeClientConn.)
ClosedForGood == ClosedStaysClosed /\ TotalsMatchMaps

\* A captured packet has been parsed or dropped, or is in the list of a thread
\* that still runs, or reached a parser only after that was told to stop.
NothingLost ==
    \A n \in Packets :
        \/ n \in dropped \cup late \cup UNION {Range(handled[p]) : p \in ParseThreads}
        \/ \E t \in Threads : n \in Range(queue[t]) /\ pc[t] # "done"

\* Only a monitor thread that the destructor skips, every second one, routes to
\* a parser that has been deleted.
JoinedNeverTouches == touched \subseteq {m \in MonThreads : m % 2 = 0}
=============================================================================
