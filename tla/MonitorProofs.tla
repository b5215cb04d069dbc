---------------------------- MODULE MonitorProofs ----------------------------
(***************************************************************************)
(* Proofs about the traffic monitor, for any packets on the wire, any      *)
(* number of parser threads and any even number of monitor threads.        *)
(***************************************************************************)
EXTENDS Monitor, FiniteSetTheorems, SequenceTheorems, TLAPS

\* The packets that have reached a parser, in the order in which they did.
Trace(p) == handled[p] \o queue[p]

\* A thread ends only when told to, which begins after the capture.
FlagsOK ==
  /\ main = "capturing" => \A t \in Threads : ~stop[t]
  /\ \A t \in Threads : pc[t] = "done" => stop[t]

\* The list of a monitor thread has packets dealt to it, in their order.
DealtOK ==
  \A m \in MonThreads : \A i, j \in 1..Len(queue[m]) :
    /\ Mon(queue[m][i]) = m
    /\ i < j => queue[m][i] < queue[m][j]

\* A parser gets the packets routed to it, those of one monitor thread in order.
RoutedOK ==
  \A p \in ParseThreads : \A i, j \in 1..Len(Trace(p)) :
    /\ ~Dropped(Trace(p)[i]) /\ Parser(Flow(Trace(p)[i])) = p
    /\ i < j /\ Mon(Trace(p)[i]) = Mon(Trace(p)[j]) => Trace(p)[i] < Trace(p)[j]

\* What a monitor thread has routed is older than what is in its list.
AheadOK ==
  \A p \in ParseThreads, m \in MonThreads :
    \A i \in 1..Len(Trace(p)), j \in 1..Len(queue[m]) :
      Mon(Trace(p)[i]) = m => Trace(p)[i] < queue[m][j]

\* Parsers are deleted after the joined monitor threads have ended.
JoinOK ==
  /\ deleted # {} => \A m \in Joined : pc[m] = "done"
  /\ JoinedNeverTouches

\* Only connections with a plug-in are kept.
MapsOK == \A p \in ParseThreads : \A f \in conns[p] : f.conn \in Classified

Inv ==
  /\ TypeOK /\ FlagsOK /\ NothingLost /\ JoinOK
  /\ DealtOK /\ RoutedOK /\ AheadOK
  /\ MapsOK /\ ClosedForGood
-----------------------------------------------------------------------------
(* Lists.                                                                   *)

(* The head of a list, and what is left of it.                              *)
LEMMA TailLemma ==
  ASSUME NEW S, NEW q \in Seq(S), q # <<>>
  PROVE  /\ Head(q) = q[1] /\ Head(q) \in S /\ Tail(q) \in Seq(S) /\ Len(q) \in Nat
         /\ Len(Tail(q)) = Len(q) - 1 /\ Len(q) >= 1
         /\ \A i \in 1..Len(Tail(q)) : Tail(q)[i] = q[i + 1] /\ i + 1 \in 1..Len(q)
         /\ Range(q) = Range(Tail(q)) \cup {Head(q)}
<1>1. /\ Head(q) = q[1] /\ Head(q) \in S /\ Tail(q) \in Seq(S)
      /\ Len(Tail(q)) = Len(q) - 1 /\ Len(q) >= 1 /\ Len(q) \in Nat
      /\ \A i \in 1..Len(Tail(q)) : Tail(q)[i] = q[i + 1] /\ i + 1 \in 1..Len(q)
  BY HeadTailProperties
<1>2. DOMAIN q = 1..Len(q) /\ DOMAIN Tail(q) = 1..Len(Tail(q))
  BY <1>1
<1>3. \A i \in 1..Len(q) : i = 1 \/ (i - 1 \in 1..Len(Tail(q)) /\ Tail(q)[i - 1] = q[i])
  BY <1>1
<1>4. 1 \in 1..Len(q)
  BY <1>1
<1>5. Range(q) \subseteq Range(Tail(q)) \cup {Head(q)}
  <2>1. ASSUME NEW i \in 1..Len(q) PROVE q[i] = Head(q) \/ q[i] \in Range(Tail(q))
    BY <1>1, <1>2, <1>3 DEF Range
  <2>. QED
    BY <1>2, <2>1 DEF Range
<1>6. Range(Tail(q)) \cup {Head(q)} \subseteq Range(q)
  BY <1>1, <1>2, <1>4 DEF Range
<1>. QED
  BY <1>1, <1>5, <1>6

(* A list and one element more.                                             *)
LEMMA AppendLemma ==
  ASSUME NEW S, NEW q \in Seq(S), NEW n \in S
  PROVE  /\ Append(q, n) \in Seq(S) /\ Len(Append(q, n)) = Len(q) + 1 /\ Len(q) \in Nat
         /\ \A i \in 1..Len(q) : Append(q, n)[i] = q[i]
         /\ Append(q, n)[Len(q) + 1] = n
         /\ \A i \in 1..Len(Append(q, n)) : i \in 1..Len(q) \/ i = Len(q) + 1
         /\ Range(Append(q, n)) = Range(q) \cup {n}
<1>. DEFINE r == Append(q, n)
<1>1. /\ r \in Seq(S) /\ Len(r) = Len(q) + 1 /\ Len(q) \in Nat
      /\ \A i \in 1..Len(q) : r[i] = q[i]
      /\ r[Len(q) + 1] = n
  OBVIOUS
<1>. HIDE DEF r
<1>2. DOMAIN q = 1..Len(q) /\ DOMAIN r = 1..Len(r) /\ 1..Len(r) = 1..Len(q) \cup {Len(q) + 1}
  BY <1>1
<1>3. Range(r) = Range(q) \cup {n}
  BY <1>1, <1>2 DEF Range
<1>. QED
  BY <1>1, <1>2, <1>3 DEF r

(* A packet that is pushed makes the trace longer at its end.               *)
LEMMA TracePush ==
  ASSUME NEW S, NEW h \in Seq(S), NEW q \in Seq(S), NEW n \in S
  PROVE  h \o Append(q, n) = Append(h \o q, n)
<1>1. <<n>> \in Seq(S) /\ Append(q, n) = q \o <<n>>
  BY AppendIsConcat
<1>2. h \o (q \o <<n>>) = (h \o q) \o <<n>>
  BY <1>1, ConcatAssociative
<1>3. h \o q \in Seq(S)
  BY ConcatProperties
<1>4. Append(h \o q, n) = (h \o q) \o <<n>>
  BY <1>3, AppendIsConcat
<1>. QED
  BY <1>1, <1>2, <1>4

(* A packet that is handled leaves the trace as it is.                      *)
LEMMA TraceHandle ==
  ASSUME NEW S, NEW h \in Seq(S), NEW q \in Seq(S), q # <<>>
  PROVE  Append(h, Head(q)) \o Tail(q) = h \o q
<1>1. q = <<Head(q)>> \o Tail(q) /\ Head(q) \in S /\ Tail(q) \in Seq(S)
  BY HeadTailProperties
<1>2. <<Head(q)>> \in Seq(S)
  BY <1>1
<1>3. Append(h, Head(q)) = h \o <<Head(q)>>
  BY <1>1, AppendIsConcat
<1>4. (h \o <<Head(q)>>) \o Tail(q) = h \o (<<Head(q)>> \o Tail(q))
  BY <1>1, <1>2, ConcatAssociative
<1>. QED
  BY <1>1, <1>3, <1>4

(* Where the packets of the trace are.                                      *)
LEMMA TraceLemma ==
  ASSUME NEW S, NEW h \in Seq(S), NEW q \in Seq(S)
  PROVE  /\ h \o q \in Seq(S)
         /\ Len(h \o q) = Len(h) + Len(q) /\ Len(h) \in Nat /\ Len(q) \in Nat
         /\ \A i \in 1..Len(h) : (h \o q)[i] = h[i]
         /\ q # <<>> => Len(h) + 1 \in 1..Len(h \o q) /\ (h \o q)[Len(h) + 1] = Head(q)
<1>1. /\ h \o q \in Seq(S)
      /\ Len(h \o q) = Len(h) + Len(q) /\ Len(h) \in Nat /\ Len(q) \in Nat
      /\ \A i \in 1..(Len(h) + Len(q)) :
           (h \o q)[i] = IF i <= Len(h) THEN h[i] ELSE q[i - Len(h)]
  BY ConcatProperties
<1>2. ASSUME q # <<>> PROVE Len(h) + 1 \in 1..Len(h \o q) /\ (h \o q)[Len(h) + 1] = Head(q)
  <2>1. Len(q) >= 1 /\ Head(q) = q[1]
    BY <1>2, TailLemma
  <2>. QED
    BY <1>1, <2>1
<1>. QED
  BY <1>1, <1>2

(* A list of packets is one of the packets there are later.                 *)
LEMMA SeqGrow ==
  ASSUME NEW S, NEW T, S \subseteq T, NEW q \in Seq(S)
  PROVE  q \in Seq(T)
<1>1. q \in [1..Len(q) -> T] /\ Len(q) \in Nat
  OBVIOUS
<1>. QED
  BY <1>1
-----------------------------------------------------------------------------
(* Threads, packets and routes.                                             *)

(* Monitor and parser threads are different threads, and what they deal and *)
(* route reaches one of them.                                               *)
LEMMA ThreadsLemma ==
  /\ NMon \in Nat \ {0} /\ NParse \in Nat \ {0} /\ MaxPackets \in Nat
  /\ MonThreads \subseteq Threads /\ ParseThreads \subseteq Threads
  /\ \A t \in Threads : t \in Nat /\ (t \in MonThreads <=> t \notin ParseThreads)
  /\ \A n \in Nat \ {0} : Mon(n) \in MonThreads
  /\ \A f \in Flows : Parser(f) \in ParseThreads
<1>1. NMon \in Nat \ {0} /\ NParse \in Nat \ {0} /\ MaxPackets \in Nat
  BY MonitorAssumption
<1>2. ASSUME NEW n \in Nat \ {0} PROVE Mon(n) \in MonThreads
  <2>1. n - 1 \in Int /\ (n - 1) % NMon \in 0..(NMon - 1)
    BY <1>1
  <2>. QED
    BY <1>1, <2>1 DEF Mon, MonThreads
<1>3. ASSUME NEW f \in Flows PROVE Parser(f) \in ParseThreads
  <2>1. f.conn \in Conns /\ f.from \in Ends /\ Other(f.from) \in Ends
    BY DEF Flows, Ends, Other
  <2>2. RoutePort(f) \in Nat
    BY <2>1, MonitorAssumption DEF RoutePort
  <2>3. RoutePort(f) % NParse \in 0..(NParse - 1)
    BY <1>1, <2>2
  <2>. QED
    BY <1>1, <2>3 DEF Parser, ParseThreads
<1>. QED
  BY <1>1, <1>2, <1>3 DEF Threads, MonThreads, ParseThreads

(* A captured packet has a flow and a kind.                                 *)
LEMMA PacketsLemma ==
  ASSUME TypeOK
  PROVE  /\ Len(captured) \in Nat
         /\ \A n \in Packets : /\ n \in Nat \ {0} /\ captured[n] \in Wire
                               /\ Flow(n) \in Flows
                               /\ Kind(n) \in {"udp", "ack", "syn", "data", "fin", "datafin"}
<1>1. captured \in Seq(Wire) /\ Len(captured) \in Nat
  BY DEF TypeOK
<1>2. ASSUME NEW n \in Packets
      PROVE  /\ n \in Nat \ {0} /\ captured[n] \in Wire
             /\ Flow(n) \in Flows
             /\ Kind(n) \in {"udp", "ack", "syn", "data", "fin", "datafin"}
  <2>1. n \in Nat \ {0} /\ captured[n] \in Wire
    BY <1>1 DEF Packets
  <2>. QED
    BY <2>1, MonitorAssumption DEF Flow, Kind
<1>. QED
  BY <1>1, <1>2

(* The packet that is captured is new, and goes to one monitor thread. *)
LEMMA CaptureEffect ==
  ASSUME TypeOK, NEW pkt \in Wire, Capture(pkt)
  PROVE  LET n == Len(captured) + 1
         IN /\ n \in Nat \ {0} /\ n \notin Packets /\ Packets' = Packets \cup {n}
            /\ \A k \in Packets : k < n /\ captured'[k] = captured[k]
            /\ captured'[n] = pkt /\ captured' \in Seq(Wire) /\ Len(captured') <= MaxPackets
            /\ Mon(n) \in MonThreads
            /\ queue'[Mon(n)] = Append(queue[Mon(n)], n)
            /\ \A t \in Threads \ {Mon(n)} : queue'[t] = queue[t]
            /\ pc' = [pc EXCEPT ![Mon(n)] = Woken(Mon(n))]
            /\ queue' = [t \in Threads |-> queue'[t]]
<1>. DEFINE n == Len(captured) + 1
<1>1. captured \in Seq(Wire) /\ Len(captured) \in Nat
  BY DEF TypeOK
<1>2. captured' = Append(captured, pkt) /\ Len(captured) < MaxPackets
  BY DEF Capture
<1>3. /\ captured' \in Seq(Wire) /\ Len(captured') = n
      /\ \A k \in 1..Len(captured) : captured'[k] = captured[k]
      /\ captured'[n] = pkt
  BY <1>1, <1>2, AppendLemma
<1>4. n \in Nat \ {0} /\ Mon(n) \in MonThreads /\ Mon(n) \in Threads
  BY <1>1, ThreadsLemma
<1>5. queue' = [queue EXCEPT ![Mon(n)] = Append(queue[Mon(n)], n)]
  BY DEF Capture
<1>6. pc' = [pc EXCEPT ![Mon(n)] = Woken(Mon(n))]
  BY DEF Capture
<1>7. queue = [t \in Threads |-> queue[t]]
  BY DEF TypeOK
<1>8. /\ queue'[Mon(n)] = Append(queue[Mon(n)], n)
      /\ \A t \in Threads \ {Mon(n)} : queue'[t] = queue[t]
      /\ queue' = [t \in Threads |-> queue'[t]]
  BY <1>4, <1>5, <1>7
<1>9. Len(captured') <= MaxPackets
  BY <1>1, <1>2, <1>3, ThreadsLemma
<1>10. n \notin Packets /\ Packets' = Packets \cup {n} /\ \A k \in Packets : k < n
  BY <1>1, <1>3 DEF Packets
<1>. QED
  BY <1>3, <1>4, <1>6, <1>8, <1>9, <1>10 DEF Packets

(* A packet leaves the list of its monitor thread and is dropped, lost to a *)
(* deleted parser or in the list of the parser of its route.                *)
LEMMA DispatchEffect ==
  ASSUME TypeOK, NEW m \in Threads, Dispatch(m), NEW n, n = Head(queue[m])
  PROVE  /\ m \in MonThreads /\ pc[m] = "loop"
         /\ queue[m] # <<>> /\ queue[m] \in Seq(Packets) /\ n \in Packets
         /\ queue'[m] = Tail(queue[m])
         /\ queue' = [t \in Threads |-> queue'[t]]
         /\ \/ /\ Dropped(n) /\ dropped' = dropped \cup {n}
               /\ UNCHANGED <<pc, late, touched>>
               /\ \A t \in Threads \ {m} : queue'[t] = queue[t]
            \/ /\ deleted # {}
               /\ touched' = touched \cup {m} /\ late' = late \cup {n}
               /\ UNCHANGED <<pc, dropped>>
               /\ \A t \in Threads \ {m} : queue'[t] = queue[t]
            \/ \E p \in ParseThreads :
                 /\ ~Dropped(n) /\ p = Parser(Flow(n)) /\ p # m
                 /\ queue'[p] = Append(queue[p], n)
                 /\ \A t \in Threads \ {m, p} : queue'[t] = queue[t]
                 /\ pc' = [pc EXCEPT ![p] = Woken(p)]
                 /\ late' = IF stop[p] THEN late \cup {n} ELSE late
                 /\ UNCHANGED <<dropped, touched>>
<1>1. m \in MonThreads /\ pc[m] = "loop" /\ queue[m] # <<>> /\ queue[m] \in Seq(Packets)
  BY DEF Dispatch, TypeOK
<1>2. n \in Packets
  BY <1>1, TailLemma
<1>. DEFINE p == Parser(Flow(n))
<1>3. p \in ParseThreads /\ p \in Threads /\ p # m
  BY <1>1, <1>2, PacketsLemma, ThreadsLemma
<1>4. queue = [t \in Threads |-> queue[t]]
  BY DEF TypeOK
<1>. HIDE DEF p
<1>5. CASE Dropped(n)
  <2>1. dropped' = dropped \cup {n} /\ queue' = [queue EXCEPT ![m] = Tail(queue[m])]
        /\ UNCHANGED <<pc, late, touched>>
    BY <1>5 DEF Dispatch
  <2>. QED
    BY <1>1, <1>2, <1>4, <1>5, <2>1
<1>6. CASE ~Dropped(n) /\ p \in deleted
  <2>1. /\ touched' = touched \cup {m} /\ late' = late \cup {n}
        /\ queue' = [queue EXCEPT ![m] = Tail(queue[m])]
        /\ UNCHANGED <<pc, dropped>>
    BY <1>6 DEF Dispatch, p
  <2>. QED
    BY <1>1, <1>2, <1>4, <1>6, <2>1
<1>7. CASE ~Dropped(n) /\ p \notin deleted
  <2>1. /\ queue' = [queue EXCEPT ![m] = Tail(queue[m]), ![p] = Append(@, n)]
        /\ pc' = [pc EXCEPT ![p] = Woken(p)]
        /\ late' = IF stop[p] THEN late \cup {n} ELSE late
        /\ UNCHANGED <<dropped, touched>>
    BY <1>7 DEF Dispatch, p
  <2>2. /\ queue'[m] = Tail(queue[m]) /\ queue'[p] = Append(queue[p], n)
        /\ \A t \in Threads \ {m, p} : queue'[t] = queue[t]
        /\ queue' = [t \in Threads |-> queue'[t]]
    BY <1>3, <1>4, <2>1
  <2>. QED
    BY <1>1, <1>2, <1>3, <1>7, <2>1, <2>2 DEF p
<1>. QED
  BY <1>5, <1>6, <1>7

(* A packet leaves the list of its parser and has been handled.             *)
LEMMA HandleEffect ==
  ASSUME TypeOK, NEW p \in Threads, HandleTaskData(p), NEW n, n = Head(queue[p])
  PROVE  /\ p \in ParseThreads /\ pc[p] = "loop"
         /\ queue[p] # <<>> /\ queue[p] \in Seq(Packets) /\ n \in Packets
         /\ handled[p] \in Seq(Packets)
         /\ queue'[p] = Tail(queue[p]) /\ handled'[p] = Append(handled[p], n)
         /\ \A t \in Threads \ {p} : queue'[t] = queue[t]
         /\ \A t \in ParseThreads \ {p} : handled'[t] = handled[t]
         /\ queue' = [t \in Threads |-> queue'[t]]
         /\ handled' = [t \in ParseThreads |-> handled'[t]]
         /\ UNCHANGED <<captured, main, pc, stop, dropped, late, deleted, touched>>
<1>1. p \in ParseThreads /\ pc[p] = "loop" /\ queue[p] # <<>> /\ queue[p] \in Seq(Packets)
      /\ handled[p] \in Seq(Packets)
  BY DEF HandleTaskData, TypeOK
<1>2. n \in Packets
  BY <1>1, TailLemma
<1>3. /\ queue' = [queue EXCEPT ![p] = Tail(queue[p])]
      /\ handled' = [handled EXCEPT ![p] = Append(handled[p], n)]
      /\ UNCHANGED <<captured, main, pc, stop, dropped, late, deleted, touched>>
  BY DEF HandleTaskData
<1>4. queue = [t \in Threads |-> queue[t]] /\ handled = [t \in ParseThreads |-> handled[t]]
  BY DEF TypeOK
<1>. QED
  BY <1>1, <1>2, <1>3, <1>4
-----------------------------------------------------------------------------
(* The connections of the parsers and the totals.                           *)

Known == {x \in ParseThreads \X Flows : x[2] \in conns[x[1]]}

(* There are finitely many flows and parsers, so that the connections of    *)
(* the parsers can be counted.                                              *)
LEMMA FiniteFlows == IsFiniteSet(ParseThreads \X Flows)
<1>1. IsFiniteSet(Conns)
  BY MonitorAssumption
<1>2. IsFiniteSet(Ends)
  <2>1. Ends = {"client"} \cup {"server"}
    BY DEF Ends
  <2>. QED
    BY <2>1, FS_EmptySet, FS_Singleton, FS_Union
<1>3. IsFiniteSet(Conns \X Ends)
  BY <1>1, <1>2, FS_Product
<1>. DEFINE h == [x \in Conns \X Ends |-> [conn |-> x[1], from |-> x[2]]]
<1>4. h \in Surjection(Conns \X Ends, Flows)
  <2>1. \A x \in Conns \X Ends : h[x] \in Flows
    BY DEF Flows
  <2>2. ASSUME NEW f \in Flows PROVE \E x \in Conns \X Ends : h[x] = f
    <3>1. <<f.conn, f.from>> \in Conns \X Ends /\ f = [conn |-> f.conn, from |-> f.from]
      BY DEF Flows
    <3>2. h[<<f.conn, f.from>>] = f
      BY <3>1
    <3>. QED
      BY <3>1, <3>2
  <2>. QED
    BY <2>1, <2>2 DEF Surjection
<1>5. IsFiniteSet(Flows)
  BY <1>3, <1>4, FS_Surjection
<1>6. IsFiniteSet(ParseThreads)
  <2>1. NMon + 1 \in Int /\ NMon + NParse \in Int
    BY ThreadsLemma
  <2>. QED
    BY <2>1, FS_Interval DEF ParseThreads
<1>. QED
  BY <1>5, <1>6, FS_Product

(* The connections in the maps can be counted, and one of them counts.      *)
LEMMA KnownLemma ==
  /\ IsFiniteSet(Known) /\ Cardinality(Known) \in Nat
  /\ (\E p \in ParseThreads : \E f \in Flows : f \in conns[p]) => Cardinality(Known) >= 1
<1>1. IsFiniteSet(Known)
  BY FiniteFlows, FS_Subset DEF Known
<1>2. ASSUME NEW p \in ParseThreads, NEW f \in Flows, f \in conns[p]
      PROVE  Cardinality(Known) >= 1
  <2>1. <<p, f>> \in Known
    BY <1>2 DEF Known
  <2>2. Cardinality(Known) \in Nat /\ Cardinality(Known) # 0
    BY <1>1, <2>1, FS_CardinalityType, FS_EmptySet
  <2>. QED
    BY <2>2
<1>. QED
  BY <1>1, <1>2, FS_CardinalityType

(* One more flow in a map is one more connection, one less is one less.     *)
LEMMA KnownStep ==
  ASSUME TypeOK, NEW p \in ParseThreads, NEW f \in Flows
  PROVE  /\ conns' = [conns EXCEPT ![p] = conns[p] \cup {f}] =>
              /\ Cardinality(Known') = IF f \in conns[p] THEN Cardinality(Known)
                                       ELSE Cardinality(Known) + 1
         /\ conns' = [conns EXCEPT ![p] = conns[p] \ {f}] =>
              /\ Cardinality(Known') = IF f \in conns[p] THEN Cardinality(Known) - 1
                                       ELSE Cardinality(Known)
<1>1. conns \in [ParseThreads -> SUBSET Flows] /\ IsFiniteSet(Known)
  BY KnownLemma DEF TypeOK
<1>2. <<p, f>> \in Known <=> f \in conns[p]
  BY DEF Known
<1>3. ASSUME conns' = [conns EXCEPT ![p] = conns[p] \cup {f}]
      PROVE  Known' = Known \cup {<<p, f>>}
  <2>1. conns'[p] = conns[p] \cup {f} /\ \A q \in ParseThreads \ {p} : conns'[q] = conns[q]
    BY <1>1, <1>3
  <2>2. ASSUME NEW q \in ParseThreads, NEW g \in Flows
        PROVE  g \in conns'[q] <=> (g \in conns[q] \/ <<q, g>> = <<p, f>>)
    BY <2>1
  <2>3. ASSUME NEW x \in ParseThreads \X Flows
        PROVE  x \in Known' <=> x \in Known \cup {<<p, f>>}
    <3>1. PICK q \in ParseThreads, g \in Flows : x = <<q, g>>
      OBVIOUS
    <3>. QED
      BY <2>2, <3>1 DEF Known
  <2>4. Known' \subseteq ParseThreads \X Flows /\ Known \cup {<<p, f>>} \subseteq ParseThreads \X Flows
    BY DEF Known
  <2>. QED
    BY <2>3, <2>4
<1>4. ASSUME conns' = [conns EXCEPT ![p] = conns[p] \ {f}]
      PROVE  Known' = Known \ {<<p, f>>}
  <2>1. conns'[p] = conns[p] \ {f} /\ \A q \in ParseThreads \ {p} : conns'[q] = conns[q]
    BY <1>1, <1>4
  <2>2. ASSUME NEW q \in ParseThreads, NEW g \in Flows
        PROVE  g \in conns'[q] <=> (g \in conns[q] /\ <<q, g>> # <<p, f>>)
    BY <2>1
  <2>3. ASSUME NEW x \in ParseThreads \X Flows
        PROVE  x \in Known' <=> x \in Known \ {<<p, f>>}
    <3>1. PICK q \in ParseThreads, g \in Flows : x = <<q, g>>
      OBVIOUS
    <3>. QED
      BY <2>2, <3>1 DEF Known
  <2>4. Known' \subseteq ParseThreads \X Flows /\ Known \ {<<p, f>>} \subseteq ParseThreads \X Flows
    BY DEF Known
  <2>. QED
    BY <2>3, <2>4
<1>5. /\ Cardinality(Known \cup {<<p, f>>}) =
           IF <<p, f>> \in Known THEN Cardinality(Known) ELSE Cardinality(Known) + 1
      /\ Cardinality(Known \ {<<p, f>>}) =
           IF <<p, f>> \in Known THEN Cardinality(Known) - 1 ELSE Cardinality(Known)
  BY <1>1, FS_AddElement, FS_RemoveElement
<1>. QED
  BY <1>2, <1>3, <1>4, <1>5

(* The totals agree with the maps after a packet: a connection is closed    *)
(* only when it was accepted, and kept only when it has a plug-in.          *)
LEMMA StatsStep ==
  ASSUME TypeOK, MapsOK, TotalsMatchMaps, NEW p \in Threads, HandleTaskData(p)
  PROVE  /\ conns' \in [ParseThreads -> SUBSET Flows]
         /\ accepts' \in Nat /\ closes' \in 0..accepts' /\ leaked' \in 0..accepts'
         /\ MapsOK' /\ TotalsMatchMaps'
         /\ \A q \in ParseThreads \ {p} : conns'[q] = conns[q]
         /\ LET n == Head(queue[p])
            IN  \A f \in conns'[p] :
                  \/ f \in conns[p] /\ (Flow(n) = f => Kind(n) \notin {"fin", "datafin"})
                  \/ Flow(n) = f /\ Kind(n) = "data"
<1>. DEFINE n == Head(queue[p])
            f == Flow(n)
            N == Cardinality(Known)
<1>1. p \in ParseThreads /\ f \in Flows
      /\ Kind(n) \in {"udp", "ack", "syn", "data", "fin", "datafin"}
  BY HandleEffect, PacketsLemma
<1>2. /\ conns \in [ParseThreads -> SUBSET Flows]
      /\ accepts \in Nat /\ closes \in Nat /\ leaked \in Nat /\ closes <= accepts /\ leaked <= accepts
  BY DEF TypeOK
<1>3. N \in Nat /\ (f \in conns[p] => N >= 1)
  BY <1>1, KnownLemma
<1>4. accepts - closes = leaked + N
  BY DEF TotalsMatchMaps, Known
<1>5. f \in conns[p] => f.conn \in Classified
  BY <1>1 DEF MapsOK
<1>6. /\ Kind(n) = "fin" => Finished(p, f)
      /\ Kind(n) = "syn" => UNCHANGED stats
      /\ Kind(n) \notin {"fin", "syn"} => Data(p, f, Kind(n))
  BY DEF HandleTaskData
<1>7. /\ conns' = [conns EXCEPT ![p] = conns[p] \cup {f}] => Cardinality(Known') = IF f \in conns[p] THEN N ELSE N + 1
      /\ conns' = [conns EXCEPT ![p] = conns[p] \ {f}] => Cardinality(Known') = IF f \in conns[p] THEN N - 1 ELSE N
      /\ conns' = conns => Cardinality(Known') = N
  <2>1. conns' = conns => Known' = Known
    BY DEF Known
  <2>. QED
    BY <1>1, <2>1, KnownStep
<1>8. TotalsMatchMaps' <=> accepts' - closes' = leaked' + Cardinality(Known')
  BY DEF TotalsMatchMaps, Known
<1>. DEFINE Goal ==
  /\ conns' \in [ParseThreads -> SUBSET Flows]
  /\ accepts' \in Nat /\ closes' \in 0..accepts' /\ leaked' \in 0..accepts'
  /\ accepts' - closes' = leaked' + Cardinality(Known')
  /\ \A q \in ParseThreads \ {p} : conns'[q] = conns[q]
  /\ \A g \in conns'[p] :
       /\ g.conn \in Classified
       /\ \/ g \in conns[p] /\ (f = g => Kind(n) \notin {"fin", "datafin"})
          \/ f = g /\ Kind(n) = "data"
<1>9. \A g \in conns[p] : g.conn \in Classified
  BY <1>1 DEF MapsOK
<1>. HIDE DEF N, f, n
<1>10. ASSUME UNCHANGED stats /\ Kind(n) \notin {"fin", "datafin"} PROVE Goal
  BY <1>1, <1>2, <1>3, <1>4, <1>7, <1>9, <1>10 DEF stats
<1>11. ASSUME Kind(n) = "fin" PROVE Goal
  <2>1. CASE f \in conns[p]
    <3>1. /\ conns' = [conns EXCEPT ![p] = conns[p] \ {f}] /\ closes' = closes + 1
          /\ accepts' = accepts /\ leaked' = leaked
      BY <1>6, <1>11, <2>1 DEF Finished
    <3>2. Cardinality(Known') = N - 1
      BY <1>7, <2>1, <3>1
    <3>. QED
      BY <1>1, <1>2, <1>3, <1>4, <1>9, <2>1, <3>1, <3>2
  <2>2. CASE f \notin conns[p]
    <3>1. UNCHANGED stats
      BY <1>6, <1>11, <2>2 DEF Finished
    <3>. QED
      BY <1>1, <1>2, <1>3, <1>4, <1>7, <1>9, <2>2, <3>1 DEF stats
  <2>. QED
    BY <2>1, <2>2
<1>12. ASSUME Kind(n) \notin {"fin", "syn"} PROVE Goal
  <2>0. accepts' = IF f \in conns[p] THEN accepts ELSE accepts + 1
    BY <1>6, <1>12 DEF Data
  <2>1. CASE f.conn \notin Classified
    <3>1. f \notin conns[p] /\ leaked' = leaked + 1 /\ conns' = conns /\ closes' = closes
      BY <1>5, <1>6, <1>12, <2>1 DEF Data
    <3>2. Cardinality(Known') = N
      BY <1>7, <3>1
    <3>. QED
      BY <1>1, <1>2, <1>3, <1>4, <1>9, <2>0, <3>1, <3>2
  <2>2. CASE f.conn \in Classified /\ Kind(n) = "data"
    <3>1. conns' = [conns EXCEPT ![p] = conns[p] \cup {f}] /\ closes' = closes /\ leaked' = leaked
      BY <1>6, <1>12, <2>2 DEF Data
    <3>2. Cardinality(Known') = IF f \in conns[p] THEN N ELSE N + 1
      BY <1>7, <3>1
    <3>. QED
      BY <1>1, <1>2, <1>3, <1>4, <1>9, <2>0, <2>2, <3>1, <3>2
  <2>3. CASE f.conn \in Classified /\ Kind(n) # "data"
    <3>1. conns' = [conns EXCEPT ![p] = conns[p] \ {f}] /\ closes' = closes + 1 /\ leaked' = leaked
      BY <1>6, <1>12, <2>3 DEF Data
    <3>2. Cardinality(Known') = IF f \in conns[p] THEN N - 1 ELSE N
      BY <1>7, <3>1
    <3>. QED
      BY <1>1, <1>2, <1>3, <1>4, <1>9, <2>0, <2>3, <3>1, <3>2
  <2>. QED
    BY <2>1, <2>2, <2>3
<1>13. Goal
  BY <1>6, <1>10, <1>11, <1>12
<1>14. MapsOK'
  BY <1>1, <1>13 DEF MapsOK
<1>. QED
  BY <1>8, <1>13, <1>14 DEF n, f
-----------------------------------------------------------------------------
(* Threads and lists.                                                       *)

Quiet == UNCHANGED <<captured, queue, handled, dropped, late, touched, conns, accepts, closes, leaked>>

(* The steps that leave every packet where it is.                           *)
LEMMA StepCases ==
  ASSUME [Next]_vars
  PROVE  \/ \E pkt \in Wire : Capture(pkt)
         \/ \E t \in Threads : Dispatch(t)
         \/ \E t \in Threads : HandleTaskData(t)
         \/ Quiet
<1>1. ASSUME NEW t \in Threads, StopThread(t) \/ TestEmpty(t) \/ Park(t) PROVE Quiet
  <2>1. CASE StopThread(t)
    BY <2>1 DEF StopThread, Quiet, stats, hist
  <2>2. CASE TestEmpty(t)
    BY <2>2 DEF TestEmpty, Quiet, stats, hist
  <2>3. CASE Park(t)
    BY <2>3 DEF Park, Quiet, stats, hist
  <2>. QED
    BY <1>1, <2>1, <2>2, <2>3
<1>2. ASSUME NEW p \in ParseThreads, DeleteParser(p) PROVE Quiet
  BY <1>2 DEF DeleteParser, Quiet, stats, hist, loop
<1>3. ASSUME UNCHANGED vars PROVE Quiet
  BY <1>3 DEF vars, Quiet
<1>. QED
  BY <1>1, <1>2, <1>3 DEF Next, MainStep, ThreadStep

(* A thread that has ended does not come back, a flag is not taken back, and *)
(* a thread ends only with its flag set and its list empty.                  *)
LEMMA DoneLemma ==
  ASSUME TypeOK, [Next]_vars
  PROVE  /\ pc' \in [Threads -> {"loop", "decided", "waiting", "done"}]
         /\ stop' \in [Threads -> BOOLEAN]
         /\ main' \in {"capturing", "stopping", "joining", "over"}
         /\ deleted' \subseteq ParseThreads
         /\ \A t \in Threads :
              /\ stop[t] => stop'[t]
              /\ pc[t] = "done" => pc'[t] = "done"
              /\ pc'[t] = "done" => pc[t] = "done" \/ (stop[t] /\ queue[t] = <<>>)
         /\ main' = "capturing" => main = "capturing" /\ stop' = stop
         /\ deleted' = deleted \/ \A m \in Joined : pc[m] = "done"
<1>. DEFINE Goal ==
         /\ pc' \in [Threads -> {"loop", "decided", "waiting", "done"}]
         /\ stop' \in [Threads -> BOOLEAN]
         /\ main' \in {"capturing", "stopping", "joining", "over"}
         /\ deleted' \subseteq ParseThreads
         /\ \A t \in Threads :
              /\ stop[t] => stop'[t]
              /\ pc[t] = "done" => pc'[t] = "done"
              /\ pc'[t] = "done" => pc[t] = "done" \/ (stop[t] /\ queue[t] = <<>>)
         /\ main' = "capturing" => main = "capturing" /\ stop' = stop
         /\ deleted' = deleted \/ \A m \in Joined : pc[m] = "done"
<1>1. /\ pc \in [Threads -> {"loop", "decided", "waiting", "done"}]
      /\ stop \in [Threads -> BOOLEAN] /\ deleted \subseteq ParseThreads
      /\ main \in {"capturing", "stopping", "joining", "over"}
  BY DEF TypeOK
<1>2. ASSUME NEW t \in Threads
      PROVE  /\ Woken(t) \in {"loop", "decided", "waiting", "done"}
             /\ Woken(t) = "done" <=> pc[t] = "done"
  BY <1>1 DEF Woken
<1>3. ASSUME NEW pkt \in Wire, Capture(pkt) PROVE Goal
  <2>1. /\ Mon(Len(captured) + 1) \in Threads
        /\ pc' = [pc EXCEPT ![Mon(Len(captured) + 1)] = Woken(Mon(Len(captured) + 1))]
    BY <1>3, CaptureEffect, ThreadsLemma
  <2>2. /\ stop' = stop /\ deleted' = deleted /\ main = "capturing"
        /\ main' \in {"capturing", "stopping"}
    BY <1>3 DEF Capture
  <2>. QED
    BY <1>1, <1>2, <2>1, <2>2
<1>4. ASSUME NEW t \in Threads, StopThread(t) PROVE Goal
  <2>1. /\ main = "stopping" /\ main' \in {"joining", "stopping"} /\ deleted' = deleted
        /\ stop' = [stop EXCEPT ![t] = TRUE] /\ pc' = [pc EXCEPT ![t] = Woken(t)]
    BY <1>4 DEF StopThread
  <2>. QED
    BY <1>1, <1>2, <2>1
<1>5. ASSUME NEW p \in ParseThreads, DeleteParser(p) PROVE Goal
  <2>1. /\ main = "joining" /\ main' \in {"joining", "over"} /\ deleted' = deleted \cup {p}
        /\ stop' = stop /\ pc' = pc /\ \A m \in Joined : pc[m] = "done"
    BY <1>5 DEF DeleteParser, loop
  <2>. QED
    BY <1>1, <2>1
<1>6. ASSUME NEW t \in Threads, TestEmpty(t) PROVE Goal
  <2>1. /\ queue[t] = <<>> /\ pc' = [pc EXCEPT ![t] = IF stop[t] THEN "done" ELSE "decided"]
        /\ UNCHANGED <<main, stop, deleted>> /\ pc[t] = "loop"
    BY <1>6 DEF TestEmpty
  <2>. QED
    BY <1>1, <2>1
<1>7. ASSUME NEW t \in Threads, Park(t) PROVE Goal
  <2>1. pc[t] = "decided" /\ pc' = [pc EXCEPT ![t] = "waiting"] /\ UNCHANGED <<main, stop, deleted>>
    BY <1>7 DEF Park
  <2>. QED
    BY <1>1, <2>1
<1>8. ASSUME NEW t \in Threads, Dispatch(t) PROVE Goal
  <2>1. UNCHANGED <<main, stop, deleted>>
    BY <1>8 DEF Dispatch
  <2>2. pc' = pc \/ \E p \in ParseThreads : pc' = [pc EXCEPT ![p] = Woken(p)]
    BY <1>8, DispatchEffect
  <2>. QED
    BY <1>1, <1>2, <2>1, <2>2, ThreadsLemma
<1>9. ASSUME NEW t \in Threads, HandleTaskData(t) PROVE Goal
  BY <1>1, <1>9, HandleEffect
<1>10. ASSUME UNCHANGED vars PROVE Goal
  BY <1>1, <1>10 DEF vars
<1>. QED
  BY <1>3, <1>4, <1>5, <1>6, <1>7, <1>8, <1>9, <1>10 DEF Next, MainStep, ThreadStep

(* A thread ends only when told to.                                         *)
LEMMA FlagsStep ==
  ASSUME TypeOK, FlagsOK, [Next]_vars
  PROVE  FlagsOK'
<1>1. main' = "capturing" => main = "capturing" /\ stop' = stop
  BY DoneLemma
<1>2. \A t \in Threads : /\ stop[t] => stop'[t]
                         /\ pc'[t] = "done" => pc[t] = "done" \/ stop[t]
  BY DoneLemma
<1>3. /\ main = "capturing" => \A t \in Threads : ~stop[t]
      /\ \A t \in Threads : pc[t] = "done" => stop[t]
  BY DEF FlagsOK
<1>4. main' = "capturing" => \A t \in Threads : ~stop'[t]
  BY <1>1, <1>3
<1>. QED
  BY <1>2, <1>3, <1>4 DEF FlagsOK

(* While a parser may be deleted the joined monitor threads have ended, so  *)
(* that none of them is in Dispatch.                                        *)
LEMMA JoinStep ==
  ASSUME TypeOK, JoinOK, [Next]_vars
  PROVE  JoinOK'
<1>1. /\ \A t \in Threads : pc[t] = "done" => pc'[t] = "done"
      /\ deleted' = deleted \/ \A m \in Joined : pc[m] = "done"
  BY DoneLemma
<1>2. Joined \subseteq Threads
  BY ThreadsLemma DEF Joined
<1>3. deleted # {} => \A m \in Joined : pc[m] = "done"
  BY DEF JoinOK
<1>4. deleted' # {} => \A m \in Joined : pc'[m] = "done"
  BY <1>1, <1>2, <1>3
<1>5. touched \subseteq {m \in MonThreads : m % 2 = 0}
  BY DEF JoinOK, JoinedNeverTouches
<1>6. touched' = touched \/ \E m \in MonThreads : touched' = touched \cup {m} /\ m % 2 = 0
  <2>1. CASE \E t \in Threads : Dispatch(t)
    <3>1. PICK m \in Threads : Dispatch(m)
      BY <2>1
    <3>2. /\ m \in MonThreads /\ pc[m] = "loop"
          /\ touched' = touched \/ (deleted # {} /\ touched' = touched \cup {m})
      BY <3>1, DispatchEffect
    <3>3. CASE touched' = touched
      BY <3>3
    <3>4. CASE deleted # {} /\ touched' = touched \cup {m}
      <4>1. m \notin Joined
        BY <1>3, <3>2, <3>4
      <4>2. m % 2 # 1 /\ m \in Nat
        BY <3>2, <4>1, ThreadsLemma DEF Joined
      <4>3. m % 2 \in 0..1
        BY <4>2
      <4>. QED
        BY <3>2, <3>4, <4>2, <4>3
    <3>. QED
      BY <3>2, <3>3, <3>4
  <2>2. CASE \E pkt \in Wire : Capture(pkt)
    BY <2>2 DEF Capture
  <2>3. CASE \E t \in Threads : HandleTaskData(t)
    BY <2>3 DEF HandleTaskData
  <2>4. CASE Quiet
    BY <2>4 DEF Quiet
  <2>. QED
    BY <2>1, <2>2, <2>3, <2>4, StepCases
<1>7. touched' \subseteq {m \in MonThreads : m % 2 = 0}
  BY <1>5, <1>6
<1>. QED
  BY <1>4, <1>7 DEF JoinOK, JoinedNeverTouches
-----------------------------------------------------------------------------
(* Types.                                                                   *)

(* The packets stay what they are when more are captured.                   *)
LEMMA OldPackets ==
  ASSUME TypeOK, [Next]_vars
  PROVE  /\ captured' \in Seq(Wire) /\ Len(captured') <= MaxPackets
         /\ Packets \subseteq Packets'
         /\ \A n \in Packets : /\ Flow(n)' = Flow(n) /\ Kind(n)' = Kind(n)
                               /\ Dropped(n)' = Dropped(n)
<1>1. CASE \E pkt \in Wire : Capture(pkt)
  <2>1. PICK pkt \in Wire : Capture(pkt)
    BY <1>1
  <2>2. /\ captured' \in Seq(Wire) /\ Len(captured') <= MaxPackets
        /\ Packets \subseteq Packets'
        /\ \A n \in Packets : captured'[n] = captured[n]
    BY <2>1, CaptureEffect
  <2>. QED
    BY <2>2 DEF Flow, Kind, Dropped
<1>2. CASE captured' = captured
  BY <1>2 DEF TypeOK, Flow, Kind, Dropped, Packets
<1>3. CASE \E t \in Threads : Dispatch(t)
  BY <1>2, <1>3 DEF Dispatch
<1>4. CASE \E t \in Threads : HandleTaskData(t)
  BY <1>2, <1>4 DEF HandleTaskData
<1>5. CASE Quiet
  BY <1>2, <1>5 DEF Quiet
<1>. QED
  BY <1>1, <1>3, <1>4, <1>5, StepCases

ListsOK ==
  /\ queue \in [Threads -> Seq(Packets)] /\ handled \in [ParseThreads -> Seq(Packets)]
  /\ dropped \subseteq Packets /\ late \subseteq Packets /\ touched \subseteq MonThreads

(* Every list and history has captured packets.                             *)
LEMMA ListsStep ==
  ASSUME TypeOK, [Next]_vars
  PROVE  ListsOK'
<1>1. ListsOK
  BY DEF TypeOK, ListsOK
<1>2. ASSUME NEW pkt \in Wire, Capture(pkt) PROVE ListsOK'
  <2>. DEFINE n == Len(captured) + 1
  <2>1. /\ Packets' = Packets \cup {n} /\ Mon(n) \in MonThreads
        /\ queue'[Mon(n)] = Append(queue[Mon(n)], n)
        /\ \A t \in Threads \ {Mon(n)} : queue'[t] = queue[t]
        /\ queue' = [t \in Threads |-> queue'[t]]
    BY <1>2, CaptureEffect
  <2>2. UNCHANGED <<handled, dropped, late, touched>>
    BY <1>2 DEF Capture, hist
  <2>. HIDE DEF n
  <2>3. ASSUME NEW t \in Threads PROVE queue[t] \in Seq(Packets')
    BY <1>1, <2>1, SeqGrow DEF ListsOK
  <2>4. ASSUME NEW t \in Threads PROVE queue'[t] \in Seq(Packets')
    <3>1. CASE t = Mon(n)
      <4>1. n \in Packets'
        BY <2>1
      <4>. QED
        BY <2>1, <2>3, <3>1, <4>1, AppendLemma
    <3>2. CASE t # Mon(n)
      BY <2>1, <2>3, <3>2
    <3>. QED
      BY <3>1, <3>2
  <2>5. ASSUME NEW p \in ParseThreads PROVE handled[p] \in Seq(Packets')
    BY <1>1, <2>1, SeqGrow DEF ListsOK
  <2>6. queue' \in [Threads -> Seq(Packets')]
    BY <2>1, <2>4
  <2>7. handled' \in [ParseThreads -> Seq(Packets')]
    BY <1>1, <2>2, <2>5 DEF ListsOK
  <2>. QED
    BY <1>1, <2>1, <2>2, <2>6, <2>7 DEF ListsOK
<1>3. ASSUME NEW m \in Threads, Dispatch(m) PROVE ListsOK'
  <2>1. PICK n \in Packets : n = Head(queue[m])
    BY <1>3, DispatchEffect
  <2>2. /\ m \in MonThreads /\ queue[m] # <<>> /\ queue[m] \in Seq(Packets)
        /\ queue'[m] = Tail(queue[m]) /\ queue' = [t \in Threads |-> queue'[t]]
    BY <1>3, <2>1, DispatchEffect
  <2>3. \A t \in Threads \ {m} : queue'[t] = queue[t] \/ queue'[t] = Append(queue[t], n)
    BY <1>3, <2>1, DispatchEffect
  <2>4. /\ dropped' \subseteq dropped \cup {n} /\ late' \subseteq late \cup {n}
        /\ touched' \subseteq touched \cup {m}
    BY <1>3, <2>1, DispatchEffect
  <2>5. Packets' = Packets /\ handled' = handled
    BY <1>3 DEF Dispatch, Packets
  <2>6. Tail(queue[m]) \in Seq(Packets)
    BY <2>2, TailLemma
  <2>7. ASSUME NEW t \in Threads PROVE queue'[t] \in Seq(Packets)
    <3>1. CASE t = m
      BY <2>2, <2>6, <3>1
    <3>2. CASE t # m
      <4>1. queue[t] \in Seq(Packets)
        BY <1>1 DEF ListsOK
      <4>2. Append(queue[t], n) \in Seq(Packets)
        BY <4>1, AppendLemma
      <4>. QED
        BY <2>3, <3>2, <4>1, <4>2
    <3>. QED
      BY <3>1, <3>2
  <2>8. queue' \in [Threads -> Seq(Packets)]
    BY <2>2, <2>7
  <2>. QED
    BY <1>1, <2>1, <2>2, <2>4, <2>5, <2>8 DEF ListsOK
<1>4. ASSUME NEW p \in Threads, HandleTaskData(p) PROVE ListsOK'
  <2>1. PICK n \in Packets : n = Head(queue[p])
    BY <1>4, HandleEffect
  <2>2. /\ p \in ParseThreads /\ queue[p] # <<>> /\ queue[p] \in Seq(Packets)
        /\ handled[p] \in Seq(Packets)
        /\ queue'[p] = Tail(queue[p]) /\ handled'[p] = Append(handled[p], n)
        /\ \A t \in Threads \ {p} : queue'[t] = queue[t]
        /\ \A t \in ParseThreads \ {p} : handled'[t] = handled[t]
        /\ queue' = [t \in Threads |-> queue'[t]]
        /\ handled' = [t \in ParseThreads |-> handled'[t]]
        /\ UNCHANGED <<captured, dropped, late, touched>>
    BY <1>4, <2>1, HandleEffect
  <2>3. Packets' = Packets
    BY <2>2 DEF Packets
  <2>4. Tail(queue[p]) \in Seq(Packets) /\ Append(handled[p], n) \in Seq(Packets)
    BY <2>2, TailLemma, AppendLemma
  <2>5. queue' \in [Threads -> Seq(Packets)] /\ handled' \in [ParseThreads -> Seq(Packets)]
    <3>1. \A t \in Threads : queue'[t] \in Seq(Packets)
      BY <1>1, <2>2, <2>4 DEF ListsOK
    <3>2. \A t \in ParseThreads : handled'[t] \in Seq(Packets)
      BY <1>1, <2>2, <2>4 DEF ListsOK
    <3>. QED
      BY <2>2, <3>1, <3>2
  <2>. QED
    BY <1>1, <2>2, <2>3, <2>5 DEF ListsOK
<1>5. ASSUME Quiet PROVE ListsOK'
  BY <1>1, <1>5 DEF ListsOK, Quiet, Packets
<1>. QED
  BY <1>2, <1>3, <1>4, <1>5, StepCases

(* All variables keep their types, and the totals go with the maps.         *)
LEMMA TypeStep ==
  ASSUME TypeOK, MapsOK, TotalsMatchMaps, [Next]_vars
  PROVE  TypeOK' /\ MapsOK' /\ TotalsMatchMaps'
<1>1. ListsOK'
  BY ListsStep
<1>2. captured' \in Seq(Wire) /\ Len(captured') <= MaxPackets
  BY OldPackets
<1>3. /\ pc' \in [Threads -> {"loop", "decided", "waiting", "done"}]
      /\ stop' \in [Threads -> BOOLEAN]
      /\ main' \in {"capturing", "stopping", "joining", "over"}
      /\ deleted' \subseteq ParseThreads
  BY DoneLemma
<1>4. /\ conns' \in [ParseThreads -> SUBSET Flows]
      /\ accepts' \in Nat /\ closes' \in 0..accepts' /\ leaked' \in 0..accepts'
      /\ MapsOK' /\ TotalsMatchMaps'
  <2>1. ASSUME UNCHANGED stats
        PROVE  /\ conns' \in [ParseThreads -> SUBSET Flows]
               /\ accepts' \in Nat /\ closes' \in 0..accepts' /\ leaked' \in 0..accepts'
               /\ MapsOK' /\ TotalsMatchMaps'
    BY <2>1 DEF TypeOK, MapsOK, TotalsMatchMaps, stats
  <2>2. CASE \E pkt \in Wire : Capture(pkt)
    <3>1. UNCHANGED stats
      BY <2>2 DEF Capture
    <3>. QED
      BY <2>1, <3>1
  <2>3. CASE \E t \in Threads : Dispatch(t)
    <3>1. UNCHANGED stats
      BY <2>3 DEF Dispatch
    <3>. QED
      BY <2>1, <3>1
  <2>4. CASE \E t \in Threads : HandleTaskData(t)
    BY <2>4, StatsStep
  <2>5. CASE Quiet
    <3>1. UNCHANGED stats
      BY <2>5 DEF Quiet, stats
    <3>. QED
      BY <2>1, <3>1
  <2>. QED
    BY <2>2, <2>3, <2>4, <2>5, StepCases
<1>. QED
  BY <1>1, <1>2, <1>3, <1>4 DEF TypeOK, ListsOK
-----------------------------------------------------------------------------
(* No packet is lost.                                                       *)

Settled == dropped \cup late \cup UNION {Range(handled[p]) : p \in ParseThreads}

(* A captured packet stays in a list that is read until it is parsed or     *)
(* dropped: a list gets packets only while its thread is not stopped, or    *)
(* they are late, and a thread ends only with its list empty.               *)
LEMMA LostStep ==
  ASSUME TypeOK, FlagsOK, NothingLost, [Next]_vars
  PROVE  NothingLost'
<1>1. SUFFICES ASSUME NEW k \in Packets'
               PROVE  k \in Settled' \/ \E t \in Threads : k \in Range(queue'[t]) /\ pc'[t] # "done"
  BY DEF NothingLost, Settled
<1>2. \A t \in Threads : pc'[t] = "done" => pc[t] = "done" \/ (stop[t] /\ queue[t] = <<>>)
  BY DoneLemma
<1>3. \A t \in Threads : queue[t] \in Seq(Packets) /\ queue[t] = <<>> => Range(queue[t]) = {}
  BY DEF Range
<1>4. \A t \in Threads : pc[t] = "done" => stop[t]
  BY DEF FlagsOK
<1>5. k \in Packets => k \in Settled \/ \E t \in Threads : k \in Range(queue[t]) /\ pc[t] # "done"
  BY DEF NothingLost, Settled
<1>6. \A t \in Threads : queue[t] \in Seq(Packets)
  BY DEF TypeOK
<1>7. ASSUME NEW t \in Threads, k \in Range(queue[t]), pc[t] # "done" PROVE pc'[t] # "done"
  BY <1>2, <1>3, <1>6, <1>7
<1>8. CASE \E pkt \in Wire : Capture(pkt)
  <2>1. PICK pkt \in Wire : Capture(pkt)
    BY <1>8
  <2>. DEFINE n == Len(captured) + 1
  <2>2. /\ Packets' = Packets \cup {n} /\ Mon(n) \in MonThreads /\ n \in Packets'
        /\ queue'[Mon(n)] = Append(queue[Mon(n)], n)
        /\ \A t \in Threads \ {Mon(n)} : queue'[t] = queue[t]
    BY <2>1, CaptureEffect
  <2>3. Mon(n) \in Threads
    BY <2>2, ThreadsLemma
  <2>4. main = "capturing" /\ UNCHANGED <<handled, dropped, late>>
    BY <2>1 DEF Capture, hist
  <2>5. ~stop[Mon(n)]
    BY <2>3, <2>4 DEF FlagsOK
  <2>6. pc'[Mon(n)] # "done"
    BY <1>2, <1>4, <2>3, <2>5
  <2>. HIDE DEF n
  <2>7. Range(queue'[Mon(n)]) = Range(queue[Mon(n)]) \cup {n}
    <3>1. Packets \subseteq Packets' /\ n \in Packets'
      BY <2>2
    <3>2. queue[Mon(n)] \in Seq(Packets')
      BY <1>6, <2>3, <3>1, SeqGrow
    <3>. QED
      BY <2>2, <3>1, <3>2, AppendLemma
  <2>8. CASE k = n
    BY <2>3, <2>6, <2>7, <2>8
  <2>9. CASE k \in Settled
    BY <2>4, <2>9 DEF Settled
  <2>10. ASSUME NEW t \in Threads, k \in Range(queue[t]), pc[t] # "done"
         PROVE  k \in Range(queue'[t]) /\ pc'[t] # "done"
    BY <1>7, <2>2, <2>7, <2>10
  <2>. QED
    BY <1>5, <2>2, <2>8, <2>9, <2>10
<1>9. CASE \E t \in Threads : Dispatch(t)
  <2>1. PICK m \in Threads : Dispatch(m)
    BY <1>9
  <2>2. PICK n \in Packets : n = Head(queue[m])
    BY <2>1, DispatchEffect
  <2>3. /\ queue[m] # <<>> /\ queue'[m] = Tail(queue[m])
        /\ \A t \in Threads \ {m} : queue'[t] = queue[t] \/ queue'[t] = Append(queue[t], n)
    BY <2>1, <2>2, DispatchEffect
  <2>4. captured' = captured /\ handled' = handled
    BY <2>1 DEF Dispatch
  <2>5. Range(queue[m]) = Range(queue'[m]) \cup {n}
    BY <1>6, <2>2, <2>3, TailLemma
  <2>6. ASSUME NEW t \in Threads \ {m} PROVE Range(queue[t]) \subseteq Range(queue'[t])
    <3>1. queue[t] \in Seq(Packets)
      BY <1>6
    <3>2. Range(Append(queue[t], n)) = Range(queue[t]) \cup {n}
      BY <3>1, AppendLemma
    <3>. QED
      BY <2>3, <3>2
  <2>7. Settled \subseteq Settled'
    <3>1. dropped \subseteq dropped' /\ late \subseteq late'
      BY <2>1, <2>2, DispatchEffect
    <3>. QED
      BY <2>4, <3>1 DEF Settled
  <2>8. n \in Settled' \/ \E t \in Threads : n \in Range(queue'[t]) /\ pc'[t] # "done"
    <3>1. CASE n \in dropped' \cup late'
      BY <3>1 DEF Settled
    <3>2. CASE \E p \in ParseThreads : ~stop[p] /\ queue'[p] = Append(queue[p], n)
      <4>1. PICK p \in ParseThreads : ~stop[p] /\ queue'[p] = Append(queue[p], n)
        BY <3>2
      <4>2. p \in Threads
        BY ThreadsLemma
      <4>3. n \in Range(queue'[p])
        BY <1>6, <4>1, <4>2, AppendLemma
      <4>. QED
        BY <1>2, <1>4, <4>1, <4>2, <4>3
    <3>. QED
      BY <2>1, <2>2, <3>1, <3>2, DispatchEffect
  <2>9. k \in Packets
    BY <2>4 DEF Packets
  <2>10. CASE k \in Settled
    BY <2>7, <2>10
  <2>11. CASE k = n
    BY <2>8, <2>11
  <2>12. ASSUME NEW t \in Threads, k \in Range(queue[t]), pc[t] # "done", k # n
         PROVE  k \in Range(queue'[t]) /\ pc'[t] # "done"
    BY <1>7, <2>5, <2>6, <2>12
  <2>. QED
    BY <1>5, <2>9, <2>10, <2>11, <2>12
<1>10. CASE \E t \in Threads : HandleTaskData(t)
  <2>1. PICK p \in Threads : HandleTaskData(p)
    BY <1>10
  <2>2. PICK n \in Packets : n = Head(queue[p])
    BY <2>1, HandleEffect
  <2>3. /\ p \in ParseThreads /\ queue[p] # <<>> /\ handled[p] \in Seq(Packets)
        /\ queue'[p] = Tail(queue[p]) /\ handled'[p] = Append(handled[p], n)
        /\ \A t \in Threads \ {p} : queue'[t] = queue[t]
        /\ \A t \in ParseThreads \ {p} : handled'[t] = handled[t]
        /\ UNCHANGED <<captured, dropped, late>>
    BY <2>1, <2>2, HandleEffect
  <2>4. Range(queue[p]) = Range(queue'[p]) \cup {n}
    BY <1>6, <2>2, <2>3, TailLemma
  <2>5. Range(handled'[p]) = Range(handled[p]) \cup {n}
    BY <2>3, AppendLemma
  <2>6. \A t \in ParseThreads : Range(handled[t]) \subseteq Range(handled'[t])
    BY <2>3, <2>5
  <2>7. Settled \subseteq Settled' /\ n \in Settled'
    <3>1. dropped' = dropped /\ late' = late
      BY <2>3
    <3>2. Settled \subseteq Settled'
      BY <2>6, <3>1 DEF Settled
    <3>3. n \in Settled'
      BY <2>3, <2>5 DEF Settled
    <3>. QED
      BY <3>2, <3>3
  <2>8. k \in Packets
    BY <2>3 DEF Packets
  <2>9. ASSUME NEW t \in Threads, k \in Range(queue[t]), pc[t] # "done", k # n
        PROVE  k \in Range(queue'[t]) /\ pc'[t] # "done"
    BY <1>7, <2>3, <2>4, <2>9
  <2>. QED
    BY <1>5, <2>7, <2>8, <2>9
<1>11. CASE Quiet
  <2>1. k \in Packets /\ UNCHANGED <<queue, handled, dropped, late>>
    BY <1>11 DEF Quiet, Packets
  <2>. QED
    BY <1>5, <1>7, <2>1 DEF Settled
<1>. QED
  BY <1>8, <1>9, <1>10, <1>11, StepCases
-----------------------------------------------------------------------------
(* Order.                                                                   *)

TracesSame == \A p \in ParseThreads : Trace(p)' = Trace(p)
MonsSame == \A m \in MonThreads : queue'[m] = queue[m]

(* A trace is a list of captured packets.                                   *)
LEMMA TraceType ==
  ASSUME TypeOK, NEW p \in ParseThreads
  PROVE  /\ Trace(p) \in Seq(Packets) /\ Len(Trace(p)) \in Nat
         /\ \A i \in 1..Len(Trace(p)) : Trace(p)[i] \in Packets
<1>1. handled[p] \in Seq(Packets) /\ queue[p] \in Seq(Packets)
  BY ThreadsLemma DEF TypeOK
<1>2. Trace(p) \in Seq(Packets)
  BY <1>1, TraceLemma DEF Trace
<1>. QED
  BY <1>2

(* What a step does to the packets that reached the parsers: a monitor      *)
(* thread appends the one it routes, and no other step changes a trace.     *)
LEMMA TraceStep ==
  ASSUME TypeOK, [Next]_vars
  PROVE  \/ TracesSame /\ MonsSame
         \/ /\ TracesSame
            /\ LET n == Len(captured) + 1
               IN  /\ Mon(n) \in MonThreads /\ n \in Nat /\ \A k \in Packets : k < n
                   /\ queue'[Mon(n)] = Append(queue[Mon(n)], n)
                   /\ \A m \in MonThreads \ {Mon(n)} : queue'[m] = queue[m]
         \/ \E m \in MonThreads : \E n \in Packets :
              /\ queue[m] # <<>> /\ n = Head(queue[m]) /\ queue'[m] = Tail(queue[m])
              /\ \A u \in MonThreads \ {m} : queue'[u] = queue[u]
              /\ \/ TracesSame
                 \/ \E p \in ParseThreads :
                      /\ ~Dropped(n) /\ p = Parser(Flow(n))
                      /\ Trace(p)' = Append(Trace(p), n)
                      /\ \A q \in ParseThreads \ {p} : Trace(q)' = Trace(q)
<1>0. \A t \in Threads : queue[t] \in Seq(Packets)
  BY DEF TypeOK
<1>1. \A p \in ParseThreads : p \in Threads /\ p \notin MonThreads /\ handled[p] \in Seq(Packets)
  BY ThreadsLemma DEF TypeOK
<1>2. MonThreads \subseteq Threads
  BY ThreadsLemma
<1>3. ASSUME NEW pkt \in Wire, Capture(pkt), NEW n, n = Len(captured) + 1
      PROVE  /\ TracesSame
             /\ Mon(n) \in MonThreads /\ n \in Nat /\ \A k \in Packets : k < n
             /\ queue'[Mon(n)] = Append(queue[Mon(n)], n)
             /\ \A m \in MonThreads \ {Mon(n)} : queue'[m] = queue[m]
  <2>1. /\ Mon(n) \in MonThreads /\ n \in Nat /\ \A k \in Packets : k < n
        /\ queue'[Mon(n)] = Append(queue[Mon(n)], n)
        /\ \A t \in Threads \ {Mon(n)} : queue'[t] = queue[t]
    BY <1>3, CaptureEffect
  <2>2. handled' = handled
    BY <1>3 DEF Capture, hist
  <2>3. TracesSame
    BY <1>1, <2>1, <2>2 DEF TracesSame, Trace
  <2>. QED
    BY <1>2, <2>1, <2>3
<1>4. ASSUME NEW m \in Threads, Dispatch(m)
      PROVE  m \in MonThreads /\ \E n \in Packets :
              /\ queue[m] # <<>> /\ n = Head(queue[m]) /\ queue'[m] = Tail(queue[m])
              /\ \A u \in MonThreads \ {m} : queue'[u] = queue[u]
              /\ \/ TracesSame
                 \/ \E p \in ParseThreads :
                      /\ ~Dropped(n) /\ p = Parser(Flow(n))
                      /\ Trace(p)' = Append(Trace(p), n)
                      /\ \A q \in ParseThreads \ {p} : Trace(q)' = Trace(q)
  <2>1. PICK n \in Packets : n = Head(queue[m])
    BY <1>4, DispatchEffect
  <2>2. m \in MonThreads /\ queue[m] # <<>> /\ queue'[m] = Tail(queue[m])
    BY <1>4, <2>1, DispatchEffect
  <2>3. handled' = handled
    BY <1>4 DEF Dispatch
  <2>4. CASE \A t \in Threads \ {m} : queue'[t] = queue[t]
    <3>1. TracesSame
      BY <1>1, <2>2, <2>3, <2>4 DEF TracesSame, Trace
    <3>. QED
      BY <1>2, <2>1, <2>2, <2>4, <3>1
  <2>5. CASE \E p \in ParseThreads :
               /\ ~Dropped(n) /\ p = Parser(Flow(n)) /\ p # m
               /\ queue'[p] = Append(queue[p], n)
               /\ \A t \in Threads \ {m, p} : queue'[t] = queue[t]
    <3>1. PICK p \in ParseThreads :
               /\ ~Dropped(n) /\ p = Parser(Flow(n)) /\ p # m
               /\ queue'[p] = Append(queue[p], n)
               /\ \A t \in Threads \ {m, p} : queue'[t] = queue[t]
      BY <2>5
    <3>2. Trace(p)' = Append(Trace(p), n)
      <4>1. handled[p] \o Append(queue[p], n) = Append(handled[p] \o queue[p], n)
        <5>1. handled[p] \in Seq(Packets) /\ queue[p] \in Seq(Packets)
          BY <1>0, <1>1
        <5>2. \A h, q \in Seq(Packets) : h \o Append(q, n) = Append(h \o q, n)
          BY TracePush
        <5>. QED
          BY <5>1, <5>2, Zenon
      <4>. QED
        BY <2>3, <3>1, <4>1 DEF Trace
    <3>3. \A q \in ParseThreads \ {p} : Trace(q)' = Trace(q)
      BY <1>1, <2>2, <2>3, <3>1 DEF Trace
    <3>4. \A u \in MonThreads \ {m} : queue'[u] = queue[u]
      BY <1>1, <1>2, <3>1
    <3>. QED
      BY <2>1, <2>2, <3>1, <3>2, <3>3, <3>4
  <2>. QED
    BY <1>4, <2>1, <2>4, <2>5, DispatchEffect
<1>5. ASSUME NEW p \in Threads, HandleTaskData(p) PROVE TracesSame /\ MonsSame
  <2>1. PICK n \in Packets : n = Head(queue[p])
    BY <1>5, HandleEffect
  <2>2. /\ p \in ParseThreads /\ queue[p] # <<>>
        /\ queue'[p] = Tail(queue[p]) /\ handled'[p] = Append(handled[p], n)
        /\ \A t \in Threads \ {p} : queue'[t] = queue[t]
        /\ \A t \in ParseThreads \ {p} : handled'[t] = handled[t]
    BY <1>5, <2>1, HandleEffect
  <2>3. Append(handled[p], n) \o Tail(queue[p]) = handled[p] \o queue[p]
    <3>1. handled[p] \in Seq(Packets) /\ queue[p] \in Seq(Packets)
      BY <1>0, <1>1, <2>2
    <3>. QED
      BY <2>1, <2>2, <3>1, TraceHandle
  <2>. QED
    BY <1>1, <1>2, <2>2, <2>3 DEF TracesSame, MonsSame, Trace
<1>6. ASSUME Quiet PROVE TracesSame /\ MonsSame
  BY <1>6 DEF Quiet, TracesSame, MonsSame, Trace
<1>. QED
  BY <1>3, <1>4, <1>5, <1>6, StepCases

(* The list of a monitor thread keeps the order of its packets: it grows at *)
(* the end with the newest packet and shrinks at the head.                  *)
LEMMA DealtStep ==
  ASSUME TypeOK, DealtOK, [Next]_vars
  PROVE  DealtOK'
<1>1. SUFFICES ASSUME NEW u \in MonThreads, NEW i \in 1..Len(queue'[u]), NEW j \in 1..Len(queue'[u])
               PROVE  Mon(queue'[u][i]) = u /\ (i < j => queue'[u][i] < queue'[u][j])
  BY DEF DealtOK
<1>2. queue[u] \in Seq(Packets) /\ Len(queue[u]) \in Nat
  BY ThreadsLemma DEF TypeOK
<1>3. \A k, l \in 1..Len(queue[u]) :
        /\ Mon(queue[u][k]) = u /\ queue[u][k] \in Packets
        /\ k < l => queue[u][k] < queue[u][l]
  BY <1>2 DEF DealtOK
<1>4. CASE queue'[u] = queue[u]
  BY <1>1, <1>3, <1>4
<1>5. CASE \E n \in Nat : /\ Mon(n) = u /\ queue'[u] = Append(queue[u], n)
                          /\ \A k \in Packets : k < n
  <2>1. PICK n \in Nat : /\ Mon(n) = u /\ queue'[u] = Append(queue[u], n)
                         /\ \A k \in Packets : k < n
    BY <1>5
  <2>2. /\ Len(queue'[u]) = Len(queue[u]) + 1
        /\ \A k \in 1..Len(queue[u]) : queue'[u][k] = queue[u][k]
        /\ queue'[u][Len(queue[u]) + 1] = n
    <3>1. Packets \subseteq Nat
      BY PacketsLemma
    <3>2. queue[u] \in Seq(Nat)
      BY <1>2, <3>1, SeqGrow
    <3>. QED
      BY <2>1, <3>2, AppendLemma
  <2>3. i \in 1..Len(queue[u]) \/ i = Len(queue[u]) + 1
    BY <1>2, <2>2
  <2>4. j \in 1..Len(queue[u]) \/ j = Len(queue[u]) + 1
    BY <1>2, <2>2
  <2>5. CASE i = Len(queue[u]) + 1
    <3>1. ~(i < j)
      BY <1>2, <2>4, <2>5
    <3>. QED
      BY <2>1, <2>2, <2>5, <3>1
  <2>6. CASE i \in 1..Len(queue[u]) /\ j \in 1..Len(queue[u])
    BY <1>3, <2>2, <2>6
  <2>7. CASE i \in 1..Len(queue[u]) /\ j = Len(queue[u]) + 1
    BY <1>3, <2>1, <2>2, <2>7
  <2>. QED
    BY <2>3, <2>4, <2>5, <2>6, <2>7
<1>6. CASE queue[u] # <<>> /\ queue'[u] = Tail(queue[u])
  <2>1. \A k \in 1..Len(queue'[u]) : queue'[u][k] = queue[u][k + 1] /\ k + 1 \in 1..Len(queue[u])
    BY <1>2, <1>6, TailLemma
  <2>2. /\ queue'[u][i] = queue[u][i + 1] /\ i + 1 \in 1..Len(queue[u])
        /\ queue'[u][j] = queue[u][j + 1] /\ j + 1 \in 1..Len(queue[u])
    BY <2>1
  <2>3. i < j => i + 1 < j + 1
    BY <1>2, <2>2
  <2>. QED
    BY <1>3, <2>2, <2>3
<1>7. \/ queue'[u] = queue[u]
      \/ \E n \in Nat : Mon(n) = u /\ queue'[u] = Append(queue[u], n) /\ \A k \in Packets : k < n
      \/ queue[u] # <<>> /\ queue'[u] = Tail(queue[u])
  BY TraceStep DEF MonsSame
<1>. QED
  BY <1>4, <1>5, <1>6, <1>7

(* Parsers get what is routed to them, in the order in which each monitor   *)
(* thread had it.                                                           *)
LEMMA RoutedStep ==
  ASSUME TypeOK, DealtOK, RoutedOK, AheadOK, [Next]_vars
  PROVE  RoutedOK'
<1>1. SUFFICES ASSUME NEW p \in ParseThreads,
                      NEW i \in 1..Len(Trace(p)'), NEW j \in 1..Len(Trace(p)'),
                      NEW x, x = Trace(p)'[i], NEW y, y = Trace(p)'[j]
               PROVE  /\ ~Dropped(x)' /\ Parser(Flow(x))' = p
                      /\ (i < j /\ Mon(x) = Mon(y)) => x < y
  BY DEF RoutedOK, Dropped, Kind, Flow
<1>2. Trace(p) \in Seq(Packets) /\ Len(Trace(p)) \in Nat
  BY TraceType
<1>3. \A k, l \in 1..Len(Trace(p)) :
        /\ Trace(p)[k] \in Packets
        /\ ~Dropped(Trace(p)[k]) /\ Parser(Flow(Trace(p)[k])) = p
        /\ (k < l /\ Mon(Trace(p)[k]) = Mon(Trace(p)[l])) => Trace(p)[k] < Trace(p)[l]
  BY <1>2, TraceType DEF RoutedOK
<1>4. \A n \in Packets : Flow(n)' = Flow(n) /\ Dropped(n)' = Dropped(n)
  BY OldPackets
<1>5. \A n : \A k \in 1..Len(Trace(p)) : n = Trace(p)[k] => ~Dropped(n)' /\ Parser(Flow(n))' = p
  <2>1. SUFFICES ASSUME NEW n, NEW k \in 1..Len(Trace(p)), n = Trace(p)[k]
                 PROVE  ~Dropped(n)' /\ Parser(Flow(n))' = p
    OBVIOUS
  <2>2. n \in Packets /\ ~Dropped(n) /\ Parser(Flow(n)) = p
    BY <1>3, <2>1
  <2>3. Parser(Flow(n))' = Parser(Flow(n))
    BY <1>4, <2>2 DEF Parser, RoutePort
  <2>. QED
    BY <1>4, <2>2, <2>3
<1>6. CASE Trace(p)' = Trace(p)
  BY <1>1, <1>3, <1>5, <1>6
<1>7. CASE \E m \in MonThreads : \E n \in Packets :
             /\ queue[m] # <<>> /\ n = Head(queue[m])
             /\ ~Dropped(n) /\ p = Parser(Flow(n)) /\ Trace(p)' = Append(Trace(p), n)
  <2>1. PICK m \in MonThreads, n \in Packets :
             /\ queue[m] # <<>> /\ n = Head(queue[m])
             /\ ~Dropped(n) /\ p = Parser(Flow(n)) /\ Trace(p)' = Append(Trace(p), n)
    BY <1>7
  <2>2. /\ Len(Trace(p)') = Len(Trace(p)) + 1
        /\ \A k \in 1..Len(Trace(p)) : Trace(p)'[k] = Trace(p)[k]
        /\ Trace(p)'[Len(Trace(p)) + 1] = n
    <3>1. \A s \in Seq(Packets) : /\ Len(Append(s, n)) = Len(s) + 1
                                  /\ \A k \in 1..Len(s) : Append(s, n)[k] = s[k]
                                  /\ Append(s, n)[Len(s) + 1] = n
      BY <2>1, AppendLemma
    <3>. QED
      BY <1>2, <2>1, <3>1
  <2>3. n = queue[m][1] /\ 1 \in 1..Len(queue[m])
    <3>1. queue[m] \in Seq(Packets)
      BY ThreadsLemma DEF TypeOK
    <3>. QED
      BY <2>1, <3>1, TailLemma
  <2>4. Mon(n) = m /\ \A k \in 1..Len(Trace(p)) : Mon(Trace(p)[k]) = m => Trace(p)[k] < n
    BY <2>3 DEF DealtOK, AheadOK
  <2>5. ~Dropped(n)' /\ Parser(Flow(n))' = p
    BY <1>4, <2>1 DEF Parser, RoutePort
  <2>. DEFINE N == Len(Trace(p))
  <2>6. i \in 1..N \/ i = N + 1
    BY <1>2, <2>2
  <2>7. j \in 1..N \/ j = N + 1
    BY <1>2, <2>2
  <2>8. CASE i = N + 1
    <3>1. ~(i < j)
      BY <1>2, <2>7, <2>8
    <3>. QED
      BY <1>1, <2>2, <2>5, <2>8, <3>1
  <2>9. CASE i \in 1..N /\ j \in 1..N
    BY <1>1, <1>3, <1>5, <2>2, <2>9
  <2>10. CASE i \in 1..N /\ j = N + 1
    BY <1>1, <1>3, <1>5, <2>2, <2>4, <2>10
  <2>. QED
    BY <2>6, <2>7, <2>8, <2>9, <2>10
<1>8. \/ Trace(p)' = Trace(p)
      \/ \E m \in MonThreads : \E n \in Packets :
             /\ queue[m] # <<>> /\ n = Head(queue[m])
             /\ ~Dropped(n) /\ p = Parser(Flow(n)) /\ Trace(p)' = Append(Trace(p), n)
  BY TraceStep DEF TracesSame
<1>. QED
  BY <1>6, <1>7, <1>8

(* What a monitor thread has routed stays older than what is in its list.   *)
LEMMA AheadStep ==
  ASSUME TypeOK, DealtOK, AheadOK, [Next]_vars
  PROVE  AheadOK'
<1>1. SUFFICES ASSUME NEW p \in ParseThreads, NEW u \in MonThreads,
                      NEW i \in 1..Len(Trace(p)'), NEW j \in 1..Len(queue'[u]),
                      Mon(Trace(p)'[i]) = u
               PROVE  Trace(p)'[i] < queue'[u][j]
  BY DEF AheadOK
<1>2. /\ Trace(p) \in Seq(Packets) /\ Len(Trace(p)) \in Nat
      /\ \A k \in 1..Len(Trace(p)) : Trace(p)[k] \in Packets
  BY TraceType
<1>3. \A k \in 1..Len(Trace(p)), l \in 1..Len(queue[u]) :
        Mon(Trace(p)[k]) = u => Trace(p)[k] < queue[u][l]
  BY DEF AheadOK
<1>4. queue[u] \in Seq(Packets) /\ Len(queue[u]) \in Nat
  BY ThreadsLemma DEF TypeOK
<1>5. ASSUME TracesSame PROVE i \in 1..Len(Trace(p)) /\ Trace(p)'[i] = Trace(p)[i] /\ Mon(Trace(p)[i]) = u
  BY <1>1, <1>5 DEF TracesSame
<1>6. CASE TracesSame /\ MonsSame
  BY <1>3, <1>5, <1>6 DEF MonsSame
<1>7. CASE /\ TracesSame
           /\ LET n == Len(captured) + 1
              IN  /\ Mon(n) \in MonThreads /\ n \in Nat /\ \A k \in Packets : k < n
                  /\ queue'[Mon(n)] = Append(queue[Mon(n)], n)
                  /\ \A m \in MonThreads \ {Mon(n)} : queue'[m] = queue[m]
  <2>1. PICK n \in Nat : /\ \A k \in Packets : k < n
                         /\ queue'[Mon(n)] = Append(queue[Mon(n)], n)
                         /\ \A m \in MonThreads \ {Mon(n)} : queue'[m] = queue[m]
    BY <1>7
  <2>2. CASE u # Mon(n)
    BY <1>3, <1>5, <1>7, <2>1, <2>2
  <2>3. CASE u = Mon(n)
    <3>1. Packets \subseteq Nat
      BY PacketsLemma
    <3>2. queue[u] \in Seq(Nat)
      BY <1>4, <3>1, SeqGrow
    <3>3. /\ \A k \in 1..Len(queue[u]) : queue'[u][k] = queue[u][k]
          /\ queue'[u][Len(queue[u]) + 1] = n
          /\ Len(queue'[u]) = Len(queue[u]) + 1
      <4>1. \A s \in Seq(Nat) : /\ Len(Append(s, n)) = Len(s) + 1
                                /\ \A k \in 1..Len(s) : Append(s, n)[k] = s[k]
                                /\ Append(s, n)[Len(s) + 1] = n
        BY AppendLemma
      <4>2. queue'[u] = Append(queue[u], n)
        BY <2>1, <2>3
      <4>. QED
        BY <3>2, <4>1, <4>2
    <3>4. j \in 1..Len(queue[u]) \/ j = Len(queue[u]) + 1
      BY <1>4, <3>3
    <3>. QED
      BY <1>2, <1>3, <1>5, <1>7, <2>1, <3>3, <3>4
  <2>. QED
    BY <2>2, <2>3
<1>8. ASSUME NEW m \in MonThreads, NEW n \in Packets,
             queue[m] # <<>>, n = Head(queue[m]), queue'[m] = Tail(queue[m]),
             \A v \in MonThreads \ {m} : queue'[v] = queue[v],
             \/ TracesSame
             \/ \E q \in ParseThreads :
                      /\ ~Dropped(n) /\ q = Parser(Flow(n))
                      /\ Trace(q)' = Append(Trace(q), n)
                      /\ \A r \in ParseThreads \ {q} : Trace(r)' = Trace(r)
      PROVE  Trace(p)'[i] < queue'[u][j]
  <2>1. queue[m] \in Seq(Packets)
    BY ThreadsLemma DEF TypeOK
  <2>2. /\ n = queue[m][1] /\ 1 \in 1..Len(queue[m])
        /\ \A k \in 1..Len(queue'[m]) : queue'[m][k] = queue[m][k + 1] /\ k + 1 \in 1..Len(queue[m])
    BY <1>8, <2>1, TailLemma
  <2>3. Mon(n) = m
    BY <2>2 DEF DealtOK
  <2>4. PICK l \in 1..Len(queue[u]) : queue'[u][j] = queue[u][l] /\ (u = m => 1 < l)
    <3>1. CASE u = m
      <4>1. queue'[u][j] = queue[u][j + 1] /\ j + 1 \in 1..Len(queue[u]) /\ 1 < j + 1
        BY <2>2, <3>1
      <4>. QED
        BY <4>1
    <3>2. CASE u # m
      BY <1>8, <3>2
    <3>. QED
      BY <3>1, <3>2
  <2>5. CASE i \in 1..Len(Trace(p)) /\ Trace(p)'[i] = Trace(p)[i]
    BY <1>1, <1>3, <2>4, <2>5
  <2>6. CASE Trace(p)'[i] = n
    <3>1. u = m
      BY <1>1, <2>3, <2>6
    <3>2. queue[m][1] < queue[m][l]
      BY <2>2, <2>4, <3>1 DEF DealtOK
    <3>. QED
      BY <2>2, <2>4, <2>6, <3>1, <3>2
  <2>7. Trace(p)' = Trace(p) \/ Trace(p)' = Append(Trace(p), n)
    BY <1>8 DEF TracesSame
  <2>8. CASE Trace(p)' = Append(Trace(p), n)
    <3>1. \A s \in Seq(Packets) : /\ Len(Append(s, n)) = Len(s) + 1
                                  /\ \A k \in 1..Len(s) : Append(s, n)[k] = s[k]
                                  /\ Append(s, n)[Len(s) + 1] = n
      BY AppendLemma
    <3>2. /\ Len(Trace(p)') = Len(Trace(p)) + 1
          /\ \A k \in 1..Len(Trace(p)) : Trace(p)'[k] = Trace(p)[k]
          /\ Trace(p)'[Len(Trace(p)) + 1] = n
      BY <1>2, <2>8, <3>1
    <3>3. i \in 1..Len(Trace(p)) \/ i = Len(Trace(p)) + 1
      BY <1>2, <3>2
    <3>. QED
      BY <2>5, <2>6, <3>2, <3>3
  <2>. QED
    BY <2>5, <2>7, <2>8
<1>. QED
  BY <1>6, <1>7, <1>8, TraceStep

(* A flow in a map has had its last packet that opens it handled after      *)
(* every FIN: the packet that puts it there is the last of the trace that   *)
(* was handled, and RoutedOK says that it is newer if the same monitor      *)
(* thread had both.                                                         *)
LEMMA ClosedStep ==
  ASSUME TypeOK, MapsOK, TotalsMatchMaps, RoutedOK, ClosedStaysClosed, [Next]_vars
  PROVE  ClosedStaysClosed'
<1>1. \A p \in ParseThreads : handled[p] \in Seq(Packets) /\ Len(handled[p]) \in Nat
                              /\ DOMAIN handled[p] = 1..Len(handled[p])
                              /\ \A i \in 1..Len(handled[p]) : handled[p][i] \in Packets
  BY DEF TypeOK
<1>2. \A n \in Packets : Flow(n)' = Flow(n) /\ Kind(n)' = Kind(n)
  BY OldPackets
<1>3. SUFFICES ASSUME NEW p \in ParseThreads, NEW f \in conns'[p], NEW i \in DOMAIN handled'[p],
                      NEW a, a = handled'[p][i], Flow(a)' = f, Kind(a)' \in {"fin", "datafin"}
               PROVE  \E j \in DOMAIN handled'[p] : \E b :
                        /\ b = handled'[p][j] /\ Flow(b)' = f /\ Kind(b)' = "data" /\ j > i
                        /\ b > a \/ Mon(b) # Mon(a)
  BY DEF ClosedStaysClosed, Flow, Kind
<1>4. ASSUME f \in conns[p], i \in 1..Len(handled[p]), a = handled[p][i],
             \A j \in 1..Len(handled[p]) : j \in DOMAIN handled'[p] /\ handled'[p][j] = handled[p][j]
      PROVE  \E j \in DOMAIN handled'[p] : \E b :
                        /\ b = handled'[p][j] /\ Flow(b)' = f /\ Kind(b)' = "data" /\ j > i
                        /\ b > a \/ Mon(b) # Mon(a)
  <2>1. a \in Packets /\ Flow(a) = f /\ Kind(a) \in {"fin", "datafin"}
    BY <1>1, <1>2, <1>3, <1>4
  <2>2. PICK j \in 1..Len(handled[p]) :
           /\ Flow(handled[p][j]) = f /\ Kind(handled[p][j]) = "data" /\ j > i
           /\ handled[p][j] > a \/ Mon(handled[p][j]) # Mon(a)
    BY <1>1, <1>4, <2>1 DEF ClosedStaysClosed
  <2>3. PICK b : b = handled[p][j]
    OBVIOUS
  <2>4. b \in Packets /\ Flow(b)' = f /\ Kind(b)' = "data"
    BY <1>1, <1>2, <2>2, <2>3
  <2>. QED
    BY <1>4, <2>2, <2>3, <2>4
<1>5. CASE conns'[p] = conns[p] /\ handled'[p] = handled[p]
  BY <1>1, <1>3, <1>4, <1>5
<1>6. CASE \E t \in Threads : HandleTaskData(t)
  <2>1. PICK t \in Threads : HandleTaskData(t)
    BY <1>6
  <2>2. PICK n \in Packets : n = Head(queue[t])
    BY <2>1, HandleEffect
  <2>3. /\ t \in ParseThreads /\ queue[t] # <<>> /\ queue[t] \in Seq(Packets)
        /\ handled'[t] = Append(handled[t], n)
        /\ \A u \in ParseThreads \ {t} : handled'[u] = handled[u]
    BY <2>1, <2>2, HandleEffect
  <2>4. /\ \A u \in ParseThreads \ {t} : conns'[u] = conns[u]
        /\ \A g \in conns'[t] :
             \/ g \in conns[t] /\ (Flow(n) = g => Kind(n) \notin {"fin", "datafin"})
             \/ Flow(n) = g /\ Kind(n) = "data"
    BY <2>1, <2>2, StatsStep
  <2>5. CASE p # t
    BY <1>5, <2>3, <2>4, <2>5
  <2>6. CASE p = t
    <3>. DEFINE N == Len(handled[p])
    <3>1. /\ Len(handled'[p]) = N + 1 /\ N \in Nat
          /\ \A k \in 1..N : handled'[p][k] = handled[p][k]
          /\ handled'[p][N + 1] = n
          /\ DOMAIN handled'[p] = 1..(N + 1)
      <4>1. \A s \in Seq(Packets) :
              /\ Len(Append(s, n)) = Len(s) + 1
              /\ \A k \in 1..Len(s) : Append(s, n)[k] = s[k]
              /\ Append(s, n)[Len(s) + 1] = n
              /\ Append(s, n) \in Seq(Packets)
        BY AppendLemma
      <4>2. handled'[p] \in Seq(Packets)
        BY <1>1, <2>3, <2>6, <4>1
      <4>3. DOMAIN handled'[p] = 1..Len(handled'[p])
        BY <4>2
      <4>. QED
        BY <1>1, <2>3, <2>6, <4>1, <4>3
    <3>2. i \in 1..N \/ i = N + 1
      BY <3>1
    <3>3. Flow(n)' = Flow(n) /\ Kind(n)' = Kind(n)
      BY <1>2, <2>2
    <3>4. CASE i = N + 1
      <4>1. a = n /\ Flow(n) = f /\ Kind(n) \in {"fin", "datafin"}
        BY <1>3, <3>1, <3>3, <3>4
      <4>. QED
        BY <2>4, <2>6, <4>1
    <3>5. CASE i \in 1..N /\ f \in conns[p]
      BY <1>3, <1>4, <3>1, <3>5
    <3>6. CASE i \in 1..N /\ Flow(n) = f /\ Kind(n) = "data"
      <4>1. a = handled[p][i] /\ a \in Packets
        BY <1>1, <1>3, <3>1, <3>6
      <4>2. Trace(p)[i] = a /\ Trace(p)[N + 1] = n /\ i \in 1..Len(Trace(p)) /\ N + 1 \in 1..Len(Trace(p))
        <5>1. handled[p] \in Seq(Packets) /\ queue[p] \in Seq(Packets) /\ queue[p] # <<>>
          BY <1>1, <2>3, <2>6
        <5>2. \A h, q \in Seq(Packets) :
                /\ Len(h \o q) = Len(h) + Len(q) /\ Len(h) \in Nat /\ Len(q) \in Nat /\ Len(h \o q) \in Nat
                /\ \A k \in 1..Len(h) : (h \o q)[k] = h[k]
                /\ q # <<>> => Len(h) + 1 \in 1..Len(h \o q) /\ (h \o q)[Len(h) + 1] = Head(q)
          BY TraceLemma
        <5>3. /\ Len(Trace(p)) = N + Len(queue[p]) /\ Len(queue[p]) \in Nat /\ Len(Trace(p)) \in Nat
              /\ \A k \in 1..N : Trace(p)[k] = handled[p][k]
              /\ N + 1 \in 1..Len(Trace(p)) /\ Trace(p)[N + 1] = Head(queue[p])
          BY <5>1, <5>2, Zenon DEF Trace
        <5>4. i \in 1..Len(Trace(p))
          <6>1. \A x, y, l \in Nat : l = x + y => 1..x \subseteq 1..l
            OBVIOUS
          <6>. QED
            BY <3>1, <3>6, <5>3, <6>1
        <5>. QED
          BY <2>2, <2>6, <3>6, <4>1, <5>3, <5>4
      <4>3. Mon(a) = Mon(n) => a < n
        <5>1. i < N + 1
          BY <3>1, <3>6
        <5>. QED
          BY <4>2, <5>1 DEF RoutedOK
      <4>4. n > a \/ Mon(n) # Mon(a)
        <5>1. n \in Nat /\ a \in Nat
          BY <4>1, PacketsLemma
        <5>. QED
          BY <4>3, <5>1
      <4>5. N + 1 \in DOMAIN handled'[p] /\ N + 1 > i
        BY <3>1, <3>6
      <4>. QED
        BY <3>1, <3>3, <3>6, <4>4, <4>5
    <3>. QED
      BY <2>4, <2>6, <3>2, <3>4, <3>5, <3>6
  <2>. QED
    BY <2>5, <2>6
<1>7. CASE \E pkt \in Wire : Capture(pkt)
  BY <1>5, <1>7 DEF Capture, stats, hist
<1>8. CASE \E t \in Threads : Dispatch(t)
  BY <1>5, <1>8 DEF Dispatch, stats
<1>9. CASE Quiet
  BY <1>5, <1>9 DEF Quiet
<1>. QED
  BY <1>6, <1>7, <1>8, <1>9, StepCases
-----------------------------------------------------------------------------
(* The theorems.                                                            *)

(* The invariant holds at the start and after every step.                   *)
LEMMA InitInv == Init => Inv
<1>. SUFFICES ASSUME Init PROVE Inv
  OBVIOUS
<1>1. /\ captured = <<>> /\ main = "capturing" /\ accepts = 0 /\ closes = 0 /\ leaked = 0
      /\ queue = [t \in Threads |-> <<>>] /\ pc = [t \in Threads |-> "loop"]
      /\ stop = [t \in Threads |-> FALSE] /\ conns = [p \in ParseThreads |-> {}]
      /\ handled = [p \in ParseThreads |-> <<>>] /\ dropped = {} /\ late = {}
      /\ deleted = {} /\ touched = {}
  BY DEF Init
<1>2. Packets = {}
  BY <1>1 DEF Packets
<1>3. TypeOK
  <2>1. captured \in Seq(Wire) /\ Len(captured) <= MaxPackets
    BY <1>1, ThreadsLemma
  <2>2. queue \in [Threads -> Seq(Packets)] /\ handled \in [ParseThreads -> Seq(Packets)]
    BY <1>1
  <2>. QED
    BY <1>1, <2>1, <2>2 DEF TypeOK
<1>4. FlagsOK /\ NothingLost /\ JoinOK /\ MapsOK
  BY <1>1, <1>2, ThreadsLemma DEF FlagsOK, NothingLost, JoinOK, JoinedNeverTouches, MapsOK
<1>5. \A p \in ParseThreads : Trace(p) = <<>>
  BY <1>1, ThreadsLemma DEF Trace
<1>6. \A m \in MonThreads : queue[m] = <<>>
  BY <1>1, ThreadsLemma
<1>7. DealtOK /\ RoutedOK /\ AheadOK
  <2>1. 1..Len(<<>>) = {}
    OBVIOUS
  <2>. QED
    BY <1>5, <1>6, <2>1 DEF DealtOK, RoutedOK, AheadOK
<1>8. ClosedForGood
  <2>1. ClosedStaysClosed
    BY <1>1 DEF ClosedStaysClosed
  <2>2. {x \in ParseThreads \X Flows : x[2] \in conns[x[1]]} = {}
    BY <1>1
  <2>3. TotalsMatchMaps
    <3>1. Cardinality({x \in ParseThreads \X Flows : x[2] \in conns[x[1]]}) = 0
      BY <2>2, FS_EmptySet
    <3>. QED
      BY <1>1, <3>1 DEF TotalsMatchMaps
  <2>. QED
    BY <2>1, <2>3 DEF ClosedForGood
<1>. QED
  BY <1>3, <1>4, <1>7, <1>8 DEF Inv

(* Every conjunct of the invariant is kept by the steps.                    *)
LEMMA InvStep == Inv /\ [Next]_vars => Inv'
<1>. SUFFICES ASSUME Inv, [Next]_vars PROVE Inv'
  OBVIOUS
<1>1. /\ TypeOK /\ FlagsOK /\ NothingLost /\ JoinOK /\ DealtOK /\ RoutedOK /\ AheadOK
      /\ MapsOK /\ ClosedStaysClosed /\ TotalsMatchMaps
  BY DEF Inv, ClosedForGood
<1>2. TypeOK' /\ MapsOK' /\ TotalsMatchMaps'
  BY <1>1, TypeStep
<1>3. FlagsOK' /\ JoinOK' /\ NothingLost'
  BY <1>1, FlagsStep, JoinStep, LostStep
<1>4. DealtOK' /\ RoutedOK' /\ AheadOK'
  BY <1>1, DealtStep, RoutedStep, AheadStep
<1>5. ClosedStaysClosed'
  BY <1>1, ClosedStep
<1>. QED
  BY <1>2, <1>3, <1>4, <1>5 DEF Inv, ClosedForGood

(* The invariant of the capture, the threads, the maps and the totals.      *)
THEOREM InvHolds == Spec => []Inv
BY InitInv, InvStep, PTL DEF Spec

(* Threads, lists, maps and totals keep their types: closes and leaked stay *)
(* at or below accepts (record_acceptClientConn, record_closeClientConn).   *)
THEOREM TypeCorrect == Spec => []TypeOK
<1>1. Inv => TypeOK
  BY DEF Inv
<1>. QED
  BY <1>1, InvHolds, PTL

(* The packets of one connection that one monitor thread had are handled by *)
(* one parser and in the order of the capture (SuperMonitor::handle_task,   *)
(* ParseData::handle_protocolData), unless both ends are local.             *)
THEOREM OrderHolds == Spec => []OrderWithinThread
<1>1. ASSUME TypeOK, RoutedOK PROVE OrderWithinThread
  <2>1. SUFFICES ASSUME NEW p \in ParseThreads, NEW q \in ParseThreads,
                        NEW i \in DOMAIN handled[p], NEW j \in DOMAIN handled[q],
                        NEW a, a = handled[p][i], NEW b, b = handled[q][j],
                        Flow(a).conn = Flow(b).conn, Local[Flow(a).conn] # Ends, Mon(a) = Mon(b)
                 PROVE  p = q /\ (i < j <=> a < b)
    BY DEF OrderWithinThread
  <2>2. \A h, l \in Seq(Packets) :
                /\ Len(h \o l) = Len(h) + Len(l) /\ Len(h) \in Nat /\ Len(l) \in Nat /\ Len(h \o l) \in Nat
                /\ \A k \in 1..Len(h) : (h \o l)[k] = h[k]
    BY TraceLemma
  <2>3. \A x, y, l \in Nat : l = x + y => 1..x \subseteq 1..l
    OBVIOUS
  <2>4. ASSUME NEW r \in ParseThreads, NEW k \in DOMAIN handled[r]
        PROVE  k \in 1..Len(Trace(r)) /\ Trace(r)[k] = handled[r][k] /\ handled[r][k] \in Packets
               /\ k \in Nat
    <3>1. handled[r] \in Seq(Packets) /\ queue[r] \in Seq(Packets)
      BY <1>1, ThreadsLemma DEF TypeOK
    <3>2. DOMAIN handled[r] = 1..Len(handled[r]) /\ \A l \in 1..Len(handled[r]) : handled[r][l] \in Packets
      BY <3>1
    <3>3. /\ Len(Trace(r)) = Len(handled[r]) + Len(queue[r])
          /\ Len(handled[r]) \in Nat /\ Len(queue[r]) \in Nat /\ Len(Trace(r)) \in Nat
          /\ \A l \in 1..Len(handled[r]) : Trace(r)[l] = handled[r][l]
      BY <2>2, <3>1, Zenon DEF Trace
    <3>4. 1..Len(handled[r]) \subseteq 1..Len(Trace(r))
      BY <2>3, <3>3
    <3>5. k \in 1..Len(handled[r]) /\ k \in Nat
      BY <3>2, <3>3
    <3>. QED
      BY <3>2, <3>3, <3>4, <3>5
  <2>5. a \in Packets /\ b \in Packets /\ a = Trace(p)[i] /\ b = Trace(q)[j]
        /\ i \in 1..Len(Trace(p)) /\ j \in 1..Len(Trace(q)) /\ i \in Nat /\ j \in Nat
    BY <2>1, <2>4
  <2>6. ~Dropped(a) /\ Parser(Flow(a)) = p /\ Parser(Flow(b)) = q
    BY <1>1, <2>5 DEF RoutedOK
  <2>7. RoutePort(Flow(a)) = RoutePort(Flow(b))
    <3>. DEFINE c == Flow(a).conn
    <3>1. Flow(a) \in Flows /\ Flow(b) \in Flows
      BY <1>1, <2>5, PacketsLemma
    <3>2. c \in Conns /\ Flow(a).from \in Ends /\ Flow(b).from \in Ends
      BY <3>1 DEF Flows
    <3>3. Local[c] \subseteq Ends
      BY <3>2, MonitorAssumption
    <3>4. Local[c] # {} /\ Local[c] # Ends
      BY <2>1, <2>6 DEF Dropped
    <3>5. Local[c] = {"client"} \/ Local[c] = {"server"}
      BY <3>3, <3>4 DEF Ends
    <3>. QED
      BY <2>1, <3>2, <3>5 DEF RoutePort, Ends, Other
  <2>8. p = q
    BY <2>6, <2>7 DEF Parser
  <2>9. /\ i < j => a < b
        /\ j < i => b < a
        /\ i = j => a = b
    BY <1>1, <2>1, <2>5, <2>8 DEF RoutedOK
  <2>10. a \in Nat /\ b \in Nat
    BY <1>1, <2>5, PacketsLemma
  <2>. QED
    BY <2>5, <2>8, <2>9, <2>10
<1>2. Inv => OrderWithinThread
  BY <1>1 DEF Inv
<1>. QED
  BY <1>2, InvHolds, PTL

(* A connection that a FIN closed comes back only with data that was        *)
(* captured later or through another monitor thread, and the totals agree   *)
(* with the maps (ParseData::handle_protocolData).                          *)
THEOREM ClosedHolds == Spec => []ClosedForGood
<1>1. Inv => ClosedForGood
  BY DEF Inv
<1>. QED
  BY <1>1, InvHolds, PTL

(* No captured packet disappears, whatever tests of the lists and flags are *)
(* made without their lock (SuperMonitor::start, ParseData::start).         *)
THEOREM NothingIsLost == Spec => []NothingLost
<1>1. Inv => NothingLost
  BY DEF Inv
<1>. QED
  BY <1>1, InvHolds, PTL

(* Only monitor threads that ~MonitorManager has not joined use a deleted   *)
(* parser.                                                                  *)
THEOREM JoinedAreSafe == Spec => []JoinedNeverTouches
<1>1. Inv => JoinedNeverTouches
  BY DEF Inv, JoinOK
<1>. QED
  BY <1>1, InvHolds, PTL
=============================================================================
