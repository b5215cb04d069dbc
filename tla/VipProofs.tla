------------------------------ MODULE VipProofs -------------------------------
(***************************************************************************)
(* Proofs about the virtual address, for any number of hosts and any       *)
(* capacity of their sockets and of the network between them.              *)
(***************************************************************************)
EXTENDS Vip, FiniteSetTheorems, TLAPS

\* A claim of h that no claim of g follows.
Last(q, g, h) == \E i \in 1..Len(q) : q[i] = h /\ \A j \in i..Len(q) : q[j] # g

\* g is still to hear a claim of h after the last of its own.
Yields(g, h) == flight[h][g] > 0 \/ Last(claims[g], g, h)

\* A host that has the address and has said so.
Claimed(h) == Running(h) /\ holds[h] /\ pc[h] # "broadcast"

\* Of two hosts that think the address theirs one is still to hear of the
\* other, unless a claim was lost.
OneYields ==
  ~lost => \A g, h \in Hosts : g # h /\ Claimed(g) /\ Claimed(h) => Yields(g, h) \/ Yields(h, g)

\* A host's own claim reaches it without the network.
OwnAtOnce == \A h \in Hosts : flight[h][h] = 0

Inv == TypeOK /\ OwnAtOnce /\ OneYields
-----------------------------------------------------------------------------
(* The queue of a socket after the host has read from it.                   *)
LEMMA TailOfClaims ==
  ASSUME NEW q \in Seq(Hosts), q # <<>>
  PROVE  /\ Head(q) = q[1] /\ Head(q) \in Hosts /\ Tail(q) \in Seq(Hosts)
         /\ Len(q) \in Nat /\ Len(Tail(q)) = Len(q) - 1
         /\ \A i \in 1..Len(Tail(q)) : Tail(q)[i] = q[i + 1]
OBVIOUS

(* The queue of a socket that has received a claim.                         *)
LEMMA OneMoreClaim ==
  ASSUME NEW q \in Seq(Hosts), NEW g \in Hosts
  PROVE  /\ Append(q, g) \in Seq(Hosts) /\ Len(q) \in Nat /\ Len(Append(q, g)) = Len(q) + 1
         /\ \A i \in 1..Len(q) : Append(q, g)[i] = q[i]
         /\ Append(q, g)[Len(q) + 1] = g
OBVIOUS

(* A claim of h that is read was not the last word, if it is g's own.       *)
LEMMA LastInTail ==
  ASSUME NEW q \in Seq(Hosts), q # <<>>, NEW g, NEW h, g # h, q[1] = g, Last(q, g, h)
  PROVE  Last(Tail(q), g, h)
<1>. DEFINE r == Tail(q)
<1>1. /\ Len(q) \in Nat /\ Len(r) = Len(q) - 1 /\ \A i \in 1..Len(r) : r[i] = q[i + 1]
  BY TailOfClaims
<1>. HIDE DEF r
<1>2. PICK i \in 1..Len(q) : q[i] = h /\ \A j \in i..Len(q) : q[j] # g
  BY DEF Last
<1>3. i # 1
  BY <1>2
<1>4. i - 1 \in 1..Len(r) /\ r[i - 1] = h
  BY <1>1, <1>2, <1>3
<1>5. ASSUME NEW j \in (i - 1)..Len(r) PROVE r[j] # g
  <2>1. j + 1 \in i..Len(q) /\ j \in 1..Len(r)
    BY <1>1, <1>4
  <2>. QED
    BY <1>1, <1>2, <2>1
<1>6. Last(r, g, h)
  BY <1>4, <1>5 DEF Last
<1>. QED
  BY <1>6 DEF r

(* A claim of h stays the last word over another that is not g's.           *)
LEMMA LastInAppend ==
  ASSUME NEW q \in Seq(Hosts), NEW x \in Hosts, NEW g, NEW h, g # x, h = x \/ Last(q, g, h)
  PROVE  Last(Append(q, x), g, h)
<1>. DEFINE r == Append(q, x)
<1>1. /\ Len(q) \in Nat /\ Len(r) = Len(q) + 1 /\ r[Len(q) + 1] = x
      /\ \A i \in 1..Len(q) : r[i] = q[i]
  BY OneMoreClaim
<1>. HIDE DEF r
<1>2. CASE h = x
  <2>1. Len(r) \in 1..Len(r) /\ r[Len(r)] = h /\ \A j \in Len(r)..Len(r) : r[j] # g
    BY <1>1, <1>2
  <2>. QED
    BY <2>1 DEF Last, r
<1>3. CASE Last(q, g, h)
  <2>1. PICK i \in 1..Len(q) : q[i] = h /\ \A j \in i..Len(q) : q[j] # g
    BY <1>3 DEF Last
  <2>2. i \in 1..Len(r) /\ r[i] = h
    BY <1>1, <2>1
  <2>3. ASSUME NEW j \in i..Len(r) PROVE r[j] # g
    <3>1. (j \in i..Len(q) /\ j \in 1..Len(q)) \/ j = Len(q) + 1
      BY <1>1, <2>1
    <3>. QED
      BY <1>1, <2>1, <3>1
  <2>. QED
    BY <2>2, <2>3 DEF Last, r
<1>. QED
  BY <1>2, <1>3

(* A claim more on its way, where the network has room for one.             *)
LEMMA OneMoreOnItsWay ==
  ASSUME NEW n \in 0..MaxFlight, n # MaxFlight
  PROVE  n < MaxFlight /\ n + 1 > 0
BY VipAssumption

(* The types of the variables stay what they are.                           *)
LEMMA TypeStep ==
  ASSUME TypeOK, OwnAtOnce, [Next]_vars
  PROVE  TypeOK' /\ OwnAtOnce'
<1>. USE DEF TypeOK, OwnAtOnce, Running, GoTo
<1>a. MaxQueue \in Nat \ {0} /\ MaxFlight \in Nat \ {0} /\ NoMac \notin Hosts
  BY VipAssumption
<1>1. ASSUME NEW h \in Hosts, Start(h) PROVE TypeOK' /\ OwnAtOnce'
  BY <1>1 DEF Start
<1>2. ASSUME NEW h \in Hosts, Look(h) PROVE TypeOK' /\ OwnAtOnce'
  <2>. DEFINE q == claims[h]
  <2>1. q \in Seq(Hosts) /\ Len(q) \in Nat /\ Len(q) <= MaxQueue
    OBVIOUS
  <2>2. Heard(h) \in Hosts \cup {NoMac}
    <3>1. CASE q = <<>>
      BY <3>1 DEF Heard
    <3>2. CASE q # <<>>
      <4>1. Head(q) \in Hosts
        BY <2>1, <3>2, TailOfClaims
      <4>. QED
        BY <3>2, <4>1 DEF Heard
    <3>. QED
      BY <3>1, <3>2
  <2>. DEFINE r == IF q = <<>> THEN q ELSE Tail(q)
  <2>3. r \in Seq(Hosts) /\ Len(r) <= MaxQueue
    <3>1. CASE q = <<>>
      BY <2>1, <3>1
    <3>2. CASE q # <<>>
      BY <1>a, <2>1, <3>2, TailOfClaims
    <3>. QED
      BY <3>1, <3>2
  <2>4. claims' = [claims EXCEPT ![h] = r]
    BY <1>2 DEF Look
  <2>. HIDE DEF r
  <2>5. claims' \in [Hosts -> Seq(Hosts)] /\ \A g \in Hosts : Len(claims'[g]) <= MaxQueue
    BY <2>3, <2>4
  <2>. QED
    BY <1>2, <2>2, <2>5 DEF Look
<1>3. ASSUME NEW h \in Hosts, PingAnswered(h) \/ PingFails(h) \/ SetVipAddress(h)
      PROVE TypeOK' /\ OwnAtOnce'
  BY <1>3 DEF PingAnswered, PingFails, SetVipAddress
<1>4. ASSUME NEW h \in Hosts, NEW g \in Hosts,
             claims' = [claims EXCEPT ![h] = IF Receives(h) THEN Append(@, g) ELSE @]
      PROVE  claims' \in [Hosts -> Seq(Hosts)] /\ \A x \in Hosts : Len(claims'[x]) <= MaxQueue
  <2>. DEFINE q == claims[h]
              r == IF Receives(h) THEN Append(q, g) ELSE q
  <2>1. q \in Seq(Hosts) /\ Len(q) \in Nat /\ Len(q) <= MaxQueue
    OBVIOUS
  <2>2. r \in Seq(Hosts) /\ Len(r) <= MaxQueue
    <3>1. CASE Receives(h)
      <4>1. Len(q) < MaxQueue
        BY <3>1 DEF Receives
      <4>. QED
        BY <1>a, <2>1, <3>1, <4>1, OneMoreClaim
    <3>2. CASE ~Receives(h)
      BY <2>1, <3>2
    <3>. QED
      BY <3>1, <3>2
  <2>3. claims' = [claims EXCEPT ![h] = r]
    BY <1>4
  <2>. HIDE DEF r
  <2>. QED
    BY <2>2, <2>3
<1>5. ASSUME NEW h \in Hosts, SendBroadcast(h) PROVE TypeOK' /\ OwnAtOnce'
  <2>1. claims' \in [Hosts -> Seq(Hosts)] /\ \A x \in Hosts : Len(claims'[x]) <= MaxQueue
    BY <1>4, <1>5 DEF SendBroadcast
  <2>2. flight' \in [Hosts -> [Hosts -> 0..MaxFlight]] /\ OwnAtOnce'
    <3>. DEFINE f == [g \in Hosts |-> IF g # h /\ flight[h][g] < MaxFlight
                                      THEN flight[h][g] + 1 ELSE flight[h][g]]
    <3>1. f \in [Hosts -> 0..MaxFlight] /\ f[h] = 0
      BY <1>a
    <3>2. flight' = [flight EXCEPT ![h] = f]
      BY <1>5 DEF SendBroadcast
    <3>. HIDE DEF f
    <3>. QED
      BY <3>1, <3>2
  <2>. QED
    BY <1>5, <2>1, <2>2 DEF SendBroadcast
<1>6. ASSUME NEW h \in Hosts, SendFails(h) PROVE TypeOK' /\ OwnAtOnce'
  BY <1>6 DEF SendFails
<1>7. ASSUME NEW g \in Hosts, NEW h \in Hosts, flight[g][h] > 0,
             flight' = [flight EXCEPT ![g][h] = @ - 1]
      PROVE  flight' \in [Hosts -> [Hosts -> 0..MaxFlight]] /\ OwnAtOnce'
  <2>1. g # h
    BY <1>7
  <2>2. flight[g][h] - 1 \in 0..MaxFlight
    BY <1>7, <1>a
  <2>. QED
    BY <1>7, <2>1, <2>2
<1>8. ASSUME NEW g \in Hosts, NEW h \in Hosts, Deliver(g, h) PROVE TypeOK' /\ OwnAtOnce'
  <2>1. flight' \in [Hosts -> [Hosts -> 0..MaxFlight]] /\ OwnAtOnce'
    BY <1>7, <1>8 DEF Deliver
  <2>2. claims' \in [Hosts -> Seq(Hosts)] /\ \A x \in Hosts : Len(claims'[x]) <= MaxQueue
    BY <1>4, <1>8 DEF Deliver
  <2>. QED
    BY <1>8, <2>1, <2>2 DEF Deliver
<1>9. ASSUME NEW g \in Hosts, NEW h \in Hosts, Lose(g, h) PROVE TypeOK' /\ OwnAtOnce'
  BY <1>7, <1>9 DEF Lose
<1>10. ASSUME NEW h \in Hosts, ProcessEnds(h) \/ HostDies(h) PROVE TypeOK' /\ OwnAtOnce'
  <2>1. claims' = [claims EXCEPT ![h] = <<>>]
    BY <1>10 DEF ProcessEnds, HostDies
  <2>2. <<>> \in Seq(Hosts) /\ Len(<<>>) <= MaxQueue
    BY <1>a
  <2>3. claims' \in [Hosts -> Seq(Hosts)] /\ \A x \in Hosts : Len(claims'[x]) <= MaxQueue
    BY <2>1, <2>2
  <2>. QED
    BY <1>10, <2>3 DEF ProcessEnds, HostDies
<1>11. ASSUME UNCHANGED vars PROVE TypeOK' /\ OwnAtOnce'
  BY <1>11 DEF vars
<1>. QED
  BY <1>1, <1>2, <1>3, <1>5, <1>6, <1>8, <1>9, <1>10, <1>11 DEF Next, Round

(* What a host is still to hear when neither its socket nor the way to it   *)
(* has changed.                                                             *)
LEMMA YieldsStays ==
  ASSUME NEW g \in Hosts, NEW h \in Hosts, Yields(g, h),
         claims'[g] = claims[g], flight'[h][g] = flight[h][g]
  PROVE  Yields(g, h)'
BY DEF Yields

(* Of two hosts that have the address one is still to hear of the other.    *)
LEMMA YieldsStep ==
  ASSUME Inv, TypeOK', [Next]_vars
  PROVE  OneYields'
<1>. USE DEF Inv, TypeOK
<1>1. SUFFICES ASSUME ~lost', NEW g \in Hosts, NEW h \in Hosts, g # h, Claimed(g)', Claimed(h)'
               PROVE  Yields(g, h)' \/ Yields(h, g)'
  BY DEF OneYields
\* Where nothing of what the two are to hear changes.
<1>2. ASSUME ~lost, Claimed(g), Claimed(h), UNCHANGED <<claims, flight>>
      PROVE  Yields(g, h)' \/ Yields(h, g)'
  BY <1>1, <1>2, YieldsStays DEF OneYields
<1>3. ASSUME NEW x \in Hosts, Start(x) PROVE Yields(g, h)' \/ Yields(h, g)'
  <2>1. x # g /\ x # h
    BY <1>1, <1>3 DEF Start, Claimed
  <2>. QED
    BY <1>1, <1>2, <1>3, <2>1 DEF Start, Claimed, Running, GoTo
\* The host that reads a claim of another gives the address up.
<1>4. ASSUME NEW x \in Hosts, Look(x) PROVE Yields(g, h)' \/ Yields(h, g)'
  <2>1. Claimed(g) /\ Claimed(h) /\ ~lost
    BY <1>1, <1>4 DEF Look, Claimed, Running, GoTo
  <2>2. CASE claims[x] = <<>>
    BY <1>2, <1>4, <2>1, <2>2 DEF Look
  <2>3. CASE claims[x] # <<>>
    <3>. DEFINE q == claims[x]
    <3>1. /\ q \in Seq(Hosts) /\ Head(q) = q[1] /\ Len(q) \in Nat
          /\ Len(Tail(q)) = Len(q) - 1
          /\ \A i \in 1..Len(Tail(q)) : Tail(q)[i] = q[i + 1]
      BY <2>3, TailOfClaims
    <3>2. claims' = [claims EXCEPT ![x] = Tail(q)] /\ flight' = flight
      BY <1>4, <2>3 DEF Look
    <3>3. holds'[x] => q[1] = x
      BY <1>4, <2>3, <3>1 DEF Look, Heard
    <3>. HIDE DEF q
    <3>4. ASSUME NEW y \in Hosts, NEW z \in Hosts, y # z, holds'[y], Yields(y, z)
          PROVE  Yields(y, z)'
      <4>1. CASE y # x
        BY <3>2, <3>4, <4>1, YieldsStays
      <4>2. CASE y = x
        <5>1. claims[y] = q /\ claims'[y] = Tail(q) /\ flight'[z][y] = flight[z][y]
          BY <3>2, <4>2 DEF q
        <5>2. CASE flight[z][y] > 0
          BY <5>1, <5>2 DEF Yields
        <5>3. CASE ~(flight[z][y] > 0)
          <6>1. Last(q, y, z) /\ q[1] = y
            BY <3>3, <3>4, <4>2, <5>1, <5>3 DEF Yields
          <6>2. Last(Tail(q), y, z)
            BY <2>3, <3>1, <3>4, <6>1, LastInTail DEF q
          <6>. QED
            BY <5>1, <6>2 DEF Yields
        <5>. QED
          BY <5>2, <5>3
      <4>. QED
        BY <4>1, <4>2
    <3>. QED
      BY <1>1, <2>1, <3>4 DEF OneYields, Claimed
  <2>. QED
    BY <2>2, <2>3
<1>5. ASSUME NEW x \in Hosts, PingAnswered(x) \/ PingFails(x)
      PROVE  Yields(g, h)' \/ Yields(h, g)'
  BY <1>1, <1>2, <1>5 DEF PingAnswered, PingFails, Claimed, Running, GoTo
<1>6. ASSUME NEW x \in Hosts, SetVipAddress(x) PROVE Yields(g, h)' \/ Yields(h, g)'
  <2>1. x # g /\ x # h
    BY <1>1, <1>6 DEF SetVipAddress, Claimed, GoTo
  <2>. QED
    BY <1>1, <1>2, <1>6, <2>1 DEF SetVipAddress, Claimed, Running, GoTo
\* A claim is on its way to every other host.
<1>7. ASSUME NEW x \in Hosts, SendBroadcast(x) PROVE Yields(g, h)' \/ Yields(h, g)'
  <2>1. ~lost /\ \A y \in Hosts \ {x} : flight[x][y] # MaxFlight
    BY <1>1, <1>7 DEF SendBroadcast
  <2>2. ASSUME NEW y \in Hosts, y # x PROVE Yields(y, x)'
    <3>1. flight[x][y] \in 0..MaxFlight /\ MaxFlight \in Nat /\ flight[x][y] # MaxFlight
      BY <2>1, <2>2, VipAssumption
    <3>2. flight[x][y] < MaxFlight /\ flight[x][y] + 1 > 0
      BY <3>1, OneMoreOnItsWay
    <3>3. flight'[x][y] = flight[x][y] + 1
      <4>. DEFINE f == [z \in Hosts |-> IF z # x /\ flight[x][z] < MaxFlight
                                        THEN flight[x][z] + 1 ELSE flight[x][z]]
      <4>1. flight' = [flight EXCEPT ![x] = f]
        BY <1>7 DEF SendBroadcast
      <4>2. f[y] = flight[x][y] + 1
        BY <2>2, <3>2
      <4>. HIDE DEF f
      <4>. QED
        BY <4>1, <4>2
    <3>4. flight'[x][y] > 0
      BY <3>2, <3>3
    <3>. QED
      BY <3>4 DEF Yields
  <2>3. CASE x # g /\ x # h
    <3>1. Claimed(g) /\ Claimed(h)
      BY <1>1, <1>7, <2>3 DEF SendBroadcast, Claimed, Running, GoTo
    <3>2. \A y \in {g, h} : claims'[y] = claims[y] /\ \A z \in Hosts : flight'[y][z] = flight[y][z]
      BY <1>7, <2>3 DEF SendBroadcast
    <3>. QED
      BY <1>1, <2>1, <3>1, <3>2, YieldsStays DEF OneYields
  <2>. QED
    BY <1>1, <2>2, <2>3
<1>8. ASSUME NEW x \in Hosts, SendFails(x) PROVE FALSE
  BY <1>1, <1>8 DEF SendFails
<1>9. ASSUME NEW x \in Hosts, NEW y \in Hosts, Deliver(x, y) PROVE Yields(g, h)' \/ Yields(h, g)'
  <2>1. Claimed(g) /\ Claimed(h) /\ ~lost
    BY <1>1, <1>9 DEF Deliver, Claimed, Running
  <2>2. x # y /\ flight' = [flight EXCEPT ![x][y] = @ - 1]
    BY <1>9 DEF Deliver, OwnAtOnce
  <2>3. ASSUME NEW u \in Hosts, NEW v \in Hosts, u # v, Claimed(u), Yields(u, v)
        PROVE  Yields(u, v)'
    <3>1. CASE u # y
      <4>1. claims'[u] = claims[u] /\ flight'[v][u] = flight[v][u]
        BY <1>9, <2>2, <3>1 DEF Deliver
      <4>. QED
        BY <2>3, <4>1, YieldsStays
    <3>2. CASE u = y
      <4>1. Receives(y)
        BY <1>1, <1>9, <2>3, <3>2 DEF Deliver, Claimed
      <4>. DEFINE q == claims[y]
      <4>2. claims'[y] = Append(q, x) /\ q \in Seq(Hosts)
        BY <1>9, <4>1 DEF Deliver
      <4>3. CASE v = x \/ Last(q, u, v)
        <5>1. Last(Append(q, x), u, v)
          BY <2>2, <3>2, <4>2, <4>3, LastInAppend
        <5>. QED
          BY <3>2, <4>2, <5>1 DEF Yields
      <4>4. CASE v # x /\ flight[v][u] > 0
        <5>1. flight'[v][u] = flight[v][u]
          BY <2>2, <4>4
        <5>. QED
          BY <4>4, <5>1 DEF Yields
      <4>. QED
        BY <2>3, <3>2, <4>3, <4>4 DEF Yields
    <3>. QED
      BY <3>1, <3>2
  <2>. QED
    BY <1>1, <2>1, <2>3 DEF OneYields
<1>10. ASSUME NEW x \in Hosts, NEW y \in Hosts, Lose(x, y) PROVE FALSE
  BY <1>1, <1>10 DEF Lose
<1>11. ASSUME NEW x \in Hosts, ProcessEnds(x) \/ HostDies(x)
       PROVE  Yields(g, h)' \/ Yields(h, g)'
  <2>1. x # g /\ x # h
    BY <1>1, <1>11 DEF ProcessEnds, HostDies, Claimed, Running
  <2>2. Claimed(g) /\ Claimed(h) /\ ~lost
    BY <1>1, <1>11, <2>1 DEF ProcessEnds, HostDies, Claimed, Running
  <2>3. claims'[g] = claims[g] /\ claims'[h] = claims[h] /\ flight' = flight
    BY <1>11, <2>1 DEF ProcessEnds, HostDies
  <2>. QED
    BY <1>1, <2>2, <2>3, YieldsStays DEF OneYields
<1>12. ASSUME UNCHANGED vars PROVE Yields(g, h)' \/ Yields(h, g)'
  BY <1>1, <1>2, <1>12 DEF vars, Claimed, Running
<1>. QED
  BY <1>3, <1>4, <1>5, <1>6, <1>7, <1>8, <1>9, <1>10, <1>11, <1>12 DEF Next, Round

(* The inductive invariant of the hosts and the network holds always.       *)
THEOREM InvHolds == Spec => []Inv
<1>1. Init => Inv
  <2>. SUFFICES ASSUME Init PROVE Inv
    OBVIOUS
  <2>0. MaxQueue \in Nat \ {0} /\ MaxFlight \in Nat \ {0}
    BY VipAssumption
  <2>1. TypeOK
    <3>1. 0 \in 0..MaxFlight /\ <<>> \in Seq(Hosts) /\ Len(<<>>) <= MaxQueue
      BY <2>0
    <3>2. claims \in [Hosts -> Seq(Hosts)] /\ \A h \in Hosts : Len(claims[h]) <= MaxQueue
      BY <3>1 DEF Init
    <3>3. flight \in [Hosts -> [Hosts -> 0..MaxFlight]]
      BY <3>1 DEF Init
    <3>. QED
      BY <3>2, <3>3 DEF Init, TypeOK
  <2>2. OwnAtOnce /\ OneYields
    BY DEF Init, OwnAtOnce, OneYields, Claimed, Running
  <2>. QED
    BY <2>1, <2>2 DEF Inv
<1>2. Inv /\ [Next]_vars => Inv'
  BY TypeStep, YieldsStep DEF Inv
<1>. QED
  BY <1>1, <1>2, PTL DEF Spec

(* The variables of the hosts keep their types; neither a socket nor the    *)
(* network holds more than it has room for.                                 *)
THEOREM TypeCorrect == Spec => []TypeOK
<1>1. Inv => TypeOK
  BY DEF Inv
<1>. QED
  BY <1>1, InvHolds, PTL

(* When all claims were heard and none was lost, at most one running host   *)
(* has the address, for any number of hosts.  (Vip::start.)                 *)
THEOREM OneHolder == Spec => []OneHolderWhenQuiet
<1>1. Inv => OneHolderWhenQuiet
  <2>1. SUFFICES ASSUME Inv, Quiet, ~lost
                 PROVE  Cardinality({h \in Holders : Running(h)}) <= 1
    BY DEF OneHolderWhenQuiet
  <2>. DEFINE T == {h \in Holders : Running(h)}
  <2>2. ASSUME NEW g \in T, NEW h \in T, g # h PROVE FALSE
    <3>1. /\ g \in Hosts /\ h \in Hosts /\ Claimed(g) /\ Claimed(h)
          /\ claims[g] = <<>> /\ claims[h] = <<>> /\ flight[g][h] = 0 /\ flight[h][g] = 0
      BY <2>1 DEF Holders, Claimed, Quiet
    <3>2. Yields(g, h) \/ Yields(h, g)
      BY <2>1, <2>2, <3>1 DEF Inv, OneYields
    <3>3. ~ Last(<<>>, g, h) /\ ~ Last(<<>>, h, g)
      BY DEF Last
    <3>. QED
      BY <3>1, <3>2, <3>3 DEF Yields
  <2>. HIDE DEF T
  <2>3. T = {} \/ \E h : T = {h}
    BY <2>2
  <2>4. Cardinality(T) = 0 \/ Cardinality(T) = 1
    BY <2>3, FS_EmptySet, FS_Singleton
  <2>. QED
    BY <2>4 DEF T
<1>. QED
  BY <1>1, InvHolds, PTL
=============================================================================
