-------------------------- MODULE BackendPoolProofs --------------------------
(***************************************************************************)
(* Proofs about BackendPool, for any connections, databases and sockets,   *)
(* any of the databases pooled, and any limit and times.                   *)
(***************************************************************************)
EXTENDS BackendPool, FiniteSetTheorems, SequenceTheorems, TLAPS

Entries == [socket : Sockets, age : Ages]

\* The sockets in a deque, and a deque that holds none twice.
SocketsOf(q) == {q[i].socket : i \in 1..Len(q)}
Distinct(q) == \A i, j \in 1..Len(q) : q[i].socket = q[j].socket => i = j

\* A deque in the order of last use.
Ordered(q) == \A i, j \in 1..Len(q) : i <= j => q[j].age <= q[i].age
-----------------------------------------------------------------------------
(* Deques.                                                                  *)

(* push_back: one more socket, at the end. *)
LEMMA PushBackLemma ==
  ASSUME NEW q \in Seq(Entries), NEW e \in Entries
  PROVE  /\ Append(q, e) \in Seq(Entries)
         /\ SocketsOf(Append(q, e)) = SocketsOf(q) \cup {e.socket}
         /\ Distinct(q) /\ e.socket \notin SocketsOf(q) => Distinct(Append(q, e))
<1>. DEFINE r == Append(q, e)
<1>1. /\ r \in Seq(Entries) /\ Len(r) = Len(q) + 1 /\ Len(q) \in Nat
      /\ \A i \in 1..Len(q) : r[i] = q[i]
      /\ r[Len(q) + 1] = e
  OBVIOUS
<1>2. SocketsOf(r) = SocketsOf(q) \cup {e.socket}
  <2>. HIDE DEF r
  <2>1. 1..Len(r) = 1..Len(q) \cup {Len(q) + 1}
    BY <1>1
  <2>. QED
    BY <1>1, <2>1 DEF SocketsOf
<1>3. Distinct(q) /\ e.socket \notin SocketsOf(q) => Distinct(r)
  <2>. HIDE DEF r
  <2>. QED
    BY <1>1 DEF SocketsOf, Distinct
<1>. QED
  BY <1>1, <1>2, <1>3

(* back() and pop_back(): the last socket is taken out and the rest stays. *)
LEMMA PopBackLemma ==
  ASSUME NEW q \in Seq(Entries), q # <<>>
  PROVE  /\ PopBack(q) \in Seq(Entries)
         /\ Back(q) \in Entries /\ Back(q).socket \in SocketsOf(q)
         /\ Len(PopBack(q)) = Len(q) - 1
         /\ \A i \in 1..(Len(q) - 1) : PopBack(q)[i] = q[i]
         /\ Distinct(q) => /\ SocketsOf(PopBack(q)) = SocketsOf(q) \ {Back(q).socket}
                           /\ Distinct(PopBack(q))
<1>. DEFINE r == PopBack(q)
<1>1. Len(q) \in Nat /\ Len(q) > 0
  OBVIOUS
<1>2. /\ r \in Seq(Entries) /\ Len(r) = Len(q) - 1
      /\ \A i \in 1..(Len(q) - 1) : r[i] = q[i]
  <2>. DEFINE n == Len(q) - 1
  <2>1. n \in Nat /\ \A i \in 1..n : q[i] \in Entries
    BY <1>1
  <2>2. r = SubSeq(q, 1, n)
    BY DEF PopBack
  <2>. HIDE DEF n, r
  <2>3. /\ SubSeq(q, 1, n) \in Seq(Entries)
        /\ Len(SubSeq(q, 1, n)) = IF 1 <= n THEN n - 1 + 1 ELSE 0
        /\ \A i \in 1..(n - 1 + 1) : SubSeq(q, 1, n)[i] = q[1 + i - 1]
    <3>1. 1 \in Int /\ n \in Int
      BY <2>1
    <3>. QED
      BY <2>1, <3>1, SubSeqProperties
  <2>4. Len(r) = n /\ \A i \in 1..n : r[i] = q[i]
    BY <2>1, <2>2, <2>3
  <2>. QED
    BY <2>2, <2>3, <2>4 DEF n
<1>3. Back(q) \in Entries /\ Back(q) = q[Len(q)] /\ Len(q) \in 1..Len(q)
  BY <1>1 DEF Back
<1>4. ASSUME Distinct(q) PROVE SocketsOf(r) = SocketsOf(q) \ {Back(q).socket} /\ Distinct(r)
  <2>. HIDE DEF r
  <2>1. 1..Len(r) = 1..Len(q) \ {Len(q)}
    BY <1>1, <1>2
  <2>. QED
    BY <1>1, <1>2, <1>3, <1>4, <2>1 DEF SocketsOf, Distinct
<1>. QED
  BY <1>2, <1>3, <1>4 DEF SocketsOf

(* A new current_time: every entry keeps its socket. *)
LEMMA MapLemma ==
  ASSUME NEW q \in Seq(Entries), NEW r \in Seq(Entries), Len(r) = Len(q),
         \A i \in 1..Len(q) : r[i].socket = q[i].socket
  PROVE  SocketsOf(r) = SocketsOf(q) /\ (Distinct(q) => Distinct(r))
BY DEF SocketsOf, Distinct

(* The ranks of a finite set of positions are 1, 2, ... in their order. *)
LEMMA RankLemma ==
  ASSUME NEW n \in Nat, NEW K \in SUBSET (1..n)
  PROVE  /\ Cardinality(K) \in Nat
         /\ \A i \in K : Rank(K, i) \in 1..Cardinality(K)
         /\ \A i, j \in K : i < j => Rank(K, i) < Rank(K, j)
         /\ \A m \in 1..Cardinality(K) : \E i \in K : Rank(K, i) = m
<1>. DEFINE Up(i) == {j \in K : j <= i}
<1>0. \A i \in K : i \in Nat
  OBVIOUS
<1>1. IsFiniteSet(K) /\ Cardinality(K) \in Nat
  <2>1. IsFiniteSet(1..n)
    BY FS_Interval
  <2>. QED
    BY <2>1, FS_Subset, FS_CardinalityType
<1>2. \A i \in K : /\ IsFiniteSet(Up(i)) /\ Cardinality(Up(i)) \in Nat
                   /\ Cardinality(Up(i)) <= Cardinality(K) /\ Cardinality(Up(i)) # 0
  <2>. TAKE i \in K
  <2>1. Up(i) \in SUBSET K /\ i \in Up(i)
    OBVIOUS
  <2>. QED
    BY <1>1, <2>1, FS_Subset, FS_CardinalityType, FS_EmptySet
<1>3. \A i, j \in K : i < j => Cardinality(Up(i)) < Cardinality(Up(j))
  <2>. SUFFICES ASSUME NEW i \in K, NEW j \in K, i < j
                PROVE  Cardinality(Up(i)) < Cardinality(Up(j))
    OBVIOUS
  <2>1. Up(i) \in SUBSET Up(j) /\ j \in Up(j) /\ j \notin Up(i)
    <3>1. i \in Nat /\ j \in Nat
      BY <1>0
    <3>2. \A k \in K : k <= i => k <= j
      BY <1>0, <3>1
    <3>3. j \in Up(j) /\ j \notin Up(i)
      BY <3>1
    <3>4. Up(i) \subseteq Up(j)
      BY <3>2
    <3>. QED
      BY <3>3, <3>4
  <2>2. Up(i) # Up(j)
    BY <2>1
  <2>3. /\ IsFiniteSet(Up(j))
        /\ Cardinality(Up(i)) \in Nat /\ Cardinality(Up(j)) \in Nat
    BY <1>2
  <2>. HIDE DEF Up
  <2>4. Cardinality(Up(i)) <= Cardinality(Up(j)) /\ Cardinality(Up(i)) # Cardinality(Up(j))
    BY <2>1, <2>2, <2>3, FS_Subset
  <2>. QED
    BY <2>3, <2>4
<1>4. \A m \in 1..Cardinality(K) : \E i \in K : Cardinality(Up(i)) = m
  <2>. DEFINE f == [i \in K |-> Cardinality(Up(i))]
              T == 1..Cardinality(K)
  <2>1. f \in [K -> T]
    <3>. HIDE DEF Up
    <3>. QED
      BY <1>1, <1>2
  <2>2. \A i, j \in K : f[i] = f[j] => i = j
    <3>. SUFFICES ASSUME NEW i \in K, NEW j \in K, i # j PROVE f[i] # f[j]
      OBVIOUS
    <3>1. i < j \/ j < i
      BY <1>0
    <3>2. f[i] = Cardinality(Up(i)) /\ f[j] = Cardinality(Up(j))
      OBVIOUS
    <3>3. f[i] \in Nat /\ f[j] \in Nat
      BY <1>2, <3>2
    <3>. HIDE DEF Up, f
    <3>. QED
      BY <1>3, <3>1, <3>2, <3>3
  <2>3. f \in Injection(K, T)
    <3>. HIDE DEF f, T
    <3>. QED
      BY <2>1, <2>2 DEF Injection, IsInjective
  <2>4. IsFiniteSet(T) /\ Cardinality(T) = Cardinality(K)
    BY <1>1, FS_Interval
  <2>5. f \in Surjection(K, T)
    <3>. HIDE DEF f, T
    <3>. QED
      BY <2>3, <2>4, FS_Injection
  <2>6. \A m \in T : \E i \in K : f[i] = m
    <3>. HIDE DEF f, T
    <3>. QED
      BY <2>5 DEF Surjection
  <2>. QED
    BY <2>6
<1>. QED
  <2>. HIDE DEF Up
  <2>1. \A i \in K : Rank(K, i) = Cardinality(Up(i))
    BY DEF Rank, Up
  <2>. QED
    BY <1>1, <1>2, <1>3, <1>4, <2>1

(* erase() of all positions but those of K: what stays is the deque at the  *)
(* positions of K, in their order.                                          *)
LEMMA KeepLemma ==
  ASSUME NEW q \in Seq(Entries), NEW K \in SUBSET (1..Len(q))
  PROVE  /\ Keep(q, K) \in Seq(Entries)
         /\ \A m \in 1..Len(Keep(q, K)) : \E i \in K : Keep(q, K)[m] = q[i]
         /\ SocketsOf(Keep(q, K)) = {q[i].socket : i \in K}
         /\ Distinct(q) => Distinct(Keep(q, K))
         /\ Ordered(q) => Ordered(Keep(q, K))
<1>. DEFINE N == Cardinality(K)
            f == [m \in 1..N |-> CHOOSE i \in K : Rank(K, i) = m]
            r == Keep(q, K)
<1>0. \A i \in K : i \in Nat /\ i \in 1..Len(q) /\ q[i] \in Entries
  OBVIOUS
<1>1. /\ N \in Nat
      /\ \A i \in K : Rank(K, i) \in 1..N
      /\ \A i, j \in K : i < j => Rank(K, i) < Rank(K, j)
      /\ \A m \in 1..N : \E i \in K : Rank(K, i) = m
  <2>1. Len(q) \in Nat
    OBVIOUS
  <2>. QED
    BY <2>1, RankLemma
<1>2. \A m \in 1..N : f[m] \in K /\ Rank(K, f[m]) = m
  BY <1>1
<1>3. r = [m \in 1..N |-> q[f[m]]]
  BY DEF Keep
<1>. HIDE DEF N, f, r
<1>4. \A i, j \in K : Rank(K, i) = Rank(K, j) => i = j
  <2>. SUFFICES ASSUME NEW i \in K, NEW j \in K, i # j
                PROVE  Rank(K, i) # Rank(K, j)
    OBVIOUS
  <2>1. i < j \/ j < i
    BY <1>0
  <2>2. Rank(K, i) \in Nat /\ Rank(K, j) \in Nat
    BY <1>1
  <2>. QED
    BY <1>1, <2>1, <2>2
<1>5. /\ \A i \in K : f[Rank(K, i)] = i
      /\ \A m \in 1..N : f[m] \in Nat /\ f[m] \in 1..Len(q) /\ q[f[m]] \in Entries
  <2>1. ASSUME NEW i \in K PROVE f[Rank(K, i)] = i
    <3>1. Rank(K, i) \in 1..N
      BY <1>1
    <3>2. f[Rank(K, i)] \in K /\ Rank(K, f[Rank(K, i)]) = Rank(K, i)
      BY <1>2, <3>1
    <3>. QED
      BY <1>4, <3>2
  <2>. QED
    BY <1>0, <1>2, <2>1
<1>6. r \in [1..N -> Entries]
  BY <1>3, <1>5
<1>7. r \in Seq(Entries) /\ Len(r) = N
  BY <1>1, <1>3, <1>6
<1>8. \A k, m \in 1..N : k < m => f[k] < f[m]
  <2>. SUFFICES ASSUME NEW k \in 1..N, NEW m \in 1..N, k < m, f[m] <= f[k]
                PROVE  FALSE
    BY <1>5
  <2>1. f[m] < f[k] \/ f[m] = f[k]
    BY <1>5
  <2>2. /\ f[k] \in K /\ f[m] \in K /\ Rank(K, f[k]) = k /\ Rank(K, f[m]) = m
        /\ k \in Nat /\ m \in Nat
    BY <1>1, <1>2
  <2>. QED
    <3>1. CASE f[m] = f[k]
      BY <2>2, <3>1
    <3>2. CASE f[m] < f[k]
      <4>1. Rank(K, f[m]) < Rank(K, f[k])
        BY <1>1, <2>2, <3>2
      <4>. QED
        BY <2>2, <4>1
    <3>. QED
      BY <2>1, <3>1, <3>2
<1>9. SocketsOf(r) = {q[i].socket : i \in K}
  <2>1. \A m \in 1..N : r[m] = q[f[m]]
    BY <1>3
  <2>2. \A i \in K : r[Rank(K, i)] = q[i] /\ Rank(K, i) \in 1..N
    BY <1>1, <1>5, <2>1
  <2>3. ASSUME NEW m \in 1..N PROVE r[m].socket \in {q[i].socket : i \in K}
    BY <1>2, <2>1
  <2>4. ASSUME NEW i \in K PROVE \E m \in 1..N : r[m].socket = q[i].socket
    BY <2>2
  <2>. QED
    BY <1>7, <2>3, <2>4 DEF SocketsOf
<1>10. Distinct(q) => Distinct(r)
  <2>. SUFFICES ASSUME Distinct(q), NEW k \in 1..N, NEW m \in 1..N,
                       r[k].socket = r[m].socket
                PROVE  k = m
    BY <1>7 DEF Distinct
  <2>1. f[k] = f[m]
    BY <1>3, <1>5 DEF Distinct
  <2>. QED
    BY <1>2, <2>1
<1>11. Ordered(q) => Ordered(r)
  <2>. SUFFICES ASSUME Ordered(q), NEW k \in 1..N, NEW m \in 1..N, k <= m
                PROVE  r[m].age <= r[k].age
    BY <1>7 DEF Ordered
  <2>1. f[k] <= f[m]
    BY <1>1, <1>5, <1>8
  <2>. QED
    BY <1>3, <1>5, <2>1 DEF Ordered
<1>12. \A m \in 1..N : \E i \in K : r[m] = q[i]
  BY <1>2, <1>3
<1>. QED
  BY <1>7, <1>9, <1>10, <1>11, <1>12 DEF r
-----------------------------------------------------------------------------
(* The inductive invariant.                                                 *)

\* A connection has a socket from connect() or the pool to its end, and a
\* database from its choice to its end.
ConnsOK ==
  \A c \in Conns :
    /\ sock[c] # NULL <=> pc[c] \in {"save", "using"}
    /\ db[c] # NULL <=> pc[c] # "start"
    /\ pc[c] = "save" => db[c] \in Pooled
    /\ sock[c] # NULL => openTo[sock[c]] = db[c]

\* No two connections have the same socket.
NotShared ==
  \A c, e \in Conns : sock[c] # NULL /\ sock[c] = sock[e] => c = e

\* What is in a deque is open to its database, in no connection's hands and
\* there once.
DequesOK ==
  \A d \in DataBases :
    /\ Distinct(idle_sock[d])
    /\ \A s \in SocketsOf(idle_sock[d]) : openTo[s] = d /\ \A c \in Conns : sock[c] # s

\* No open socket is lost.
NoneLost ==
  \A s \in Sockets :
    openTo[s] # NULL => \/ \E c \in Conns : sock[c] = s
                        \/ s \in SocketsOf(idle_sock[openTo[s]])

\* used_sock has the sockets that connections to pooled databases use.
UsedOK ==
  \A s \in Sockets :
    s \in used_sock <=> \E c \in Conns : sock[c] = s /\ pc[c] = "using" /\ db[c] \in Pooled

\* Unless the clock was set back, ages are what they seem and the deques are
\* in the order of last use.
TimesOK ==
  ~setBack =>
    /\ lag >= 0
    /\ \A d \in DataBases :
         /\ Ordered(idle_sock[d])
         /\ \A i \in 1..Len(idle_sock[d]) : idle_sock[d][i].age >= 0

Places == ConnsOK /\ NotShared /\ DequesOK /\ NoneLost /\ UsedOK

Inv == TypeOK /\ Places /\ CountsOpenSockets /\ TimesOK
-----------------------------------------------------------------------------
(* Times.                                                                   *)

(* An age that a clock which was never set back can give is what the code   *)
(* computes as the unsigned difference.                                     *)
LEMMA ElapsedLemma ==
  ASSUME NEW age \in Ages, age >= 0
  PROVE  Elapsed(age) = age
<1>1. age \in Nat /\ age < ClockMod /\ ClockMod \in Nat
  BY BackendPoolAssumption DEF Ages, Old, Longest
<1>2. \A a, M \in Nat : a < M => a % M = a
  OBVIOUS
<1>. QED
  BY <1>1, <1>2 DEF Elapsed

(* Shifting keeps ages in their range, their sign and their order. *)
LEMMA ShiftLemma ==
  /\ 0 \in Ages /\ -MaxBack \in Int
  /\ \A a \in Ages, by \in Ages \cup {1, -MaxBack} :
       /\ Shift(a, by) \in Ages
       /\ a >= 0 /\ by >= 0 => Shift(a, by) >= 0
  /\ \A a, b, by \in Ages : b <= a => Shift(b, by) <= Shift(a, by)
BY BackendPoolAssumption, Z3 DEF Shift, Ages, Old, Longest

-----------------------------------------------------------------------------
(* Closing sockets.                                                         *)

(* ~NetworkSocket, for any set of sockets, keeps the counts right: the      *)
(* floor at zero is never met.                                              *)
LEMMA CloseLemma ==
  ASSUME TypeOK, CountsOpenSockets, NEW S \in SUBSET Sockets, Close(S)
  PROVE  /\ openTo' \in [Sockets -> DataBases \cup {NULL}]
         /\ connectNum' \in [DataBases -> Nat]
         /\ CountsOpenSockets'
<1>. DEFINE To(d) == {s \in Sockets : openTo[s] = d}
            Of(d) == {s \in S : openTo[s] = d}
<1>1. openTo' = [s \in Sockets |-> IF s \in S THEN NULL ELSE openTo[s]]
  BY DEF Close
<1>2. openTo' \in [Sockets -> DataBases \cup {NULL}]
  BY <1>1 DEF TypeOK
<1>3. ASSUME NEW d \in DataBases
      PROVE  /\ connectNum'[d] \in Nat
             /\ connectNum'[d] = Cardinality({s \in Sockets : openTo'[s] = d})
  <2>1. {s \in Sockets : openTo'[s] = d} = To(d) \ Of(d)
    BY <1>1, BackendPoolAssumption
  <2>2. To(d) \in SUBSET Sockets /\ Of(d) = To(d) \cap Of(d)
    OBVIOUS
  <2>3. IsFiniteSet(Sockets)
    BY BackendPoolAssumption
  <2>4. connectNum[d] = Cardinality(To(d)) /\ connectNum[d] \in Nat
    BY DEF CountsOpenSockets, TypeOK
  <2>5. connectNum'[d] = LET n == Cardinality(Of(d))
                         IN IF connectNum[d] > n THEN connectNum[d] - n ELSE 0
    BY DEF Close
  <2>. HIDE DEF To, Of
  <2>6. IsFiniteSet(To(d))
    BY <2>2, <2>3, FS_Subset
  <2>7. Of(d) \in SUBSET To(d)
    BY <2>2
  <2>8. Cardinality(Of(d)) \in Nat /\ Cardinality(Of(d)) <= Cardinality(To(d))
    BY <2>6, <2>7, FS_Subset, FS_CardinalityType
  <2>9. Cardinality(To(d) \ Of(d)) = Cardinality(To(d)) - Cardinality(Of(d))
    BY <2>2, <2>6, FS_Difference
  <2>. QED
    BY <2>1, <2>4, <2>5, <2>8, <2>9
<1>4. connectNum' \in [DataBases -> Nat]
  <2>1. connectNum' = [d \in DataBases |-> connectNum'[d]]
    BY DEF Close
  <2>. QED
    BY <1>3, <2>1
<1>. QED
  BY <1>2, <1>3, <1>4 DEF CountsOpenSockets

-----------------------------------------------------------------------------
(* The sweep.                                                               *)

(* The sockets of the expired entries, and no other idle ones, are closed:  *)
(* no socket is in two places.                                              *)
LEMMA ExpiredLemma ==
  ASSUME TypeOK, DequesOK
  PROVE  /\ \A d \in DataBases : Expired(d) \subseteq 1..Len(idle_sock[d])
         /\ ExpiredSockets \in SUBSET Sockets
         /\ \A s \in ExpiredSockets : \E d \in DataBases : s \in SocketsOf(idle_sock[d])
         /\ \A d \in DataBases : \A i \in 1..Len(idle_sock[d]) :
              i \in Expired(d) <=> idle_sock[d][i].socket \in ExpiredSockets
<1>1. \A d \in DataBases : idle_sock[d] \in Seq(Entries) /\ Distinct(idle_sock[d])
  BY DEF TypeOK, Entries, DequesOK
<1>2. \A d \in DataBases : Expired(d) \subseteq 1..Len(idle_sock[d])
  BY DEF Expired
<1>3. \A d \in DataBases : \A i \in Expired(d) :
        idle_sock[d][i].socket \in Sockets /\ idle_sock[d][i].socket \in SocketsOf(idle_sock[d])
  <2>. SUFFICES ASSUME NEW d \in DataBases, NEW i \in 1..Len(idle_sock[d])
                PROVE  /\ idle_sock[d][i].socket \in Sockets
                       /\ idle_sock[d][i].socket \in SocketsOf(idle_sock[d])
    BY <1>2
  <2>1. idle_sock[d][i] \in Entries
    BY <1>1
  <2>. QED
    BY <2>1 DEF Entries, SocketsOf
<1>4. /\ ExpiredSockets \in SUBSET Sockets
      /\ \A s \in ExpiredSockets : \E d \in DataBases : s \in SocketsOf(idle_sock[d])
  BY <1>3 DEF ExpiredSockets
<1>5. ASSUME NEW d \in DataBases, NEW i \in 1..Len(idle_sock[d])
      PROVE  i \in Expired(d) <=> idle_sock[d][i].socket \in ExpiredSockets
  <2>1. CASE i \in Expired(d)
    BY <2>1 DEF ExpiredSockets
  <2>2. ASSUME idle_sock[d][i].socket \in ExpiredSockets PROVE i \in Expired(d)
    <3>1. PICK e \in DataBases :
            \E j \in Expired(e) : idle_sock[e][j].socket = idle_sock[d][i].socket
      BY <2>2 DEF ExpiredSockets
    <3>2. PICK j \in Expired(e) : idle_sock[e][j].socket = idle_sock[d][i].socket
      BY <3>1
    <3>3. /\ idle_sock[d][i].socket \in SocketsOf(idle_sock[e])
          /\ idle_sock[d][i].socket \in SocketsOf(idle_sock[d])
      BY <1>3, <3>2 DEF SocketsOf
    <3>4. openTo[idle_sock[d][i].socket] = e /\ openTo[idle_sock[d][i].socket] = d
      BY <3>3 DEF DequesOK
    <3>5. e = d
      BY <3>4
    <3>6. j \in 1..Len(idle_sock[d]) /\ idle_sock[d][j].socket = idle_sock[d][i].socket
      BY <1>2, <3>2, <3>5
    <3>. QED
      BY <1>1, <3>2, <3>5, <3>6 DEF Distinct
  <2>. QED
    BY <2>1, <2>2
<1>. QED
  BY <1>2, <1>4, <1>5

(* What Sweep does to each deque.                                           *)
LEMMA SweepLemma ==
  ASSUME TypeOK, DequesOK, Sweep
  PROVE  /\ idle_sock' \in [DataBases -> Seq(Entries)]
         /\ \A d \in DataBases :
              /\ SocketsOf(idle_sock'[d]) = SocketsOf(idle_sock[d]) \ ExpiredSockets
              /\ Distinct(idle_sock'[d])
              /\ Ordered(idle_sock[d]) => Ordered(idle_sock'[d])
              /\ idle_sock'[d] \in Seq(Entries)
              /\ \A k \in 1..Len(idle_sock'[d]) : \E i \in 1..Len(idle_sock[d]) :
                   idle_sock'[d][k] = idle_sock[d][i]
<1>. DEFINE Stay(d) == 1..Len(idle_sock[d]) \ Expired(d)
<1>1. \A d \in DataBases : idle_sock'[d] = Keep(idle_sock[d], Stay(d))
  BY DEF Sweep
<1>2. idle_sock' = [d \in DataBases |-> idle_sock'[d]]
  BY DEF Sweep
<1>3. \A d \in DataBases : idle_sock[d] \in Seq(Entries) /\ Distinct(idle_sock[d])
  BY DEF TypeOK, Entries, DequesOK
<1>4. ASSUME NEW d \in DataBases
      PROVE  /\ SocketsOf(idle_sock'[d]) = SocketsOf(idle_sock[d]) \ ExpiredSockets
             /\ Distinct(idle_sock'[d])
             /\ Ordered(idle_sock[d]) => Ordered(idle_sock'[d])
             /\ idle_sock'[d] \in Seq(Entries)
             /\ \A k \in 1..Len(idle_sock'[d]) : \E i \in 1..Len(idle_sock[d]) :
                  idle_sock'[d][k] = idle_sock[d][i]
  <2>. DEFINE q == idle_sock[d]
              r == idle_sock'[d]
  <2>1. q \in Seq(Entries) /\ Distinct(q) /\ Stay(d) \in SUBSET (1..Len(q)) /\ r = Keep(q, Stay(d))
    BY <1>1, <1>3
  <2>2. \A i \in 1..Len(q) : i \in Stay(d) <=> q[i].socket \notin ExpiredSockets
    BY ExpiredLemma
  <2>. HIDE DEF q, r, Stay
  <2>3. SocketsOf(r) = {q[i].socket : i \in Stay(d)}
    BY <2>1, KeepLemma
  <2>4. SocketsOf(r) = SocketsOf(q) \ ExpiredSockets
    BY <2>1, <2>2, <2>3 DEF SocketsOf
  <2>5. /\ Distinct(r)
        /\ Ordered(q) => Ordered(r)
        /\ r \in Seq(Entries)
        /\ \A k \in 1..Len(r) : \E i \in Stay(d) : r[k] = q[i]
    BY <2>1, KeepLemma
  <2>. QED
    BY <2>1, <2>4, <2>5 DEF q, r
<1>5. idle_sock' \in [DataBases -> Seq(Entries)]
  BY <1>2, <1>4
<1>. QED
  BY <1>4, <1>5

-----------------------------------------------------------------------------
(* One step of the program.                                                 *)

ConnStep(c) ==
  \/ TestLimit(c) \/ Connect(c) \/ ConnectFails(c) \/ AddSocketToPool(c)
  \/ SetBackendConnect(c) \/ ReleaseBackendSocket(c) \/ DeleteSocket(c)
  \/ EndWithout(c)
  \/ \E d \in DataBases : GetBackendConnect(c, d) \/ NoneIdle(c, d)

(* A new current_time: the deques keep their sockets and their order. *)
LEMMA SetCurrentTimeLemma ==
  ASSUME TypeOK, SetCurrentTime
  PROVE  /\ idle_sock' \in [DataBases -> Seq(Entries)]
         /\ \A d \in DataBases :
              /\ idle_sock'[d] \in Seq(Entries) /\ Len(idle_sock'[d]) = Len(idle_sock[d])
              /\ \A i \in 1..Len(idle_sock[d]) :
                   /\ idle_sock'[d][i].socket = idle_sock[d][i].socket
                   /\ idle_sock'[d][i].age = Shift(idle_sock[d][i].age, lag)
<1>. DEFINE New(d) == [i \in 1..Len(idle_sock[d]) |->
                         [idle_sock[d][i] EXCEPT !.age = Shift(@, lag)]]
<1>1. idle_sock' = [d \in DataBases |-> New(d)]
  BY DEF SetCurrentTime
<1>2. lag \in Ages
  BY DEF TypeOK
<1>3. ASSUME NEW d \in DataBases, NEW i \in 1..Len(idle_sock[d])
      PROVE  /\ New(d)[i] \in Entries
             /\ New(d)[i].socket = idle_sock[d][i].socket
             /\ New(d)[i].age = Shift(idle_sock[d][i].age, lag)
  <2>1. idle_sock[d] \in Seq(Entries)
    BY DEF TypeOK, Entries
  <2>2. idle_sock[d][i] \in Entries
    BY <2>1
  <2>3. Shift(idle_sock[d][i].age, lag) \in Ages
    BY <1>2, <2>2, ShiftLemma DEF Entries
  <2>. QED
    BY <2>2, <2>3 DEF Entries
<1>4. ASSUME NEW d \in DataBases
      PROVE  New(d) \in Seq(Entries) /\ Len(New(d)) = Len(idle_sock[d])
  <2>1. Len(idle_sock[d]) \in Nat
    BY DEF TypeOK
  <2>2. New(d) \in [1..Len(idle_sock[d]) -> Entries]
    BY <1>3
  <2>. HIDE DEF New
  <2>. QED
    BY <2>1, <2>2
<1>5. \A d \in DataBases : idle_sock'[d] = New(d)
  BY <1>1
<1>. HIDE DEF New
<1>. QED
  BY <1>1, <1>3, <1>4, <1>5

(* Every step keeps the types. *)
LEMMA TypeStep ==
  ASSUME TypeOK, DequesOK, ConnsOK, CountsOpenSockets, [Next]_vars
  PROVE  TypeOK'
<1>. USE DEF TypeOK
<1>1. CASE UNCHANGED vars
  BY <1>1 DEF vars, timeVars
<1>2. ASSUME NEW c \in Conns, NEW d \in DataBases, GetBackendConnect(c, d) PROVE TypeOK'
  <2>1. idle_sock[d] \in Seq(Entries) /\ idle_sock[d] # <<>>
    BY <1>2 DEF GetBackendConnect, Entries
  <2>2. Back(idle_sock[d]).socket \in Sockets /\ PopBack(idle_sock[d]) \in Seq(Entries)
    BY <2>1, PopBackLemma DEF Entries
  <2>3. idle_sock' \in [DataBases -> Seq(Entries)]
    BY <1>2, <2>2 DEF GetBackendConnect, Entries
  <2>4. /\ pc' = [pc EXCEPT ![c] = "using"]
        /\ db' = [db EXCEPT ![c] = d]
        /\ sock' = [sock EXCEPT ![c] = Back(idle_sock[d]).socket]
        /\ used_sock' = used_sock \cup {Back(idle_sock[d]).socket}
        /\ UNCHANGED <<openTo, connectNum, lag, sweeper, setBack>>
    BY <1>2 DEF GetBackendConnect, GoTo, timeVars
  <2>. QED
    BY <2>2, <2>3, <2>4 DEF Entries
<1>3. ASSUME NEW c \in Conns, NEW d \in DataBases, NoneIdle(c, d) PROVE TypeOK'
  BY <1>3 DEF NoneIdle, GoTo, timeVars
<1>4. ASSUME NEW c \in Conns, TestLimit(c) PROVE TypeOK'
  BY <1>4 DEF TestLimit, GoTo, timeVars
<1>5. ASSUME NEW c \in Conns, Connect(c) PROVE TypeOK'
  <2>1. PICK s \in Sockets \ Open : /\ sock' = [sock EXCEPT ![c] = s]
                                    /\ openTo' = [openTo EXCEPT ![s] = db[c]]
    BY <1>5 DEF Connect
  <2>2. pc' \in [Conns -> {"start", "create", "connect", "save", "using", "failed"}]
    BY <1>5 DEF Connect, GoTo
  <2>3. connectNum' \in [DataBases -> Nat]
    <3>1. db[c] \in DataBases
      BY <1>5 DEF Connect, GoTo, ConnsOK
    <3>2. connectNum' = [connectNum EXCEPT ![db[c]] = connectNum[db[c]] + 1]
      BY <1>5 DEF Connect
    <3>3. connectNum[db[c]] + 1 \in Nat
      BY <3>1
    <3>. QED
      BY <3>1, <3>2, <3>3
  <2>4. sock' \in [Conns -> Sockets \cup {NULL}]
    BY <2>1
  <2>5. openTo' \in [Sockets -> DataBases \cup {NULL}]
    BY <2>1
  <2>6. UNCHANGED <<db, idle_sock, used_sock, timeVars>>
    BY <1>5 DEF Connect
  <2>. QED
    BY <2>2, <2>3, <2>4, <2>5, <2>6 DEF timeVars
<1>6. ASSUME NEW c \in Conns, ConnectFails(c) PROVE TypeOK'
  BY <1>6 DEF ConnectFails, GoTo, timeVars
<1>7. ASSUME NEW c \in Conns, AddSocketToPool(c) PROVE TypeOK'
  <2>1. sock[c] \in Sockets
    BY <1>7 DEF AddSocketToPool, GoTo, ConnsOK
  <2>. QED
    BY <1>7, <2>1 DEF AddSocketToPool, GoTo, timeVars
<1>8. ASSUME NEW c \in Conns, SetBackendConnect(c) PROVE TypeOK'
  <2>. DEFINE d == openTo[sock[c]]
              e == [socket |-> sock[c], age |-> 0]
  <2>1. sock[c] \in Sockets /\ d \in DataBases
    BY <1>8 DEF SetBackendConnect, Ends, GoTo, ConnsOK
  <2>2. e \in Entries /\ idle_sock[d] \in Seq(Entries)
    BY <2>1, ShiftLemma DEF Entries
  <2>3. Append(idle_sock[d], e) \in Seq(Entries)
    BY <2>2, PushBackLemma
  <2>4. idle_sock' = [idle_sock EXCEPT ![d] = Append(idle_sock[d], e)]
    BY <1>8 DEF SetBackendConnect
  <2>. HIDE DEF e, d
  <2>5. idle_sock' \in [DataBases -> Seq(Entries)]
    BY <2>1, <2>3, <2>4 DEF Entries
  <2>. QED
    BY <1>8, <2>5 DEF SetBackendConnect, Ends, GoTo, timeVars, Entries
<1>9. ASSUME NEW c \in Conns, ReleaseBackendSocket(c) \/ DeleteSocket(c) PROVE TypeOK'
  <2>1. {sock[c]} \in SUBSET Sockets /\ Close({sock[c]})
    BY <1>9 DEF ReleaseBackendSocket, DeleteSocket, Ends, GoTo, ConnsOK
  <2>2. /\ openTo' \in [Sockets -> DataBases \cup {NULL}]
        /\ connectNum' \in [DataBases -> Nat]
    BY <2>1, CloseLemma
  <2>. QED
    BY <1>9, <2>2 DEF ReleaseBackendSocket, DeleteSocket, Ends, GoTo, timeVars
<1>10. ASSUME NEW c \in Conns, EndWithout(c) PROVE TypeOK'
  BY <1>10 DEF EndWithout, GoTo, timeVars
<1>11. CASE Clock
  <2>1. lag' \in Ages /\ setBack' \in BOOLEAN
    BY <1>11, ShiftLemma DEF Clock
  <2>. QED
    BY <1>11, <2>1 DEF Clock
<1>12. CASE SetCurrentTime
  <2>1. idle_sock' \in [DataBases -> Seq(Entries)]
    BY <1>12, SetCurrentTimeLemma
  <2>. QED
    BY <1>12, <2>1, ShiftLemma DEF SetCurrentTime, Entries
<1>13. CASE Sweep
  <2>1. idle_sock' \in [DataBases -> Seq(Entries)] /\ ExpiredSockets \in SUBSET Sockets
    BY <1>13, SweepLemma, ExpiredLemma
  <2>2. /\ openTo' \in [Sockets -> DataBases \cup {NULL}]
        /\ connectNum' \in [DataBases -> Nat]
    BY <1>13, <2>1, CloseLemma DEF Sweep
  <2>. QED
    BY <1>13, <2>1, <2>2 DEF Sweep, Entries
<1>. QED
  BY <1>1, <1>2, <1>3, <1>4, <1>5, <1>6, <1>7, <1>8, <1>9, <1>10, <1>11, <1>12, <1>13 DEF Next

(* Every step keeps each socket in its place. *)
LEMMA PlacesStep ==
  ASSUME TypeOK, Places, [Next]_vars
  PROVE  Places'
<1>. USE DEF TypeOK, Places
<1>0. NULL \notin Sockets /\ NULL \notin DataBases
  BY BackendPoolAssumption
<1>t. /\ \A e \in Conns : sock[e] \in Sockets \cup {NULL} /\ db[e] \in DataBases \cup {NULL}
      /\ \A t \in Sockets : openTo[t] \in DataBases \cup {NULL}
      /\ \A d \in DataBases : SocketsOf(idle_sock[d]) \subseteq Sockets
  <2>1. ASSUME NEW d \in DataBases, NEW i \in 1..Len(idle_sock[d])
        PROVE  idle_sock[d][i].socket \in Sockets
    <3>1. idle_sock[d] \in Seq(Entries)
      BY DEF Entries
    <3>2. idle_sock[d][i] \in Entries
      BY <3>1
    <3>. QED
      BY <3>2 DEF Entries
  <2>2. \A d \in DataBases : SocketsOf(idle_sock[d]) \subseteq Sockets
    BY <2>1 DEF SocketsOf
  <2>. QED
    BY <2>2
<1>1. CASE UNCHANGED vars
  BY <1>1 DEF vars, timeVars, ConnsOK, NotShared, DequesOK, NoneLost, UsedOK
<1>2. ASSUME NEW c \in Conns, NEW d \in DataBases, GetBackendConnect(c, d) PROVE Places'
  <2>1. PICK s \in SocketsOf(idle_sock[d]) :
          /\ s \in Sockets /\ d \in Pooled /\ pc[c] = "start"
          /\ pc' = [pc EXCEPT ![c] = "using"]
          /\ db' = [db EXCEPT ![c] = d]
          /\ sock' = [sock EXCEPT ![c] = s]
          /\ SocketsOf(idle_sock'[d]) = SocketsOf(idle_sock[d]) \ {s}
          /\ Distinct(idle_sock'[d])
          /\ \A e \in DataBases \ {d} : idle_sock'[e] = idle_sock[e]
          /\ used_sock' = used_sock \cup {s} /\ openTo' = openTo
    <3>. DEFINE q == idle_sock[d]
    <3>1. q \in Seq(Entries) /\ q # <<>> /\ Distinct(q)
      BY <1>2 DEF GetBackendConnect, Entries, DequesOK
    <3>2. /\ Back(q).socket \in Sockets /\ Back(q).socket \in SocketsOf(q)
          /\ SocketsOf(PopBack(q)) = SocketsOf(q) \ {Back(q).socket}
          /\ Distinct(PopBack(q))
      <4>. HIDE DEF q
      <4>. QED
        BY <3>1, PopBackLemma DEF Entries
    <3>3. idle_sock' = [idle_sock EXCEPT ![d] = PopBack(q)]
      BY <1>2 DEF GetBackendConnect
    <3>4. idle_sock'[d] = PopBack(q) /\ \A e \in DataBases \ {d} : idle_sock'[e] = idle_sock[e]
      BY <3>3
    <3>. QED
      BY <1>2, <3>2, <3>4 DEF GetBackendConnect, GoTo
  <2>2. /\ pc'[c] = "using" /\ db'[c] = d /\ sock'[c] = s
        /\ \A e \in Conns \ {c} : pc'[e] = pc[e] /\ db'[e] = db[e] /\ sock'[e] = sock[e]
    BY <2>1
  <2>. HIDE DEF TypeOK
  <2>3. ConnsOK'
    BY <1>0, <1>t, <2>1, <2>2 DEF ConnsOK, NotShared, DequesOK
  <2>4. NotShared'
    BY <1>0, <1>t, <2>1, <2>2 DEF ConnsOK, NotShared, DequesOK
  <2>5. DequesOK'
    BY <1>0, <1>t, <2>1, <2>2 DEF ConnsOK, NotShared, DequesOK
  <2>6. NoneLost'
    BY <1>0, <1>t, <2>1, <2>2 DEF ConnsOK, DequesOK, NoneLost
  <2>7. UsedOK'
    BY <1>0, <1>t, <2>1, <2>2 DEF ConnsOK, NotShared, DequesOK, UsedOK
  <2>. QED
    BY <2>3, <2>4, <2>5, <2>6, <2>7
<1>3. ASSUME NEW c \in Conns, NEW d \in DataBases, NoneIdle(c, d) PROVE Places'
  <2>1. /\ pc' = [pc EXCEPT ![c] = "create"] /\ db' = [db EXCEPT ![c] = d]
        /\ sock' = sock /\ idle_sock' = idle_sock /\ used_sock' = used_sock /\ openTo' = openTo
        /\ pc[c] = "start"
    BY <1>3 DEF NoneIdle, GoTo
  <2>2. ConnsOK'
    BY <1>0, <2>1 DEF ConnsOK, NotShared, DequesOK
  <2>3. NotShared'
    BY <1>0, <2>1 DEF ConnsOK, NotShared, DequesOK
  <2>4. DequesOK'
    BY <1>0, <2>1 DEF ConnsOK, NotShared, DequesOK
  <2>5. NoneLost'
    BY <1>0, <2>1 DEF ConnsOK, DequesOK, NoneLost
  <2>6. UsedOK'
    BY <1>0, <2>1 DEF ConnsOK, NotShared, DequesOK, UsedOK
  <2>. QED
    BY <2>2, <2>3, <2>4, <2>5, <2>6
<1>4. ASSUME NEW c \in Conns, TestLimit(c) \/ ConnectFails(c) PROVE Places'
  <2>1. PICK to \in {"failed", "connect"} :
          /\ pc' = [pc EXCEPT ![c] = to] /\ pc[c] \in {"create", "connect"}
          /\ db' = db /\ sock' = sock /\ idle_sock' = idle_sock
          /\ used_sock' = used_sock /\ openTo' = openTo
    BY <1>4 DEF TestLimit, ConnectFails, GoTo
  <2>2. ConnsOK'
    BY <1>0, <2>1 DEF ConnsOK, NotShared, DequesOK
  <2>3. NotShared'
    BY <1>0, <2>1 DEF ConnsOK, NotShared, DequesOK
  <2>4. DequesOK'
    BY <1>0, <2>1 DEF ConnsOK, NotShared, DequesOK
  <2>5. NoneLost'
    BY <1>0, <2>1 DEF ConnsOK, DequesOK, NoneLost
  <2>6. UsedOK'
    BY <1>0, <2>1 DEF ConnsOK, NotShared, DequesOK, UsedOK
  <2>. QED
    BY <2>2, <2>3, <2>4, <2>5, <2>6
<1>5. ASSUME NEW c \in Conns, Connect(c) PROVE Places'
  <2>1. PICK s \in Sockets :
          /\ openTo[s] = NULL /\ pc[c] = "connect" /\ db[c] \in DataBases
          /\ pc' = [pc EXCEPT ![c] = IF db[c] \in Pooled THEN "save" ELSE "using"]
          /\ db' = db
          /\ sock' = [sock EXCEPT ![c] = s]
          /\ openTo' = [openTo EXCEPT ![s] = db[c]]
          /\ idle_sock' = idle_sock /\ used_sock' = used_sock
    BY <1>5 DEF Connect, GoTo, Open, ConnsOK
  <2>2. /\ sock'[c] = s /\ \A e \in Conns \ {c} : sock'[e] = sock[e] /\ pc'[e] = pc[e]
        /\ pc'[c] \in {"save", "using"} /\ (pc'[c] = "save" => db[c] \in Pooled)
        /\ openTo'[s] = db[c] /\ \A t \in Sockets \ {s} : openTo'[t] = openTo[t]
    BY <2>1
  <2>. HIDE DEF TypeOK
  <2>3. ConnsOK'
    BY <1>0, <1>t, <2>1, <2>2 DEF ConnsOK, NotShared, DequesOK
  <2>4. NotShared'
    BY <1>0, <1>t, <2>1, <2>2 DEF ConnsOK, NotShared, DequesOK
  <2>5. DequesOK'
    BY <1>0, <1>t, <2>1, <2>2 DEF ConnsOK, NotShared, DequesOK
  <2>6. NoneLost'
    BY <1>0, <1>t, <2>1, <2>2 DEF ConnsOK, DequesOK, NoneLost
  <2>7. UsedOK'
    BY <1>0, <1>t, <2>1, <2>2 DEF ConnsOK, NotShared, DequesOK, UsedOK
  <2>. QED
    BY <2>3, <2>4, <2>5, <2>6, <2>7
<1>6. ASSUME NEW c \in Conns, AddSocketToPool(c) PROVE Places'
  <2>1. /\ pc[c] = "save" /\ pc' = [pc EXCEPT ![c] = "using"] /\ used_sock' = used_sock \cup {sock[c]}
        /\ db' = db /\ sock' = sock /\ idle_sock' = idle_sock /\ openTo' = openTo
        /\ sock[c] \in Sockets
    BY <1>6 DEF AddSocketToPool, GoTo, ConnsOK
  <2>2. ConnsOK'
    BY <1>0, <2>1 DEF ConnsOK, NotShared, DequesOK
  <2>3. NotShared'
    BY <1>0, <2>1 DEF ConnsOK, NotShared, DequesOK
  <2>4. DequesOK'
    BY <1>0, <2>1 DEF ConnsOK, NotShared, DequesOK
  <2>5. NoneLost'
    BY <1>0, <2>1 DEF ConnsOK, DequesOK, NoneLost
  <2>6. UsedOK'
    BY <1>0, <2>1 DEF ConnsOK, NotShared, DequesOK, UsedOK
  <2>. QED
    BY <2>2, <2>3, <2>4, <2>5, <2>6
<1>7. ASSUME NEW c \in Conns, SetBackendConnect(c) PROVE Places'
  <2>1. PICK d \in DataBases, s \in Sockets :
          /\ s = sock[c] /\ d = openTo[s] /\ d = db[c] /\ d \in Pooled /\ pc[c] = "using"
          /\ pc' = [pc EXCEPT ![c] = "start"]
          /\ db' = [db EXCEPT ![c] = NULL]
          /\ sock' = [sock EXCEPT ![c] = NULL]
          /\ SocketsOf(idle_sock'[d]) = SocketsOf(idle_sock[d]) \cup {s}
          /\ Distinct(idle_sock'[d])
          /\ \A e \in DataBases \ {d} : idle_sock'[e] = idle_sock[e]
          /\ used_sock' = used_sock \ {s} /\ openTo' = openTo
    <3>. DEFINE s == sock[c]
                d == openTo[s]
                q == idle_sock[d]
                e == [socket |-> s, age |-> 0]
    <3>1. s \in Sockets /\ d \in DataBases /\ d = db[c]
      BY <1>0, <1>7 DEF SetBackendConnect, Ends, GoTo, ConnsOK
    <3>2. idle_sock' = [idle_sock EXCEPT ![d] = Append(q, e)]
      BY <1>7 DEF SetBackendConnect
    <3>3. s \notin SocketsOf(q) /\ Distinct(q)
      BY <3>1 DEF DequesOK
    <3>4. e \in Entries /\ q \in Seq(Entries) /\ e.socket = s
      BY <3>1, ShiftLemma DEF Entries
    <3>5. SocketsOf(Append(q, e)) = SocketsOf(q) \cup {s} /\ Distinct(Append(q, e))
      <4>. HIDE DEF q, e
      <4>. QED
        BY <3>3, <3>4, PushBackLemma
    <3>6. idle_sock'[d] = Append(q, e) /\ \A f \in DataBases \ {d} : idle_sock'[f] = idle_sock[f]
      BY <3>1, <3>2
    <3>7. /\ pc[c] = "using" /\ d \in Pooled
          /\ pc' = [pc EXCEPT ![c] = "start"]
          /\ db' = [db EXCEPT ![c] = NULL]
          /\ sock' = [sock EXCEPT ![c] = NULL]
          /\ used_sock' = used_sock \ {s} /\ openTo' = openTo
      BY <1>7, <3>1 DEF SetBackendConnect, Ends, GoTo
    <3>. QED
      BY <3>1, <3>5, <3>6, <3>7
  <2>2. /\ pc'[c] = "start" /\ db'[c] = NULL /\ sock'[c] = NULL
        /\ \A e \in Conns \ {c} : pc'[e] = pc[e] /\ db'[e] = db[e] /\ sock'[e] = sock[e]
    BY <2>1
  <2>. HIDE DEF TypeOK
  <2>3. ConnsOK'
    BY <1>0, <1>t, <2>1, <2>2 DEF ConnsOK, NotShared, DequesOK
  <2>4. NotShared'
    BY <1>0, <1>t, <2>1, <2>2 DEF ConnsOK, NotShared, DequesOK
  <2>5. DequesOK'
    BY <1>0, <1>t, <2>1, <2>2 DEF ConnsOK, NotShared, DequesOK
  <2>6. NoneLost'
    BY <1>0, <1>t, <2>1, <2>2 DEF ConnsOK, DequesOK, NoneLost
  <2>7. UsedOK'
    BY <1>0, <1>t, <2>1, <2>2 DEF ConnsOK, NotShared, DequesOK, UsedOK
  <2>. QED
    BY <2>3, <2>4, <2>5, <2>6, <2>7
<1>8. ASSUME NEW c \in Conns, ReleaseBackendSocket(c) \/ DeleteSocket(c) PROVE Places'
  <2>1. PICK s \in Sockets :
          /\ s = sock[c] /\ pc[c] = "using"
          /\ pc' = [pc EXCEPT ![c] = "start"]
          /\ db' = [db EXCEPT ![c] = NULL]
          /\ sock' = [sock EXCEPT ![c] = NULL]
          /\ idle_sock' = idle_sock
          /\ used_sock' = used_sock \ {s}
          /\ openTo' = [openTo EXCEPT ![s] = NULL]
    <3>1. sock[c] \in Sockets /\ pc[c] = "using"
      BY <1>8 DEF ReleaseBackendSocket, DeleteSocket, Ends, GoTo, ConnsOK
    <3>2. openTo' = [openTo EXCEPT ![sock[c]] = NULL]
      BY <1>8, <3>1 DEF ReleaseBackendSocket, DeleteSocket, Close
    <3>3. used_sock' = used_sock \ {sock[c]}
      <4>1. CASE ReleaseBackendSocket(c)
        BY <4>1 DEF ReleaseBackendSocket
      <4>2. CASE DeleteSocket(c)
        <5>1. sock[c] \notin used_sock
          <6>1. db[c] \notin Pooled
            BY <4>2 DEF DeleteSocket
          <6>2. \A e \in Conns : sock[e] = sock[c] => e = c
            BY <1>0, <3>1 DEF NotShared
          <6>. QED
            BY <3>1, <6>1, <6>2 DEF UsedOK
        <5>. QED
          BY <4>2, <5>1 DEF DeleteSocket
      <4>. QED
        BY <1>8, <4>1, <4>2
    <3>. QED
      BY <1>8, <3>1, <3>2, <3>3 DEF ReleaseBackendSocket, DeleteSocket, Ends, GoTo
  <2>2. /\ pc'[c] = "start" /\ db'[c] = NULL /\ sock'[c] = NULL
        /\ \A e \in Conns \ {c} : pc'[e] = pc[e] /\ db'[e] = db[e] /\ sock'[e] = sock[e]
        /\ openTo'[s] = NULL /\ \A t \in Sockets \ {s} : openTo'[t] = openTo[t]
    BY <2>1
  <2>. HIDE DEF TypeOK
  <2>3. ConnsOK'
    BY <1>0, <1>t, <2>1, <2>2 DEF ConnsOK, NotShared, DequesOK
  <2>4. NotShared'
    BY <1>0, <1>t, <2>1, <2>2 DEF ConnsOK, NotShared, DequesOK
  <2>5. DequesOK'
    BY <1>0, <1>t, <2>1, <2>2 DEF ConnsOK, NotShared, DequesOK
  <2>6. NoneLost'
    BY <1>0, <1>t, <2>1, <2>2 DEF ConnsOK, DequesOK, NoneLost
  <2>7. UsedOK'
    BY <1>0, <1>t, <2>1, <2>2 DEF ConnsOK, NotShared, DequesOK, UsedOK
  <2>. QED
    BY <2>3, <2>4, <2>5, <2>6, <2>7
<1>9. ASSUME NEW c \in Conns, EndWithout(c) PROVE Places'
  <2>1. /\ pc' = [pc EXCEPT ![c] = "start"] /\ db' = [db EXCEPT ![c] = NULL]
        /\ sock' = sock /\ idle_sock' = idle_sock /\ used_sock' = used_sock /\ openTo' = openTo
        /\ pc[c] = "failed"
    BY <1>9 DEF EndWithout, GoTo
  <2>2. ConnsOK'
    BY <1>0, <2>1 DEF ConnsOK, NotShared, DequesOK
  <2>3. NotShared'
    BY <1>0, <2>1 DEF ConnsOK, NotShared, DequesOK
  <2>4. DequesOK'
    BY <1>0, <2>1 DEF ConnsOK, NotShared, DequesOK
  <2>5. NoneLost'
    BY <1>0, <2>1 DEF ConnsOK, DequesOK, NoneLost
  <2>6. UsedOK'
    BY <1>0, <2>1 DEF ConnsOK, NotShared, DequesOK, UsedOK
  <2>. QED
    BY <2>2, <2>3, <2>4, <2>5, <2>6
<1>10. CASE Clock
  BY <1>10 DEF Clock, ConnsOK, NotShared, DequesOK, NoneLost, UsedOK
<1>11. CASE SetCurrentTime
  <2>1. /\ pc' = pc /\ db' = db /\ sock' = sock /\ used_sock' = used_sock /\ openTo' = openTo
        /\ \A d \in DataBases : /\ SocketsOf(idle_sock'[d]) = SocketsOf(idle_sock[d])
                                /\ Distinct(idle_sock'[d])
    <3>1. ASSUME NEW d \in DataBases
          PROVE  SocketsOf(idle_sock'[d]) = SocketsOf(idle_sock[d]) /\ Distinct(idle_sock'[d])
      <4>1. idle_sock[d] \in Seq(Entries) /\ Distinct(idle_sock[d])
        BY DEF Entries, DequesOK
      <4>2. /\ idle_sock'[d] \in Seq(Entries) /\ Len(idle_sock'[d]) = Len(idle_sock[d])
            /\ \A i \in 1..Len(idle_sock[d]) : idle_sock'[d][i].socket = idle_sock[d][i].socket
        BY <1>11, SetCurrentTimeLemma
      <4>. QED
        BY <4>1, <4>2, MapLemma
    <3>. QED
      BY <1>11, <3>1 DEF SetCurrentTime
  <2>2. ConnsOK'
    BY <1>0, <2>1 DEF ConnsOK, NotShared, DequesOK
  <2>3. NotShared'
    BY <1>0, <2>1 DEF ConnsOK, NotShared, DequesOK
  <2>4. DequesOK'
    BY <1>0, <2>1 DEF ConnsOK, NotShared, DequesOK
  <2>5. NoneLost'
    BY <1>0, <2>1 DEF ConnsOK, DequesOK, NoneLost
  <2>6. UsedOK'
    BY <1>0, <2>1 DEF ConnsOK, NotShared, DequesOK, UsedOK
  <2>. QED
    BY <2>2, <2>3, <2>4, <2>5, <2>6
<1>12. CASE Sweep
  <2>1. /\ pc' = pc /\ db' = db /\ sock' = sock /\ used_sock' = used_sock
        /\ openTo' = [s \in Sockets |-> IF s \in ExpiredSockets THEN NULL ELSE openTo[s]]
        /\ ExpiredSockets \in SUBSET Sockets
        /\ \A s \in ExpiredSockets : \E d \in DataBases : s \in SocketsOf(idle_sock[d])
        /\ \A d \in DataBases : /\ SocketsOf(idle_sock'[d]) = SocketsOf(idle_sock[d]) \ ExpiredSockets
                                /\ Distinct(idle_sock'[d])
    <3>2. /\ ExpiredSockets \in SUBSET Sockets
          /\ \A s \in ExpiredSockets : \E d \in DataBases : s \in SocketsOf(idle_sock[d])
          /\ \A d \in DataBases : /\ SocketsOf(idle_sock'[d]) = SocketsOf(idle_sock[d]) \ ExpiredSockets
                                  /\ Distinct(idle_sock'[d])
      BY <1>12, SweepLemma, ExpiredLemma
    <3>. QED
      BY <1>12, <3>2 DEF Sweep, Close
  <2>2. \A t \in Sockets : openTo'[t] = IF t \in ExpiredSockets THEN NULL ELSE openTo[t]
    BY <2>1
  <2>. HIDE DEF TypeOK
  <2>3. ConnsOK'
    BY <1>0, <1>t, <2>1, <2>2 DEF ConnsOK, NotShared, DequesOK
  <2>4. NotShared'
    BY <1>0, <1>t, <2>1, <2>2 DEF ConnsOK, NotShared, DequesOK
  <2>5. DequesOK'
    BY <1>0, <1>t, <2>1, <2>2 DEF ConnsOK, NotShared, DequesOK
  <2>6. NoneLost'
    BY <1>0, <1>t, <2>1, <2>2 DEF ConnsOK, DequesOK, NoneLost
  <2>7. UsedOK'
    BY <1>0, <1>t, <2>1, <2>2 DEF ConnsOK, NotShared, DequesOK, UsedOK
  <2>. QED
    BY <2>3, <2>4, <2>5, <2>6, <2>7
<1>. QED
  BY <1>1, <1>2, <1>3, <1>4, <1>5, <1>6, <1>7, <1>8, <1>9, <1>10, <1>11, <1>12 DEF Next

(* Every step keeps the counts: what is opened is counted in and what is    *)
(* closed is counted out.                                                   *)
LEMMA CountsStep ==
  ASSUME TypeOK, Places, CountsOpenSockets, [Next]_vars
  PROVE  CountsOpenSockets'
<1>1. CASE UNCHANGED <<openTo, connectNum>>
  BY <1>1 DEF CountsOpenSockets
<1>2. ASSUME NEW c \in Conns, Connect(c) PROVE CountsOpenSockets'
  <2>1. PICK s \in Sockets : openTo[s] = NULL /\ openTo' = [openTo EXCEPT ![s] = db[c]]
    BY <1>2 DEF Connect, Open
  <2>2. db[c] \in DataBases
    BY <1>2 DEF Connect, GoTo, Places, ConnsOK, TypeOK
  <2>3. ASSUME NEW d \in DataBases
        PROVE  connectNum'[d] = Cardinality({t \in Sockets : openTo'[t] = d})
    <3>. DEFINE To == {t \in Sockets : openTo[t] = d}
    <3>1. IsFiniteSet(To)
      <4>1. To \in SUBSET Sockets
        OBVIOUS
      <4>. QED
        BY <4>1, FS_Subset, BackendPoolAssumption
    <3>2. connectNum[d] = Cardinality(To)
      BY DEF CountsOpenSockets
    <3>3. CASE d = db[c]
      <4>1. {t \in Sockets : openTo'[t] = d} = To \cup {s}
        BY <2>1, <2>2, <3>3 DEF TypeOK
      <4>2. s \notin To
        BY <2>1, BackendPoolAssumption
      <4>3. connectNum'[d] = connectNum[d] + 1
        BY <1>2, <2>2, <3>3 DEF Connect, TypeOK
      <4>. HIDE DEF To
      <4>. QED
        BY <3>1, <3>2, <4>1, <4>2, <4>3, FS_AddElement
    <3>4. CASE d # db[c]
      <4>1. {t \in Sockets : openTo'[t] = d} = To
        BY <2>1, <2>2, <3>4, BackendPoolAssumption DEF TypeOK
      <4>2. connectNum'[d] = connectNum[d]
        BY <1>2, <2>2, <3>4 DEF Connect, TypeOK
      <4>. QED
        BY <3>2, <4>1, <4>2
    <3>. QED
      BY <3>3, <3>4
  <2>. QED
    BY <2>3 DEF CountsOpenSockets
<1>3. ASSUME NEW c \in Conns, ReleaseBackendSocket(c) \/ DeleteSocket(c)
      PROVE  CountsOpenSockets'
  <2>1. {sock[c]} \in SUBSET Sockets /\ Close({sock[c]})
    BY <1>3 DEF ReleaseBackendSocket, DeleteSocket, Ends, GoTo, TypeOK, Places, ConnsOK
  <2>. QED
    BY <2>1, CloseLemma
<1>4. CASE Sweep
  <2>1. ExpiredSockets \in SUBSET Sockets
    BY ExpiredLemma DEF Places
  <2>. QED
    BY <1>4, <2>1, CloseLemma DEF Sweep
<1>5. \/ UNCHANGED <<openTo, connectNum>>
      \/ \E c \in Conns : Connect(c) \/ ReleaseBackendSocket(c) \/ DeleteSocket(c)
      \/ Sweep
  BY DEF Next, vars, timeVars, TestLimit, ConnectFails, AddSocketToPool, SetBackendConnect,
         EndWithout, GetBackendConnect, NoneIdle, Clock, SetCurrentTime
<1>. QED
  BY <1>1, <1>2, <1>3, <1>4, <1>5

(* Until the clock is set back, every step keeps the deques in the order of *)
(* last use: sockets come back at the end, with the age zero, are taken     *)
(* from the end, grow old together and leave without a change of order.     *)
LEMMA TimesStep ==
  ASSUME TypeOK, Places, TimesOK, [Next]_vars
  PROVE  TimesOK'
<1>. SUFFICES ASSUME ~setBack'
              PROVE  /\ lag' >= 0
                     /\ \A d \in DataBases :
                          /\ Ordered(idle_sock'[d])
                          /\ \A i \in 1..Len(idle_sock'[d]) : idle_sock'[d][i].age >= 0
  BY DEF TimesOK
<1>0. ~setBack
  BY DEF Next, vars, timeVars, TestLimit, Connect, ConnectFails, AddSocketToPool,
         SetBackendConnect, ReleaseBackendSocket, DeleteSocket, EndWithout,
         GetBackendConnect, NoneIdle, Clock, SetCurrentTime, Sweep
<1>t. /\ lag >= 0 /\ lag \in Ages
      /\ \A d \in DataBases :
           /\ idle_sock[d] \in Seq(Entries) /\ Ordered(idle_sock[d])
           /\ \A i \in 1..Len(idle_sock[d]) : idle_sock[d][i].age >= 0
  BY <1>0 DEF TimesOK, TypeOK, Entries
<1>a. \A a \in Ages : a \in Int
  BY BackendPoolAssumption DEF Ages, Old, Longest
<1>1. CASE UNCHANGED <<idle_sock, lag>>
  BY <1>1, <1>t
<1>2. ASSUME NEW c \in Conns, NEW e \in DataBases, GetBackendConnect(c, e),
             NEW d \in DataBases
      PROVE  /\ Ordered(idle_sock'[d])
             /\ \A i \in 1..Len(idle_sock'[d]) : idle_sock'[d][i].age >= 0
  <2>1. idle_sock' = [idle_sock EXCEPT ![e] = PopBack(idle_sock[e])] /\ idle_sock[e] # <<>>
    BY <1>2 DEF GetBackendConnect
  <2>2. CASE d = e
    <3>. DEFINE q == idle_sock[d]
                r == PopBack(q)
    <3>1. idle_sock'[d] = r
      BY <2>1, <2>2 DEF TypeOK
    <3>2. q \in Seq(Entries) /\ q # <<>> /\ Ordered(q)
          /\ \A i \in 1..Len(q) : q[i].age >= 0
      BY <1>t, <2>1, <2>2
    <3>. HIDE DEF q, r
    <3>3. Len(r) = Len(q) - 1 /\ Len(q) \in Nat /\ \A i \in 1..(Len(q) - 1) : r[i] = q[i]
      BY <3>2, PopBackLemma DEF r
    <3>. QED
      BY <3>1, <3>2, <3>3 DEF Ordered
  <2>3. CASE d # e
    BY <1>t, <2>1, <2>3 DEF TypeOK
  <2>. QED
    BY <2>2, <2>3
<1>3. ASSUME NEW c \in Conns, SetBackendConnect(c), NEW d \in DataBases
      PROVE  /\ Ordered(idle_sock'[d])
             /\ \A i \in 1..Len(idle_sock'[d]) : idle_sock'[d][i].age >= 0
  <2>. DEFINE f == openTo[sock[c]]
              e == [socket |-> sock[c], age |-> 0]
  <2>1. idle_sock' = [idle_sock EXCEPT ![f] = Append(idle_sock[f], e)]
    BY <1>3 DEF SetBackendConnect
  <2>2. CASE d = f
    <3>. DEFINE q == idle_sock[d]
                r == Append(q, e)
    <3>1. idle_sock'[d] = r
      BY <2>1, <2>2 DEF TypeOK
    <3>2. q \in Seq(Entries) /\ Ordered(q) /\ \A i \in 1..Len(q) : q[i].age >= 0
      BY <1>t
    <3>3. \A i \in 1..Len(q) : q[i] \in Entries
      BY <3>2
    <3>4. \A i \in 1..Len(q) : q[i].age \in Int
      BY <1>a, <3>3 DEF Entries
    <3>5. /\ Len(r) = Len(q) + 1 /\ Len(q) \in Nat
          /\ \A i \in 1..Len(q) : r[i] = q[i]
          /\ r[Len(q) + 1] = e /\ e.age = 0
      BY <3>2
    <3>. HIDE DEF q, r, e
    <3>6. \A i \in 1..Len(r) : i \in 1..Len(q) \/ i = Len(q) + 1
      BY <3>5
    <3>7. \A i \in 1..Len(r) : r[i].age >= 0
      BY <3>2, <3>5, <3>6
    <3>8. Ordered(r)
      <4>. SUFFICES ASSUME NEW i \in 1..Len(r), NEW j \in 1..Len(r), i <= j
                    PROVE  r[j].age <= r[i].age
        BY DEF Ordered
      <4>1. CASE j \in 1..Len(q)
        <5>1. i \in 1..Len(q)
          BY <3>5, <4>1
        <5>. QED
          BY <3>2, <3>5, <4>1, <5>1 DEF Ordered
      <4>2. CASE j = Len(q) + 1
        BY <3>5, <3>7, <4>2
      <4>. QED
        BY <3>6, <4>1, <4>2
    <3>. QED
      BY <3>1, <3>7, <3>8
  <2>3. CASE d # f
    BY <1>t, <2>1, <2>3 DEF TypeOK
  <2>. QED
    BY <2>2, <2>3
<1>4. CASE Clock
  <2>1. lag' = Shift(lag, 1) /\ idle_sock' = idle_sock
    BY <1>4 DEF Clock
  <2>2. lag' >= 0
    BY <1>t, <2>1, ShiftLemma
  <2>. QED
    BY <1>t, <2>1, <2>2
<1>5. CASE SetCurrentTime
  <2>1. lag' = 0
    BY <1>5 DEF SetCurrentTime
  <2>2. ASSUME NEW d \in DataBases
        PROVE  /\ Ordered(idle_sock'[d])
               /\ \A i \in 1..Len(idle_sock'[d]) : idle_sock'[d][i].age >= 0
    <3>. DEFINE q == idle_sock[d]
                r == idle_sock'[d]
    <3>1. /\ Len(r) = Len(q)
          /\ \A i \in 1..Len(q) : r[i].age = Shift(q[i].age, lag)
      BY <1>5, SetCurrentTimeLemma
    <3>2. q \in Seq(Entries) /\ Ordered(q) /\ \A i \in 1..Len(q) : q[i].age >= 0
      BY <1>t
    <3>. HIDE DEF q, r
    <3>3. \A i \in 1..Len(q) : q[i] \in Entries
      BY <3>2
    <3>4. \A i \in 1..Len(q) : q[i].age \in Ages
      BY <3>3 DEF Entries
    <3>5. Ordered(r)
      BY <1>t, <3>1, <3>2, <3>4, ShiftLemma DEF Ordered
    <3>6. \A i \in 1..Len(r) : r[i].age >= 0
      BY <1>t, <3>1, <3>2, <3>4, ShiftLemma
    <3>. QED
      BY <3>5, <3>6 DEF r
  <2>. QED
    BY <2>1, <2>2
<1>6. CASE Sweep
  <2>1. lag' = lag
    BY <1>6 DEF Sweep
  <2>2. \A d \in DataBases :
          /\ Ordered(idle_sock[d]) => Ordered(idle_sock'[d])
          /\ \A k \in 1..Len(idle_sock'[d]) : \E i \in 1..Len(idle_sock[d]) :
               idle_sock'[d][k] = idle_sock[d][i]
    BY <1>6, SweepLemma DEF Places
  <2>. QED
    BY <1>t, <2>1, <2>2
<1>7. ASSUME NEW c \in Conns, SetBackendConnect(c) \/ \E d \in DataBases : GetBackendConnect(c, d)
      PROVE  lag' >= 0
  BY <1>7, <1>t DEF SetBackendConnect, GetBackendConnect, timeVars
<1>8. \/ UNCHANGED <<idle_sock, lag>>
      \/ \E c \in Conns : SetBackendConnect(c) \/ \E d \in DataBases : GetBackendConnect(c, d)
      \/ Clock \/ SetCurrentTime \/ Sweep
  BY DEF Next, vars, timeVars, TestLimit, Connect, ConnectFails, AddSocketToPool,
         ReleaseBackendSocket, DeleteSocket, EndWithout, NoneIdle
<1>. QED
  BY <1>1, <1>2, <1>3, <1>4, <1>5, <1>6, <1>7, <1>8

-----------------------------------------------------------------------------
(* The invariant holds in every state of every behaviour. *)
THEOREM InvHolds == Spec => []Inv
<1>1. Init => Inv
  <2>. SUFFICES ASSUME Init PROVE Inv
    OBVIOUS
  <2>0. NULL \notin Sockets /\ NULL \notin DataBases /\ IsFiniteSet(Sockets)
    BY BackendPoolAssumption
  <2>1. \A d \in DataBases : idle_sock[d] = <<>> /\ idle_sock[d] \in Seq(Entries)
    BY DEF Init
  <2>2. TypeOK
    <3>1. idle_sock \in [DataBases -> Seq(Entries)]
      BY <2>1 DEF Init
    <3>. QED
      BY <3>1, ShiftLemma DEF Init, TypeOK, Entries
  <2>3. \A d \in DataBases :
          SocketsOf(idle_sock[d]) = {} /\ Distinct(idle_sock[d]) /\ Ordered(idle_sock[d])
    BY <2>1 DEF SocketsOf, Distinct, Ordered
  <2>4. Places
    BY <2>0, <2>3 DEF Init, Places, ConnsOK, NotShared, DequesOK, NoneLost, UsedOK
  <2>5. CountsOpenSockets
    <3>1. ASSUME NEW d \in DataBases PROVE {s \in Sockets : openTo[s] = d} = {}
      BY <2>0 DEF Init
    <3>. QED
      BY <3>1, FS_EmptySet DEF Init, CountsOpenSockets
  <2>6. TimesOK
    BY <2>1, <2>3 DEF Init, TimesOK
  <2>. QED
    BY <2>2, <2>4, <2>5, <2>6 DEF Inv
<1>2. Inv /\ [Next]_vars => Inv'
  BY TypeStep, PlacesStep, CountsStep, TimesStep DEF Inv, Places
<1>. QED
  BY <1>1, <1>2, PTL DEF Spec

(* Every variable keeps its type: no count goes below zero and no age       *)
(* leaves its range.                                                        *)
THEOREM TypeCorrect == Spec => []TypeOK
BY InvHolds, PTL DEF Inv

(* Every open socket is in one place: idle in its deque once, or in the     *)
(* hands of the one connection that asked for its database, and the pool    *)
(* lists as used what connections use.                                      *)
THEOREM OneOwnerHolds == Spec => []OneOwner
<1>1. Inv => OneOwner
  <2>. SUFFICES ASSUME Inv PROVE OneOwner
    OBVIOUS
  <2>. USE DEF Inv, Places
  <2>0. NULL \notin Sockets /\ NULL \notin DataBases
    BY BackendPoolAssumption
  <2>1. \A d \in DataBases : IdleSockets(d) = SocketsOf(idle_sock[d])
    BY DEF IdleSockets, SocketsOf
  <2>2. ASSUME NEW d \in DataBases PROVE Cardinality(IdleSockets(d)) = Len(idle_sock[d])
    <3>. DEFINE n == Len(idle_sock[d])
                T == SocketsOf(idle_sock[d])
                f == [i \in 1..n |-> idle_sock[d][i].socket]
    <3>1. n \in Nat
      BY DEF TypeOK
    <3>2. f \in [1..n -> T] /\ \A t \in T : \E i \in 1..n : f[i] = t
      BY DEF SocketsOf
    <3>3. \A i, j \in 1..n : f[i] = f[j] => i = j
      BY DEF DequesOK, Distinct
    <3>. HIDE DEF n, T, f
    <3>4. f \in Bijection(1..n, T)
      BY <3>2, <3>3 DEF Bijection, Injection, Surjection, IsInjective
    <3>5. Cardinality(T) = n
      BY <3>1, <3>4, FS_CountingElements DEF ExistsBijection
    <3>. QED
      BY <2>1, <3>5 DEF n, T
  <2>3. ASSUME NEW s \in Sockets, {c \in Conns : sock[c] = s} = {}
        PROVE  \A d \in DataBases : s \in IdleSockets(d) <=> openTo[s] = d
    BY <2>0, <2>1, <2>3 DEF DequesOK, NoneLost
  <2>4. ASSUME NEW s \in Sockets, {c \in Conns : sock[c] = s} # {}
        PROVE  \E c \in Conns :
                 /\ {e \in Conns : sock[e] = s} = {c} /\ openTo[s] = db[c]
                 /\ s \notin UNION {IdleSockets(d) : d \in DataBases}
                 /\ s \in used_sock <=> pc[c] = "using" /\ db[c] \in Pooled
    <3>1. PICK c \in Conns : sock[c] = s
      BY <2>4
    <3>2. \A e \in Conns : sock[e] = s <=> e = c
      BY <2>0, <3>1 DEF NotShared
    <3>3. {e \in Conns : sock[e] = s} = {c}
      BY <3>2
    <3>4. openTo[s] = db[c]
      BY <2>0, <3>1 DEF ConnsOK
    <3>5. s \notin UNION {IdleSockets(d) : d \in DataBases}
      BY <2>1, <3>1 DEF DequesOK
    <3>6. s \in used_sock <=> pc[c] = "using" /\ db[c] \in Pooled
      BY <3>1, <3>2 DEF UsedOK
    <3>. QED
      BY <3>3, <3>4, <3>5, <3>6
  <2>5. \A s \in used_sock : \E c \in Conns : sock[c] = s
    BY DEF UsedOK, TypeOK
  <2>. QED
    BY <2>2, <2>3, <2>4, <2>5 DEF OneOwner
<1>. QED
  BY <1>1, InvHolds, PTL

(* connectNum is the number of open sockets of its database at every        *)
(* moment.                                                                  *)
THEOREM CountsHold == Spec => []CountsOpenSockets
BY InvHolds, PTL DEF Inv

(* A sweep closes an idle socket only if it was idle for longer than the    *)
(* release time, or seems to come from the future and the clock was set     *)
(* back; and until then closes every one idle for longer than both times:   *)
(* those before it in the deque were idle for at least as long.             *)
THEOREM SweepIsRight == Spec => SweepClosesIdle
<1>1. ASSUME Inv, Sweep, NEW d \in DataBases, NEW i \in 1..Len(idle_sock[d])
      PROVE  LET e == idle_sock[d][i]
                 closes == openTo'[e.socket] = NULL
             IN /\ closes => e.age > IdleRelease \/ (e.age < 0 /\ setBack)
                /\ e.age > Longest /\ ~setBack => closes
  <2>. DEFINE q == idle_sock[d]
              e == q[i]
  <2>0. TypeOK /\ DequesOK /\ TimesOK
    BY <1>1 DEF Inv, Places
  <2>1. q \in Seq(Entries) /\ \A j \in 1..Len(q) : q[j] \in Entries /\ q[j].age \in Ages
    <3>1. q \in Seq(Entries)
      BY <2>0 DEF TypeOK, Entries
    <3>2. \A j \in 1..Len(q) : q[j] \in Entries
      BY <3>1
    <3>. QED
      BY <3>1, <3>2 DEF Entries
  <2>2. /\ e.socket \in Sockets /\ e.socket \in SocketsOf(q) /\ openTo[e.socket] = d /\ d # NULL
    <3>1. e.socket \in Sockets /\ e.socket \in SocketsOf(q)
      BY <2>1 DEF Entries, SocketsOf
    <3>. HIDE DEF q, e
    <3>. QED
      BY <2>0, <3>1, BackendPoolAssumption DEF DequesOK, q
  <2>3. openTo'[e.socket] = NULL <=> i \in Expired(d)
    <3>1. openTo'[e.socket] = IF e.socket \in ExpiredSockets THEN NULL ELSE openTo[e.socket]
      BY <1>1, <2>2 DEF Sweep, Close
    <3>. QED
      BY <2>0, <2>2, <3>1, ExpiredLemma
  <2>4. \A a \in Ages : a \in Int
    BY BackendPoolAssumption DEF Ages, Old, Longest
  <2>5. ASSUME i \in Expired(d) PROVE e.age > IdleRelease \/ (e.age < 0 /\ setBack)
    <3>1. Elapsed(e.age) > IdleRelease
      BY <2>5 DEF Expired
    <3>2. CASE e.age >= 0
      BY <2>1, <3>1, <3>2, ElapsedLemma
    <3>3. CASE e.age < 0
      BY <2>0, <2>1, <2>4, <3>3 DEF TimesOK
    <3>. QED
      BY <2>1, <2>4, <3>2, <3>3
  <2>6. ASSUME e.age > Longest, ~setBack PROVE i \in Expired(d)
    <3>1. \A j \in 1..Len(q) : q[j].age >= 0 /\ Elapsed(q[j].age) = q[j].age
      BY <2>0, <2>1, <2>6, ElapsedLemma DEF TimesOK
    <3>2. \A j \in 1..i : j \in 1..Len(q) /\ j <= i
      OBVIOUS
    <3>3. Ordered(q)
      BY <2>0, <2>6 DEF TimesOK
    <3>4. \A j \in 1..i : q[j].age >= e.age
      <4>. HIDE DEF q
      <4>. QED
        BY <2>1, <3>2, <3>3 DEF Ordered, e
    <3>5. /\ IdleCheck \in Int /\ IdleRelease \in Int /\ Longest \in Int
          /\ Longest >= IdleCheck /\ Longest >= IdleRelease
      BY BackendPoolAssumption DEF Longest
    <3>6. /\ \A j \in 1..i : Elapsed(q[j].age) > IdleCheck
          /\ Elapsed(q[i].age) > IdleRelease
      <4>. HIDE DEF q
      <4>1. ASSUME NEW j \in 1..i
            PROVE  q[j].age > Longest /\ q[j].age \in Int /\ Elapsed(q[j].age) = q[j].age
        <5>1. q[j].age \in Int /\ e.age \in Int
          BY <2>1, <2>4, <3>2 DEF e
        <5>. QED
          BY <2>6, <3>1, <3>2, <3>4, <3>5, <5>1
      <4>. QED
        BY <3>5, <4>1
    <3>. QED
      BY <3>6 DEF Expired
  <2>. QED
    BY <2>3, <2>5, <2>6
<1>2. Inv /\ [Next]_vars =>
        [Sweep => \A d \in DataBases : \A i \in 1..Len(idle_sock[d]) :
           LET e == idle_sock[d][i]
               closes == openTo'[e.socket] = NULL
           IN /\ closes => e.age > IdleRelease \/ (e.age < 0 /\ setBack)
              /\ e.age > Longest /\ ~setBack => closes]_vars
  BY <1>1
<1>. QED
  BY <1>2, InvHolds, PTL DEF Spec, SweepClosesIdle

-----------------------------------------------------------------------------
(* Refinement.                                                              *)

Holders == [s \in Sockets |-> Holder(s)]

(* Who holds a socket, in a state that keeps the invariant. *)
LEMMA HolderLemma ==
  ASSUME TypeOK, Places, NEW s \in Sockets
  PROVE  /\ openTo[s] = NULL => Holder(s) = "closed"
         /\ \A c \in Conns : sock[c] = s => openTo[s] # NULL /\ Holder(s) = c
         /\ openTo[s] # NULL /\ (\A c \in Conns : sock[c] # s) => Holder(s) = "nobody"
<1>1. NULL \notin Sockets
  BY BackendPoolAssumption
<1>2. ASSUME NEW c \in Conns, sock[c] = s PROVE openTo[s] # NULL /\ Holder(s) = c
  <2>1. openTo[s] # NULL
    BY <1>1, <1>2 DEF Places, ConnsOK
  <2>2. \A e \in Conns : sock[e] = s => e = c
    BY <1>1, <1>2 DEF Places, NotShared
  <2>. QED
    BY <1>2, <2>1, <2>2 DEF Holder
<1>. QED
  BY <1>2 DEF Holder

(* The same of the state after a step. *)
LEMMA HolderLemmaNext ==
  ASSUME TypeOK', Places', NEW s \in Sockets
  PROVE  /\ openTo'[s] = NULL => Holder(s)' = "closed"
         /\ \A c \in Conns : sock'[c] = s => openTo'[s] # NULL /\ Holder(s)' = c
         /\ openTo'[s] # NULL /\ (\A c \in Conns : sock'[c] # s) => Holder(s)' = "nobody"
<1>1. NULL \notin Sockets
  BY BackendPoolAssumption
<1>2. ASSUME NEW c \in Conns, sock'[c] = s PROVE openTo'[s] # NULL /\ Holder(s)' = c
  <2>1. openTo'[s] # NULL
    BY <1>1, <1>2 DEF Places, ConnsOK
  <2>2. \A e \in Conns : sock'[e] = s => e = c
    BY <1>1, <1>2 DEF Places, NotShared
  <2>. QED
    BY <1>2, <2>1, <2>2 DEF Holder
<1>. QED
  BY <1>2 DEF Holder

(* A step that changes no connection's socket and opens and closes none is  *)
(* a stutter of the promise.                                                *)
LEMMA StutterLemma ==
  ASSUME UNCHANGED <<sock, openTo>>
  PROVE  Holders' = Holders
BY DEF Holders, Holder

(* The pool keeps its promise: a socket passes from one connection to       *)
(* another only after it was given back or closed.                          *)
THEOREM LeasesImplemented == Spec => ImplementsLeases
<1>0. NULL \notin Sockets /\ NULL \notin DataBases
  BY BackendPoolAssumption
<1>1. Init => Promise!Init
  BY <1>0 DEF Init, Promise!Init, Holder
<1>2. ASSUME Inv, Inv', [Next]_vars
      PROVE  [Promise!Next]_Holders
  <2>. USE DEF Inv
  <2>0. TypeOK /\ Places /\ TypeOK' /\ Places'
    BY <1>2
  <2>c. \A c \in Conns : c # "nobody" /\ c # "closed"
    BY BackendPoolAssumption
  <2>1. CASE UNCHANGED <<sock, openTo>>
    BY <2>1, StutterLemma
  <2>2. ASSUME NEW c \in Conns, NEW s \in Sockets,
               pc[c] \in {"start", "connect"},
               openTo[s] = NULL \/ s \in UNION {SocketsOf(idle_sock[d]) : d \in DataBases},
               sock' = [sock EXCEPT ![c] = s],
               \A t \in Sockets \ {s} : openTo'[t] = openTo[t]
        PROVE  Promise!Take(c, s)
    <3>1. sock[c] = NULL
      BY <2>0, <2>2 DEF Places, ConnsOK
    <3>2. \A e \in Conns : sock[e] # s
      BY <1>0, <2>0, <2>2 DEF Places, ConnsOK, DequesOK
    <3>3. Holder(s) \in {"nobody", "closed"}
      BY <2>0, <3>2, HolderLemma
    <3>4. ASSUME NEW t \in Sockets PROVE Holder(t) # c
      <4>1. CASE \A e \in Conns : sock[e] # t
        BY <2>0, <2>c, <4>1, HolderLemma
      <4>2. ASSUME NEW e \in Conns, sock[e] = t PROVE Holder(t) # c
        <5>1. Holder(t) = e
          BY <2>0, <4>2, HolderLemma
        <5>2. e # c
          BY <1>0, <3>1, <4>2
        <5>. QED
          BY <5>1, <5>2
      <4>. QED
        BY <4>1, <4>2
    <3>5. sock'[c] = s /\ \A e \in Conns \ {c} : sock'[e] = sock[e]
      BY <2>0, <2>2 DEF TypeOK
    <3>6. Holder(s)' = c
      BY <2>0, <3>5, HolderLemmaNext
    <3>7. ASSUME NEW t \in Sockets, t # s PROVE Holder(t)' = Holder(t)
      <4>1. openTo'[t] = openTo[t] /\ \A e \in Conns : sock'[e] = t <=> sock[e] = t
        BY <1>0, <2>2, <3>1, <3>5, <3>7
      <4>2. CASE \A e \in Conns : sock[e] # t
        BY <2>0, <4>1, <4>2, HolderLemma, HolderLemmaNext
      <4>3. ASSUME NEW e \in Conns, sock[e] = t PROVE Holder(t)' = Holder(t)
        BY <2>0, <4>1, <4>3, HolderLemma, HolderLemmaNext
      <4>. QED
        BY <4>2, <4>3
    <3>8. Holders' = [Holders EXCEPT ![s] = c]
      BY <3>6, <3>7 DEF Holders
    <3>. QED
      BY <3>3, <3>4, <3>8 DEF Promise!Take, Holders
  <2>3. ASSUME NEW c \in Conns, pc[c] = "using",
               sock' = [sock EXCEPT ![c] = NULL],
               \/ openTo' = openTo
               \/ openTo' = [openTo EXCEPT ![sock[c]] = NULL]
        PROVE  Promise!GiveBack(sock[c]) \/ Promise!Drop(sock[c])
    <3>0. PICK s \in Sockets : s = sock[c]
      BY <2>0, <2>3 DEF TypeOK, Places, ConnsOK
    <3>1. openTo[s] # NULL /\ Holder(s) = c
      BY <2>0, <3>0, HolderLemma
    <3>2. sock'[c] = NULL /\ \A e \in Conns \ {c} : sock'[e] = sock[e]
      BY <2>0, <2>3 DEF TypeOK
    <3>3. \A e \in Conns : sock'[e] # s
      BY <1>0, <2>0, <3>0, <3>2 DEF Places, NotShared
    <3>4. \A t \in Sockets \ {s} : openTo'[t] = openTo[t]
      BY <2>0, <2>3, <3>0 DEF TypeOK
    <3>5. ASSUME NEW t \in Sockets, t # s PROVE Holder(t)' = Holder(t)
      <4>1. openTo'[t] = openTo[t] /\ \A e \in Conns : sock'[e] = t <=> sock[e] = t
        BY <1>0, <3>0, <3>2, <3>4, <3>5
      <4>2. CASE \A e \in Conns : sock[e] # t
        BY <2>0, <4>1, <4>2, HolderLemma, HolderLemmaNext
      <4>3. ASSUME NEW e \in Conns, sock[e] = t PROVE Holder(t)' = Holder(t)
        BY <2>0, <4>1, <4>3, HolderLemma, HolderLemmaNext
      <4>. QED
        BY <4>2, <4>3
    <3>6. Holder(s)' \in {"nobody", "closed"}
      BY <2>0, <3>1, <3>3, HolderLemmaNext
    <3>7. Holders' = [Holders EXCEPT ![s] = Holder(s)']
      BY <3>5 DEF Holders
    <3>8. Promise!GiveBack(s) \/ Promise!Drop(s)
      BY <3>1, <3>6, <3>7 DEF Promise!GiveBack, Promise!Drop, Holders
    <3>. QED
      BY <3>0, <3>8
  <2>4. ASSUME Sweep, ExpiredSockets # {} PROVE Promise!Expire(ExpiredSockets)
    <3>1. /\ sock' = sock
          /\ openTo' = [s \in Sockets |-> IF s \in ExpiredSockets THEN NULL ELSE openTo[s]]
      BY <2>4 DEF Sweep, Close
    <3>2. /\ ExpiredSockets \in SUBSET Sockets
          /\ \A s \in ExpiredSockets : \E d \in DataBases : s \in SocketsOf(idle_sock[d])
      BY <2>0, ExpiredLemma DEF Places
    <3>3. ASSUME NEW s \in ExpiredSockets PROVE Holder(s) = "nobody" /\ Holder(s)' = "closed"
      <4>1. s \in Sockets /\ openTo[s] # NULL /\ \A c \in Conns : sock[c] # s
        BY <1>0, <2>0, <3>2 DEF Places, DequesOK
      <4>2. openTo'[s] = NULL
        BY <3>1, <4>1
      <4>. QED
        BY <2>0, <4>1, <4>2, HolderLemma, HolderLemmaNext
    <3>4. ASSUME NEW t \in Sockets, t \notin ExpiredSockets PROVE Holder(t)' = Holder(t)
      <4>1. openTo'[t] = openTo[t] /\ \A e \in Conns : sock'[e] = sock[e]
        BY <3>1, <3>4
      <4>2. CASE \A e \in Conns : sock[e] # t
        BY <2>0, <4>1, <4>2, HolderLemma, HolderLemmaNext
      <4>3. ASSUME NEW e \in Conns, sock[e] = t PROVE Holder(t)' = Holder(t)
        BY <2>0, <4>1, <4>3, HolderLemma, HolderLemmaNext
      <4>. QED
        BY <4>2, <4>3
    <3>5. Holders' = [s \in Sockets |-> IF s \in ExpiredSockets THEN "closed" ELSE Holders[s]]
      BY <3>3, <3>4 DEF Holders
    <3>. QED
      BY <2>4, <3>2, <3>3, <3>5 DEF Promise!Expire, Holders
  <2>5. CASE \E c \in Conns : Connect(c)
    <3>1. PICK c \in Conns : Connect(c)
      BY <2>5
    <3>2. PICK s \in Sockets \ Open : /\ sock' = [sock EXCEPT ![c] = s]
                                      /\ openTo' = [openTo EXCEPT ![s] = db[c]]
      BY <3>1 DEF Connect
    <3>3. openTo[s] = NULL /\ \A t \in Sockets \ {s} : openTo'[t] = openTo[t]
      BY <2>0, <3>2 DEF Open, TypeOK
    <3>4. Promise!Take(c, s)
      BY <2>2, <3>1, <3>2, <3>3 DEF Connect, GoTo
    <3>. QED
      BY <3>4 DEF Promise!Next
  <2>6. CASE \E c \in Conns, d \in DataBases : GetBackendConnect(c, d)
    <3>1. PICK c \in Conns, d \in DataBases : GetBackendConnect(c, d)
      BY <2>6
    <3>. DEFINE s == Back(idle_sock[d]).socket
    <3>2. s \in Sockets /\ s \in SocketsOf(idle_sock[d])
      <4>1. idle_sock[d] \in Seq(Entries) /\ idle_sock[d] # <<>>
        BY <2>0, <3>1 DEF TypeOK, Entries, GetBackendConnect
      <4>. QED
        BY <4>1, PopBackLemma DEF Entries
    <3>3. pc[c] = "start" /\ sock' = [sock EXCEPT ![c] = s] /\ openTo' = openTo
      BY <3>1 DEF GetBackendConnect, GoTo
    <3>. HIDE DEF s
    <3>4. Promise!Take(c, s)
      BY <2>2, <3>2, <3>3
    <3>. QED
      BY <3>2, <3>4 DEF Promise!Next
  <2>7. CASE \E c \in Conns :
               SetBackendConnect(c) \/ ReleaseBackendSocket(c) \/ DeleteSocket(c)
    <3>1. PICK c \in Conns : SetBackendConnect(c) \/ ReleaseBackendSocket(c) \/ DeleteSocket(c)
      BY <2>7
    <3>2. /\ pc[c] = "using" /\ sock' = [sock EXCEPT ![c] = NULL]
          /\ openTo' = openTo \/ Close({sock[c]})
      BY <3>1 DEF SetBackendConnect, ReleaseBackendSocket, DeleteSocket, Ends, GoTo
    <3>3. sock[c] \in Sockets
      BY <2>0, <3>2 DEF TypeOK, Places, ConnsOK
    <3>4. openTo' = openTo \/ openTo' = [openTo EXCEPT ![sock[c]] = NULL]
      BY <2>0, <3>2, <3>3 DEF Close, TypeOK
    <3>5. Promise!GiveBack(sock[c]) \/ Promise!Drop(sock[c])
      BY <2>3, <3>2, <3>4
    <3>. QED
      BY <3>3, <3>5 DEF Promise!Next
  <2>8. CASE Sweep
    <3>1. CASE ExpiredSockets = {}
      <4>1. openTo' = openTo /\ sock' = sock
        BY <2>0, <2>8, <3>1 DEF Sweep, Close, TypeOK
      <4>. QED
        BY <4>1, <2>1
    <3>2. CASE ExpiredSockets # {}
      <4>1. ExpiredSockets \in SUBSET Sockets
        BY <2>0, ExpiredLemma DEF Places
      <4>. QED
        BY <2>4, <2>8, <3>2, <4>1 DEF Promise!Next
    <3>. QED
      BY <3>1, <3>2
  <2>9. \/ UNCHANGED <<sock, openTo>>
        \/ \E c \in Conns : Connect(c)
        \/ \E c \in Conns, d \in DataBases : GetBackendConnect(c, d)
        \/ \E c \in Conns : SetBackendConnect(c) \/ ReleaseBackendSocket(c) \/ DeleteSocket(c)
        \/ Sweep
    BY <1>2 DEF Next, vars, timeVars, TestLimit, ConnectFails, AddSocketToPool, EndWithout,
                NoneIdle, Clock, SetCurrentTime
  <2>. QED
    BY <2>1, <2>5, <2>6, <2>7, <2>8, <2>9
<1>3. Inv /\ Inv' /\ [Next]_vars => [Promise!Next]_Holders
  BY <1>2
<1>. QED
  BY <1>1, <1>3, InvHolds, PTL DEF Spec, ImplementsLeases, Promise!Spec, Holders
=============================================================================
