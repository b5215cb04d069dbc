---------------------------- MODULE DispatchProofs ----------------------------
(***************************************************************************)
(* Proofs about the way of a client from the accept threads through the    *)
(* task queue and the socket pairs to a client thread, for any number of   *)
(* clients, accept threads and client threads.                             *)
(***************************************************************************)
EXTENDS Dispatch, FiniteSetTheorems, SequenceTheorems, WellFoundedInduction, TLAPS

\* An accept thread holds a client from accept() to its hand-over.
HandsOK ==
  \A a \in Acceptors :
    /\ apc[a] \in {"size", "choose", "write", "queue"} <=> hand[a] # NULL
    /\ apc[a] = "write" <=> target[a] # NULL

\* The manager holds one client from pop to write_socketPair, and pops only
\* what is there.
PoppedOK ==
  /\ IF mpc = "hand" THEN \E c \in Clients : popped = <<c>> ELSE popped = <<>>
  /\ mpc = "pop" => taskQueue # <<>>

\* A client thread goes through all that it has read before it does anything
\* else, and then before it reads again.
BatchOK ==
  \A t \in Threads :
    /\ tpc[t] \in {"start", "attach", "doing"} => batch[t] # <<>>
    /\ tpc[t] \in {"loop", "done", "remove", "signal", "fail", "retry", "freed"}
         => batch[t] = <<>>

\* finished_connection is about a connection of its thread.
ClosingOK == \A t \in Threads : tpc[t] \in {"done", "remove"} => closing[t] \in connectList[t]

\* A timer is armed for a connection that has failed; it may have ended since.
TimersOK == \A t \in Threads : timers[t] \subseteq failed \cup closed

\* What the counters of a thread stand for, when it is at pc: the first one is
\* short of one client that is taken over; the last one counts the armed timers
\* and the second one the other connections, each of them after its own write.
Counts(w, d, f, list, armed, pc) ==
  /\ w = IF pc \in {"doing", "recv"} THEN Word - 1 ELSE 0
  /\ d = (Count(list) - Count(armed) - IF pc \in {"remove", "retry", "freed"} THEN 1 ELSE 0)
         % Word
  /\ f = Count(armed) - IF pc = "fail" THEN 1 ELSE 0
CountersOK ==
  \A t \in Threads : Counts(wait[t], doing[t], fail[t], connectList[t], timers[t], tpc[t])

Inv == /\ TypeOK /\ HandsOK /\ PoppedOK /\ BatchOK /\ ClosingOK /\ TimersOK
       /\ OnePlace /\ CountersOK /\ RecordsAddUp

-----------------------------------------------------------------------------

(* Numbers.                                                                 *)

(* The counters are larger than any number of clients.                      *)
LEMMA Bounds ==
  /\ Word \in Nat /\ Word >= 1 /\ Cardinality(Clients) \in Nat /\ Cardinality(Clients) < Word
  /\ NThreads \in Nat \ {0} /\ MaxConnectNum \in Nat \ {0}
  /\ IsFiniteSet(Clients) /\ IsFiniteSet(Acceptors) /\ IsFiniteSet(Threads)
  /\ Threads \subseteq Nat /\ 1 \in Threads /\ NULL \notin Clients /\ NULL \notin Threads
<1>1. /\ IsFiniteSet(Clients) /\ IsFiniteSet(Acceptors) /\ NThreads \in Nat \ {0}
      /\ MaxConnectNum \in Nat \ {0} /\ Word \in Nat /\ Word > MaxConnectNum + Cardinality(Clients)
      /\ NULL \notin Clients \cup Threads
  BY DispatchAssumption
<1>2. Cardinality(Clients) \in Nat
  BY <1>1, FS_CardinalityType
<1>3. IsFiniteSet(Threads)
  BY <1>1, FS_Interval DEF Threads
<1>4. Word >= 1 /\ Cardinality(Clients) < Word
  BY <1>1, <1>2
<1>. QED
  BY <1>1, <1>2, <1>3, <1>4 DEF Threads

(* Numbers modulo the word.                                                 *)
LEMMA ModLemma ==
  ASSUME NEW x \in Int
  PROVE  /\ x % Word \in 0..(Word - 1)
         /\ Inc(x % Word) = (x + 1) % Word
         /\ Dec(x % Word) = (x - 1) % Word
<1>. DEFINE W == Word
            m == x % W
            d == x \div W
<1>1. W \in Nat /\ W >= 1
  BY Bounds
<1>. HIDE DEF W
<1>2. /\ m \in 0..(W - 1) /\ d \in Int /\ x = W * d + m
  BY <1>1
<1>. HIDE DEF m, d
<1>3. \A y \in Int, k \in Int, r \in 0..(W - 1) : y = W * k + r => y % W = r
  BY <1>1
<1>4. (m + 1) % W = (x + 1) % W
  <2>1. CASE m + 1 < W
    <3>1. m + 1 \in 0..(W - 1) /\ m + 1 = W * 0 + (m + 1) /\ x + 1 = W * d + (m + 1)
      BY <1>1, <1>2, <2>1
    <3>. QED
      BY <1>2, <1>3, <3>1
  <2>2. CASE m + 1 = W
    <3>1. 0 \in 0..(W - 1) /\ m + 1 = W * 1 + 0 /\ x + 1 = W * (d + 1) + 0
      BY <1>1, <1>2, <2>2
    <3>. QED
      BY <1>2, <1>3, <3>1
  <2>. QED
    BY <1>1, <1>2, <2>1, <2>2
<1>5. (m + W - 1) % W = (x - 1) % W
  <2>1. CASE m >= 1
    <3>1. m - 1 \in 0..(W - 1) /\ m + W - 1 = W * 1 + (m - 1) /\ x - 1 = W * d + (m - 1)
      BY <1>1, <1>2, <2>1
    <3>. QED
      BY <1>1, <1>2, <1>3, <3>1
  <2>2. CASE m = 0
    <3>1. W - 1 \in 0..(W - 1) /\ m + W - 1 = W * 0 + (W - 1) /\ x - 1 = W * (d - 1) + (W - 1)
      BY <1>1, <1>2, <2>2
    <3>. QED
      BY <1>1, <1>2, <1>3, <3>1
  <2>. QED
    BY <1>1, <1>2, <2>1, <2>2
<1>. QED
  BY <1>2, <1>4, <1>5 DEF Inc, Dec, W, m

(* A number below the word is its own remainder.                            *)
LEMMA SmallMod ==
  ASSUME NEW n \in Nat, n < Word
  PROVE  n % Word = n /\ (Word + n) % Word = n
<1>. DEFINE W == Word
<1>1. W \in Nat /\ W >= 1 /\ n < W
  BY Bounds
<1>. HIDE DEF W
<1>2. n % W = n /\ (W + n) % W = n
  BY <1>1
<1>. QED
  BY <1>2 DEF W

(* A remainder counts as the number it is the remainder of.                 *)
LEMMA ModSum ==
  ASSUME NEW x \in Int, NEW y \in Int
  PROVE  /\ ((x % Word) + y) % Word = (x + y) % Word
         /\ (Word + x) % Word = x % Word
<1>. DEFINE W == Word
            m == x % W
            d == x \div W
            n == (m + y) % W
            e == (m + y) \div W
<1>1. W \in Nat /\ W >= 1
  BY Bounds
<1>. HIDE DEF W
<1>2. m \in 0..(W - 1) /\ d \in Int /\ x = W * d + m
  BY <1>1
<1>. HIDE DEF m, d
<1>3. n \in 0..(W - 1) /\ e \in Int /\ m + y = W * e + n
  BY <1>1, <1>2
<1>4. \A z \in Int, k \in Int, r \in 0..(W - 1) : z = W * k + r => z % W = r
  BY <1>1
<1>. HIDE DEF n, e
<1>5. x + y \in Int /\ d + e \in Int /\ x + y = W * (d + e) + n
  BY <1>1, <1>2, <1>3
<1>6. (x + y) % W = n
  BY <1>3, <1>4, <1>5
<1>7. W + x \in Int /\ d + 1 \in Int /\ W + x = W * (d + 1) + m
  BY <1>1, <1>2
<1>8. (W + x) % W = m
  BY <1>2, <1>4, <1>7
<1>. QED
  BY <1>6, <1>8 DEF W, m, n

(* The scan of get_minTaskThread finds a thread.                            *)
LEMMA MinTaskType ==
  ASSUME TypeOK
  PROVE  MinTaskThread \in Threads \cup {NULL}
<1>1. \A t \in Threads : TaskNum(t) \in Nat
  <2>1. ASSUME NEW t \in Threads PROVE TaskNum(t) \in Nat
    <3>1. wait[t] + doing[t] + fail[t] \in Int
      <4>1. wait[t] \in 0..(Word - 1) /\ doing[t] \in 0..(Word - 1) /\ fail[t] \in 0..(Word - 1)
        BY <2>1 DEF TypeOK
      <4>2. Word \in Nat
        BY Bounds
      <4>. QED
        BY <4>1, <4>2
    <3>2. (wait[t] + doing[t] + fail[t]) % Word \in 0..(Word - 1)
      BY <3>1, ModLemma
    <3>. QED
      BY <3>2, Bounds DEF TaskNum
  <2>. QED
    BY <2>1
<1>2. \A S \in SUBSET Nat : S # {} => \E x \in S : \A y \in S : x <= y
  <2>1. SUFFICES ASSUME NEW S \in SUBSET Nat, S # {} PROVE \E x \in S : \A y \in S : x <= y
    OBVIOUS
  <2>2. PICK x \in S : \A y \in S : ~(<<y, x>> \in OpToRel(<, Nat))
    BY <2>1, NatLessThanWellFounded, WFMin
  <2>3. \A y \in S : ~(y < x)
    BY <2>1, <2>2 DEF OpToRel
  <2>. QED
    BY <2>1, <2>3
<1>. DEFINE V == {TaskNum(t) : t \in Threads}
<1>3. PICK m \in V : \A n \in V : m <= n
  <2>1. V \in SUBSET Nat /\ V # {}
    BY <1>1, Bounds
  <2>. QED
    BY <1>2, <2>1
<1>. DEFINE T == {t \in Threads : TaskNum(t) = m}
<1>4. PICK t \in T : \A u \in T : t <= u
  <2>1. T \in SUBSET Nat /\ T # {}
    BY <1>3, Bounds
  <2>. QED
    BY <1>2, <2>1
<1>5. t \in Threads /\ \A u \in Threads : TaskNum(t) < TaskNum(u) \/ (TaskNum(t) = TaskNum(u) /\ t <= u)
  <2>1. SUFFICES ASSUME NEW u \in Threads
                 PROVE  TaskNum(t) < TaskNum(u) \/ (TaskNum(t) = TaskNum(u) /\ t <= u)
    BY <1>4
  <2>2. TaskNum(t) = m /\ m <= TaskNum(u) /\ TaskNum(u) \in Nat /\ m \in Nat
    BY <1>1, <1>3, <1>4
  <2>3. CASE TaskNum(u) = m
    BY <1>4, <2>2, <2>3
  <2>4. CASE TaskNum(u) # m
    BY <2>2, <2>4
  <2>. QED
    BY <2>3, <2>4
<1>. QED
  BY <1>5 DEF MinTaskThread

-----------------------------------------------------------------------------
(* The task queue, with what the manager has taken out of it.               *)

(* It is a sequence of clients, before and after a step.                    *)
LEMMA WaitingType ==
  /\ TypeOK => popped \in Seq(Clients) /\ taskQueue \in Seq(Clients) /\ Waiting \in Seq(Clients)
  /\ TypeOK' => Waiting' \in Seq(Clients)
<1>1. ASSUME TypeOK
      PROVE  popped \in Seq(Clients) /\ taskQueue \in Seq(Clients) /\ Waiting \in Seq(Clients)
  BY <1>1, ConcatProperties DEF TypeOK, Waiting
<1>2. ASSUME TypeOK' PROVE Waiting' \in Seq(Clients)
  <2>1. popped' \in Seq(Clients) /\ taskQueue' \in Seq(Clients)
    BY <1>2 DEF TypeOK
  <2>. QED
    BY <2>1, ConcatProperties DEF Waiting
<1>. QED
  BY <1>1, <1>2

(* A client is pushed.                                                      *)
LEMMA AddWaiting ==
  ASSUME TypeOK, NEW d \in Clients, taskQueue' = Append(taskQueue, d), popped' = popped
  PROVE  Waiting' = Append(Waiting, d)
<1>. DEFINE p == popped
            q == taskQueue
<1>1. p \in Seq(Clients) /\ q \in Seq(Clients) /\ <<d>> \in Seq(Clients) /\ p \o q \in Seq(Clients)
  BY WaitingType, ConcatProperties
<1>2. Waiting = p \o q /\ Waiting' = p \o Append(q, d)
  BY DEF Waiting
<1>. HIDE DEF p, q
<1>3. Append(q, d) = q \o <<d>> /\ Append(p \o q, d) = (p \o q) \o <<d>>
  BY <1>1, AppendIsConcat
<1>4. (p \o q) \o <<d>> = p \o (q \o <<d>>)
  BY <1>1, ConcatAssociative
<1>. QED
  BY <1>2, <1>3, <1>4

(* The manager pops: the client still waits, and is still the first one.    *)
LEMMA PopWaiting ==
  ASSUME TypeOK, PoppedOK, PopTask
  PROVE  Waiting' = Waiting
<1>. DEFINE q == taskQueue
<1>1. popped = <<>> /\ q # <<>> /\ popped' = <<Head(q)>> /\ taskQueue' = Tail(q)
  BY DEF PopTask, Manager, PoppedOK
<1>2. q \in Seq(Clients)
  BY WaitingType
<1>3. Waiting = <<>> \o q /\ Waiting' = <<Head(q)>> \o Tail(q)
  BY <1>1 DEF Waiting
<1>. HIDE DEF q
<1>4. <<>> \o q = q
  BY <1>2, ConcatEmptySeq
<1>5. <<Head(q)>> \o Tail(q) = q
  BY <1>1, <1>2
<1>. QED
  BY <1>3, <1>4, <1>5

(* The manager writes the client it has popped: the others move up.         *)
LEMMA HandWaiting ==
  ASSUME TypeOK, PoppedOK, HandOver
  PROVE  /\ Waiting # <<>> /\ Waiting' = Tail(Waiting) /\ Head(Waiting) \in Clients
         /\ Head(popped) = Head(Waiting)
<1>. DEFINE q == taskQueue
<1>1. mpc = "hand" /\ popped' = <<>> /\ taskQueue' = q
  BY DEF HandOver, Manager
<1>2. PICK c \in Clients : popped = <<c>>
  BY <1>1 DEF PoppedOK
<1>3. q \in Seq(Clients)
  BY WaitingType
<1>4. Waiting = <<c>> \o q /\ Waiting' = <<>> \o q /\ Head(popped) = c
  BY <1>1, <1>2 DEF Waiting
<1>. HIDE DEF q
<1>5. <<>> \o q = q
  BY <1>3, ConcatEmptySeq
<1>6. <<c>> \o q # <<>> /\ Head(<<c>> \o q) = c /\ Tail(<<c>> \o q) = q
  BY <1>3
<1>. QED
  BY <1>4, <1>5, <1>6

-----------------------------------------------------------------------------
(* Types, and where every thread is.                                        *)

(* What the accept threads' steps leave of the types.                       *)
LEMMA AcceptorTypes ==
  ASSUME TypeOK, HandsOK, NEW a \in Acceptors, Accept(a) \/ AcceptorStep(a)
  PROVE  TypeOK' /\ HandsOK'
<1>1. /\ apc \in [Acceptors -> {"accept", "size", "choose", "write", "queue", "global",
                            "record", "joined"}]
      /\ hand \in [Acceptors -> Clients \cup {NULL}]
      /\ target \in [Acceptors -> Threads \cup {NULL}]
  BY DEF TypeOK
<1>2. NULL \notin Clients /\ NULL \notin Threads
  BY Bounds
<1>3. \A b \in Acceptors :
        /\ apc[b] \in {"size", "choose", "write", "queue"} <=> hand[b] # NULL
        /\ apc[b] = "write" <=> target[b] # NULL
  BY DEF HandsOK
<1>4. CASE Accept(a)
  <2>1. PICK c \in Clients : hand' = [hand EXCEPT ![a] = c]
    BY <1>4 DEF Accept
  <2>2. /\ apc[a] = "accept" /\ apc' = [apc EXCEPT ![a] = "size"]
        /\ UNCHANGED <<target, taskQueue, threadVars, managerVars, recordVars, closed, wild>>
    BY <1>4 DEF Accept, Step
  <2>3. HandsOK'
    BY <1>1, <1>2, <1>3, <2>1, <2>2 DEF HandsOK
  <2>4. TypeOK'
    BY <1>1, <2>1, <2>2 DEF TypeOK, threadVars, counters, connections, managerVars, allocVars,
                       stopVars, recordVars
  <2>. QED
    BY <2>3, <2>4
<1>5. CASE TestSize(a)
  <2>1. /\ apc[a] = "size" /\ apc' \in {[apc EXCEPT ![a] = "queue"], [apc EXCEPT ![a] = "choose"]}
        /\ UNCHANGED <<hand, target, taskQueue, threadVars, managerVars, recordVars, closed, wild>>
    BY <1>5 DEF TestSize, Step
  <2>2. HandsOK'
    BY <1>1, <1>2, <1>3, <2>1 DEF HandsOK
  <2>3. apc' \in [Acceptors -> {"accept", "size", "choose", "write", "queue", "global",
                            "record", "joined"}]
    BY <1>1, <2>1
  <2>4. TypeOK'
    BY <2>1, <2>3 DEF TypeOK, threadVars, counters, connections, managerVars, allocVars,
                       stopVars, recordVars
  <2>. QED
    BY <2>2, <2>4
<1>6. CASE ChooseThread(a)
  <2>1. MinTaskThread \in Threads \cup {NULL}
    BY MinTaskType
  <2>. DEFINE t == MinTaskThread
  <2>2. /\ apc[a] = "choose" /\ apc' = [apc EXCEPT ![a] = IF t = NULL THEN "queue" ELSE "write"]
        /\ target' = [target EXCEPT ![a] = t]
        /\ UNCHANGED <<hand, taskQueue, threadVars, managerVars, recordVars, closed, wild>>
    BY <1>6 DEF ChooseThread, Step
  <2>. HIDE DEF t
  <2>3. t \in Threads \cup {NULL}
    BY <2>1 DEF t
  <2>4. HandsOK'
    BY <1>1, <1>2, <1>3, <2>2, <2>3 DEF HandsOK
  <2>5. TypeOK'
    BY <1>1, <2>2, <2>3 DEF TypeOK, threadVars, counters, connections, managerVars, allocVars,
                       stopVars, recordVars
  <2>. QED
    BY <2>4, <2>5
<1>7. CASE WriteSocketPair(a)
  <2>1. /\ apc[a] = "write" /\ apc' = [apc EXCEPT ![a] = "record"]
        /\ pipe' = [pipe EXCEPT ![target[a]] = Append(pipe[target[a]], Address(hand[a]))]
        /\ hand' = [hand EXCEPT ![a] = NULL] /\ target' = [target EXCEPT ![a] = NULL]
        /\ UNCHANGED <<taskQueue, tpc, batch, counters, connections, managerVars,
                 recordVars, closed, wild>>
    BY <1>7 DEF WriteSocketPair, Step
  <2>2. hand[a] \in Clients /\ target[a] \in Threads
    BY <1>1, <1>3, <2>1
  <2>3. HandsOK'
    BY <1>1, <1>2, <1>3, <2>1 DEF HandsOK
  <2>4. pipe' \in [Threads -> Seq([ns : Clients, isAddress : BOOLEAN])]
    <3>1. pipe \in [Threads -> Seq([ns : Clients, isAddress : BOOLEAN])]
      BY DEF TypeOK
    <3>2. Address(hand[a]) \in [ns : Clients, isAddress : BOOLEAN]
      BY <2>2 DEF Address
    <3>3. Append(pipe[target[a]], Address(hand[a])) \in Seq([ns : Clients, isAddress : BOOLEAN])
      BY <2>2, <3>1, <3>2, AppendProperties
    <3>. QED
      BY <2>1, <2>2, <3>1, <3>3
  <2>5. TypeOK'
    BY <1>1, <2>1, <2>4 DEF TypeOK, counters, connections, managerVars, allocVars, stopVars,
                            recordVars
  <2>. QED
    BY <2>3, <2>5
<1>8. CASE AddTask(a)
  <2>1. /\ apc[a] = "queue" /\ apc' = [apc EXCEPT ![a] = "global"]
        /\ taskQueue' = Append(taskQueue, hand[a]) /\ hand' = [hand EXCEPT ![a] = NULL]
        /\ mpc' = Signalled
        /\ UNCHANGED <<target, threadVars, allocVars, stopVars, recordVars, closed, wild>>
    BY <1>8 DEF AddTask, Step
  <2>2. hand[a] \in Clients
    BY <1>1, <1>3, <2>1
  <2>3. HandsOK'
    BY <1>1, <1>2, <1>3, <2>1 DEF HandsOK
  <2>4. taskQueue' \in Seq(Clients)
    <3>1. taskQueue \in Seq(Clients)
      BY DEF TypeOK
    <3>. QED
      BY <2>1, <2>2, <3>1, AppendProperties
  <2>5. TypeOK'
    BY <1>1, <2>1, <2>4 DEF TypeOK, Signalled, threadVars, counters, connections, allocVars,
                            stopVars, recordVars
  <2>. QED
    BY <2>3, <2>5
<1>9. CASE RecordGlobalQueue(a)
  <2>1. /\ apc[a] = "global" /\ apc' = [apc EXCEPT ![a] = "record"] /\ globalSum' = Inc(globalSum)
        /\ UNCHANGED <<hand, target, taskQueue, threadVars, managerVars, waitSum, handingSum,
                 closed, wild>>
    BY <1>9 DEF RecordGlobalQueue, Step
  <2>2. globalSum' \in 0..(Word - 1)
    <3>1. globalSum + 1 \in Int
      BY Bounds DEF TypeOK
    <3>. QED
      BY <2>1, <3>1, ModLemma DEF Inc
  <2>3. HandsOK'
    BY <1>1, <1>2, <1>3, <2>1 DEF HandsOK
  <2>4. TypeOK'
    BY <1>1, <2>1, <2>2 DEF TypeOK, threadVars, counters, connections, managerVars,
                            allocVars, stopVars
  <2>. QED
    BY <2>3, <2>4
<1>10. CASE RecordAccept(a)
  <2>1. /\ apc[a] = "record" /\ apc' = [apc EXCEPT ![a] = "accept"] /\ waitSum' = Inc(waitSum)
        /\ UNCHANGED <<hand, target, taskQueue, threadVars, managerVars, handingSum, globalSum,
                 closed, wild>>
    BY <1>10 DEF RecordAccept, Step
  <2>2. waitSum' \in 0..(Word - 1)
    <3>1. waitSum + 1 \in Int
      BY Bounds DEF TypeOK
    <3>. QED
      BY <2>1, <3>1, ModLemma DEF Inc
  <2>3. HandsOK'
    BY <1>1, <1>2, <1>3, <2>1 DEF HandsOK
  <2>4. TypeOK'
    BY <1>1, <2>1, <2>2 DEF TypeOK, threadVars, counters, connections, managerVars,
                            allocVars, stopVars
  <2>. QED
    BY <2>3, <2>4
<1>. QED

  BY <1>4, <1>5, <1>6, <1>7, <1>8, <1>9, <1>10 DEF AcceptorStep

(* Where a client is in the lists of the threads.                           *)
LEMMA ListPlaces ==
  ASSUME NEW name, NEW list, NEW c
  PROVE  \A x : x \in InList(name, list, c) <=>
           \E t \in Threads : \E i \in DOMAIN list[t] : x = <<name, t, i>> /\ list[t][i].ns = c
<1>. DEFINE G(t) == {<<name, t, i>> : i \in {j \in DOMAIN list[t] : list[t][j].ns = c}}
<1>1. \A t : \A x : x \in G(t) <=> \E i \in DOMAIN list[t] : x = <<name, t, i>> /\ list[t][i].ns = c
  BY Zenon
<1>. DEFINE U == UNION {G(t) : t \in Threads}
<1>2. InList(name, list, c) = U
  BY DEF InList
<1>. HIDE DEF G
<1>3. \A x : x \in U <=> \E t \in Threads : x \in G(t)
  BY Zenon
<1>. HIDE DEF U
<1>4. ASSUME NEW x
      PROVE  x \in U <=> \E t \in Threads : \E i \in DOMAIN list[t] : x = <<name, t, i>> /\ list[t][i].ns = c
  BY <1>1, <1>3
<1>. QED
  BY <1>2, <1>4

PlacesIn(h, q, p, b, l, d, c) ==
  {<<"hand", a, 0>> : a \in {e \in Acceptors : h[e] = c}}
  \cup {<<"queue", 0, i>> : i \in {j \in DOMAIN q : q[j] = c}}
  \cup InList("pipe", p, c) \cup InList("batch", b, c)
  \cup {<<"served", t, 0>> : t \in {u \in Threads : c \in l[u]}}
  \cup {<<"closed", e, 0>> : e \in d \cap {c}}

IsPlace(h, q, p, b, l, d, c, x) ==
  \/ \E a \in Acceptors : x = <<"hand", a, 0>> /\ h[a] = c
  \/ \E i \in 1..Len(q) : x = <<"queue", 0, i>> /\ q[i] = c
  \/ \E t \in Threads : \E i \in 1..Len(p[t]) : x = <<"pipe", t, i>> /\ p[t][i].ns = c
  \/ \E t \in Threads : \E i \in 1..Len(b[t]) : x = <<"batch", t, i>> /\ b[t][i].ns = c
  \/ \E t \in Threads : x = <<"served", t, 0>> /\ c \in l[t]
  \/ x = <<"closed", c, 0>> /\ c \in d

Items == [ns : Clients, isAddress : BOOLEAN]

(* A place is a position in a list, or a thread.                            *)
LEMMA PlacesLemma ==
  ASSUME NEW h, NEW q \in Seq(Clients), NEW p \in [Threads -> Seq(Items)],
         NEW b \in [Threads -> Seq(Items)], NEW l, NEW d, NEW c
  PROVE  \A x : x \in PlacesIn(h, q, p, b, l, d, c) <=> IsPlace(h, q, p, b, l, d, c, x)
<1>1. /\ DOMAIN q = 1..Len(q)
      /\ \A t \in Threads : DOMAIN p[t] = 1..Len(p[t]) /\ DOMAIN b[t] = 1..Len(b[t])
  OBVIOUS
<1>. DEFINE H == {<<"hand", a, 0>> : a \in {e \in Acceptors : h[e] = c}}
            Q == {<<"queue", 0, i>> : i \in {j \in DOMAIN q : q[j] = c}}
            P == InList("pipe", p, c)
            B == InList("batch", b, c)
            S == {<<"served", t, 0>> : t \in {u \in Threads : c \in l[u]}}
            C == {<<"closed", e, 0>> : e \in d \cap {c}}
<1>2. \A x : x \in H <=> \E a \in Acceptors : x = <<"hand", a, 0>> /\ h[a] = c
  OBVIOUS
<1>3. \A x : x \in Q <=> \E i \in 1..Len(q) : x = <<"queue", 0, i>> /\ q[i] = c
  BY <1>1
<1>4. \A x : x \in P <=> \E t \in Threads : \E i \in 1..Len(p[t]) : x = <<"pipe", t, i>> /\ p[t][i].ns = c
  <2>1. \A x : x \in P <=> \E t \in Threads : \E i \in DOMAIN p[t] : x = <<"pipe", t, i>> /\ p[t][i].ns = c
    BY ListPlaces
  <2>. HIDE DEF P
  <2>. QED
    BY <1>1, <2>1
<1>5. \A x : x \in B <=> \E t \in Threads : \E i \in 1..Len(b[t]) : x = <<"batch", t, i>> /\ b[t][i].ns = c
  <2>1. \A x : x \in B <=> \E t \in Threads : \E i \in DOMAIN b[t] : x = <<"batch", t, i>> /\ b[t][i].ns = c
    BY ListPlaces
  <2>. HIDE DEF B
  <2>. QED
    BY <1>1, <2>1
<1>6. \A x : x \in S <=> \E t \in Threads : x = <<"served", t, 0>> /\ c \in l[t]
  OBVIOUS
<1>7. \A x : x \in C <=> x = <<"closed", c, 0>> /\ c \in d
  OBVIOUS
<1>8. PlacesIn(h, q, p, b, l, d, c) = H \cup Q \cup P \cup B \cup S \cup C
  BY DEF PlacesIn
<1>. HIDE DEF H, Q, P, B, S, C
<1>9. \A x : x \in PlacesIn(h, q, p, b, l, d, c) <=> x \in H \/ x \in Q \/ x \in P \/ x \in B \/ x \in S \/ x \in C
  BY <1>8
<1>. QED
  BY <1>2, <1>3, <1>4, <1>5, <1>6, <1>7, <1>9, Zenon DEF IsPlace

(* OnePlace in terms of the lists and sets.                                 *)
LEMMA OnePlaceLemma ==
  ASSUME TypeOK
  PROVE  /\ OnePlace <=> \A c \in Clients : \A x, y :
              /\ IsPlace(hand, Waiting, pipe, batch, connectList, closed, c, x)
              /\ IsPlace(hand, Waiting, pipe, batch, connectList, closed, c, y)
              => x = y
<1>1. Waiting \in Seq(Clients) /\ pipe \in [Threads -> Seq(Items)] /\ batch \in [Threads -> Seq(Items)]
  BY WaitingType DEF TypeOK, Items
<1>2. \A c \in Clients : Places(c) = PlacesIn(hand, Waiting, pipe, batch, connectList, closed, c)
  BY DEF Places, PlacesIn
<1>3. \A c \in Clients : \A x : x \in Places(c)
        <=> IsPlace(hand, Waiting, pipe, batch, connectList, closed, c, x)
  BY <1>1, <1>2, PlacesLemma
<1>. QED
  BY <1>3, Zenon DEF OnePlace

At(c, x) == IsPlace(hand, Waiting, pipe, batch, connectList, closed, c, x)
Unique == \A c \in Clients : \A x, y : At(c, x) /\ At(c, y) => x = y

(* The same after a step.                                                   *)
LEMMA OnePlaceAfter ==
  ASSUME TypeOK'
  PROVE  OnePlace' <=> Unique'
<1>1. Waiting' \in Seq(Clients) /\ pipe' \in [Threads -> Seq(Items)] /\ batch' \in [Threads -> Seq(Items)]
  BY WaitingType DEF TypeOK, Items
<1>2. \A c \in Clients : Places(c)' = PlacesIn(hand', Waiting', pipe', batch', connectList', closed', c)
  BY DEF Places, PlacesIn, InList
<1>3. \A c \in Clients : \A x : x \in Places(c)'
        <=> IsPlace(hand', Waiting', pipe', batch', connectList', closed', c, x)
  BY <1>1, <1>2, PlacesLemma
<1>4. \A c \in Clients : \A x : At(c, x)'
        <=> IsPlace(hand', Waiting', pipe', batch', connectList', closed', c, x)
  BY DEF At, IsPlace
<1>5. \A c \in Clients : \A x : x \in Places(c)' <=> At(c, x)'
  BY <1>3, <1>4
<1>. QED
  BY <1>5, Zenon DEF OnePlace, Unique

(* A client that one accept thread has written or queued is no longer with  *)
(* that thread.                                                             *)
LEMMA WritePlaces ==
  ASSUME TypeOK, HandsOK, Unique, NEW a \in Acceptors, WriteSocketPair(a)
  PROVE  Unique'
<1>. DEFINE t == target[a]
            k == Len(pipe[t]) + 1
            d == hand[a]
            u == <<"hand", a, 0>>
            v == <<"pipe", t, k>>
<1>1. /\ apc[a] = "write" /\ pipe' = [pipe EXCEPT ![t] = Append(pipe[t], Address(d))]
      /\ hand' = [hand EXCEPT ![a] = NULL]
      /\ UNCHANGED <<Waiting, batch, connectList, closed>>
  BY DEF WriteSocketPair, Step, connections, Waiting, managerVars, allocVars
<1>2. d \in Clients /\ t \in Threads
  BY <1>1 DEF HandsOK, TypeOK
<1>3. hand \in [Acceptors -> Clients \cup {NULL}] /\ pipe \in [Threads -> Seq(Items)]
  BY DEF TypeOK, Items
<1>4. Address(d) \in Items /\ Address(d).ns = d
  BY <1>2 DEF Items, Address
<1>5. /\ hand'[a] = NULL /\ \A b \in Acceptors \ {a} : hand'[b] = hand[b]
      /\ \A s \in Threads \ {t} : pipe'[s] = pipe[s]
      /\ pipe'[t] = Append(pipe[t], Address(d))
  BY <1>1, <1>2, <1>3
<1>6. /\ Len(pipe'[t]) = k /\ k \in Nat /\ \A i \in 1..(k - 1) : pipe'[t][i] = pipe[t][i]
      /\ pipe'[t][k].ns = d /\ Len(pipe[t]) = k - 1
  <2>1. pipe[t] \in Seq(Items)
    BY <1>2, <1>3
  <2>. QED
    BY <1>4, <1>5, <2>1, AppendProperties
<1>. HIDE DEF t, k, d
<1>7. ASSUME NEW c \in Clients, NEW x, At(c, x)'
      PROVE  (At(c, x) /\ x # u) \/ (x = v /\ At(c, u))
  <2>1. c # NULL
    BY Bounds
  <2>2. CASE \E b \in Acceptors : x = <<"hand", b, 0>> /\ hand'[b] = c
    BY <1>5, <2>1, <2>2 DEF At, IsPlace
  <2>3. CASE \E s \in Threads : \E i \in 1..Len(pipe'[s]) : x = <<"pipe", s, i>> /\ pipe'[s][i].ns = c
    <3>0. PICK s \in Threads : \E i \in 1..Len(pipe'[s]) : x = <<"pipe", s, i>> /\ pipe'[s][i].ns = c
      BY <2>3
    <3>1. PICK i \in 1..Len(pipe'[s]) : x = <<"pipe", s, i>> /\ pipe'[s][i].ns = c
      BY <3>0
    <3>2. CASE s = t /\ i = k
      <4>1. c = d
        BY <1>6, <3>1, <3>2
      <4>2. At(c, u)
        BY <4>1 DEF At, IsPlace, d
      <4>. QED
        BY <3>1, <3>2, <4>2
    <3>3. CASE ~(s = t /\ i = k)
      <4>1. i \in 1..Len(pipe[s]) /\ pipe[s][i].ns = c
        <5>1. CASE s # t
          <6>1. pipe'[s] = pipe[s]
            BY <1>5, <5>1
          <6>. QED
            BY <3>1, <6>1
        <5>2. CASE s = t
          <6>1. i \in 1..k /\ i # k /\ pipe'[t][i].ns = c
            BY <1>6, <3>1, <3>3, <5>2
          <6>2. i \in 1..(k - 1)
            BY <1>6, <6>1
          <6>. QED
            BY <1>6, <5>2, <6>1, <6>2
        <5>. QED
          BY <5>1, <5>2
      <4>. QED
        BY <3>1, <4>1 DEF At, IsPlace
    <3>. QED
      BY <3>2, <3>3
  <2>4. CASE /\ ~\E b \in Acceptors : x = <<"hand", b, 0>> /\ hand'[b] = c
             /\ ~\E s \in Threads : \E i \in 1..Len(pipe'[s]) : x = <<"pipe", s, i>> /\ pipe'[s][i].ns = c
    BY <1>1, <1>7, <2>4 DEF At, IsPlace
  <2>. QED
    BY <2>2, <2>3, <2>4
<1>. HIDE DEF u, v
<1>. QED
  BY <1>7 DEF Unique

(* The same for the task queue.                                             *)
LEMMA QueuePlaces ==
  ASSUME TypeOK, HandsOK, Unique, NEW a \in Acceptors, AddTask(a)
  PROVE  Unique'
<1>. DEFINE k == Len(Waiting) + 1
            d == hand[a]
            u == <<"hand", a, 0>>
            v == <<"queue", 0, k>>
<1>0. /\ apc[a] = "queue" /\ taskQueue' = Append(taskQueue, d) /\ popped' = popped
      /\ hand' = [hand EXCEPT ![a] = NULL]
      /\ UNCHANGED <<pipe, batch, connectList, closed>>
  BY DEF AddTask, Step, threadVars, connections, allocVars
<1>2. hand \in [Acceptors -> Clients \cup {NULL}] /\ Waiting \in Seq(Clients) /\ d \in Clients
  BY <1>0, WaitingType DEF TypeOK, HandsOK
<1>1. /\ Waiting' = Append(Waiting, d) /\ hand' = [hand EXCEPT ![a] = NULL]
      /\ UNCHANGED <<pipe, batch, connectList, closed>>
  BY <1>0, <1>2, AddWaiting
<1>3. hand'[a] = NULL /\ \A b \in Acceptors \ {a} : hand'[b] = hand[b]
  BY <1>1, <1>2
<1>4. /\ Len(Waiting') = k /\ k \in Nat /\ \A i \in 1..(k - 1) : Waiting'[i] = Waiting[i]
      /\ Waiting'[k] = d /\ Len(Waiting) = k - 1
  BY <1>1, <1>2, AppendProperties
<1>. HIDE DEF k, d
<1>5. ASSUME NEW c \in Clients, NEW x, At(c, x)'
      PROVE  (At(c, x) /\ x # u) \/ (x = v /\ At(c, u))
  <2>1. c # NULL
    BY Bounds
  <2>2. CASE \E b \in Acceptors : x = <<"hand", b, 0>> /\ hand'[b] = c
    BY <1>3, <2>1, <2>2 DEF At, IsPlace
  <2>3. CASE \E i \in 1..Len(Waiting') : x = <<"queue", 0, i>> /\ Waiting'[i] = c
    <3>1. PICK i \in 1..Len(Waiting') : x = <<"queue", 0, i>> /\ Waiting'[i] = c
      BY <2>3
    <3>2. CASE i = k
      <4>1. c = d
        BY <1>4, <3>1, <3>2
      <4>2. At(c, u)
        BY <4>1 DEF At, IsPlace, d
      <4>. QED
        BY <3>1, <3>2, <4>2
    <3>3. CASE i # k
      <4>1. i \in 1..Len(Waiting) /\ Waiting[i] = c
        BY <1>4, <3>1, <3>3
      <4>. QED
        BY <3>1, <4>1 DEF At, IsPlace
    <3>. QED
      BY <3>2, <3>3
  <2>4. CASE /\ ~\E b \in Acceptors : x = <<"hand", b, 0>> /\ hand'[b] = c
             /\ ~\E i \in 1..Len(Waiting') : x = <<"queue", 0, i>> /\ Waiting'[i] = c
    BY <1>1, <1>5, <2>4 DEF At, IsPlace
  <2>. QED
    BY <2>2, <2>3, <2>4
<1>. HIDE DEF u, v
<1>. QED
  BY <1>5 DEF Unique

(* alloc_task writes the one it has popped to one thread: the others move   *)
(* up.                                                                      *)
LEMMA HandOverPlaces ==
  ASSUME TypeOK, PoppedOK, Unique, HandOver
  PROVE  Unique'
<1>. DEFINE t == fill
            k == Len(pipe[t]) + 1
            d == Head(Waiting)
            v == <<"pipe", t, k>>
            From(x, y) == \/ x = y /\ y[1] # "queue"
                          \/ \E i \in Nat : i >= 1 /\ x = <<"queue", 0, i>> /\ y = <<"queue", 0, i + 1>>
                          \/ x = v /\ y = <<"queue", 0, 1>>
<1>1. /\ Waiting # <<>> /\ Waiting' = Tail(Waiting)
      /\ pipe' = [pipe EXCEPT ![t] = Append(pipe[t], Content(d))]
      /\ UNCHANGED <<hand, batch, connectList, closed>>
  BY HandWaiting DEF HandOver, acceptVars, connections
<1>2. pipe \in [Threads -> Seq(Items)] /\ Waiting \in Seq(Clients) /\ t \in Threads
  BY WaitingType DEF TypeOK, Items
<1>3. /\ d = Waiting[1] /\ d \in Clients /\ 1 \in 1..Len(Waiting)
      /\ Len(Waiting') \in Nat
      /\ \A i \in 1..Len(Waiting') : Waiting'[i] = Waiting[i + 1] /\ i + 1 \in 1..Len(Waiting)
  BY <1>1, <1>2, HeadTailProperties
<1>4. Content(d) \in Items /\ Content(d).ns = d
  BY <1>3 DEF Items, Content
<1>5. /\ \A s \in Threads \ {t} : pipe'[s] = pipe[s]
      /\ pipe'[t] = Append(pipe[t], Content(d))
  BY <1>1, <1>2
<1>6. /\ Len(pipe'[t]) = k /\ k \in Nat /\ \A i \in 1..(k - 1) : pipe'[t][i] = pipe[t][i]
      /\ pipe'[t][k].ns = d /\ Len(pipe[t]) = k - 1
  <2>1. pipe[t] \in Seq(Items)
    BY <1>2
  <2>. QED
    BY <1>4, <1>5, <2>1, AppendProperties
<1>. HIDE DEF t, k, d
<1>7. ASSUME NEW c \in Clients, NEW x, At(c, x)'
      PROVE  \E y : At(c, y) /\ From(x, y)
  <2>1. CASE \E i \in 1..Len(Waiting') : x = <<"queue", 0, i>> /\ Waiting'[i] = c
    <3>1. PICK i \in 1..Len(Waiting') : x = <<"queue", 0, i>> /\ Waiting'[i] = c
      BY <2>1
    <3>2. i \in Nat /\ i >= 1 /\ i + 1 \in 1..Len(Waiting) /\ Waiting[i + 1] = c
      BY <1>3, <3>1
    <3>3. At(c, <<"queue", 0, i + 1>>)
      BY <3>2 DEF At, IsPlace
    <3>. QED
      BY <3>1, <3>2, <3>3
  <2>2. CASE \E s \in Threads : \E i \in 1..Len(pipe'[s]) : x = <<"pipe", s, i>> /\ pipe'[s][i].ns = c
    <3>1. PICK s \in Threads : \E i \in 1..Len(pipe'[s]) : x = <<"pipe", s, i>> /\ pipe'[s][i].ns = c
      BY <2>2
    <3>2. PICK i \in 1..Len(pipe'[s]) : x = <<"pipe", s, i>> /\ pipe'[s][i].ns = c
      BY <3>1
    <3>3. CASE s = t /\ i = k
      <4>1. Waiting[1] = c
        BY <1>3, <1>6, <3>2, <3>3
      <4>2. At(c, <<"queue", 0, 1>>)
        BY <1>3, <4>1 DEF At, IsPlace
      <4>. QED
        BY <3>2, <3>3, <4>2
    <3>4. CASE ~(s = t /\ i = k)
      <4>1. i \in 1..Len(pipe[s]) /\ pipe[s][i].ns = c
        BY <1>5, <1>6, <3>2, <3>4
      <4>2. At(c, x)
        BY <3>2, <4>1 DEF At, IsPlace
      <4>. QED
        BY <3>2, <4>2
    <3>. QED
      BY <3>3, <3>4
  <2>3. CASE /\ ~\E s \in Threads : \E i \in 1..Len(pipe'[s]) : x = <<"pipe", s, i>> /\ pipe'[s][i].ns = c
             /\ ~\E i \in 1..Len(Waiting') : x = <<"queue", 0, i>> /\ Waiting'[i] = c
    <3>1. At(c, x) /\ x[1] # "queue"
      BY <1>1, <1>7, <2>3 DEF At, IsPlace
    <3>. QED
      BY <3>1
  <2>. QED
    BY <2>1, <2>2, <2>3
<1>8. \A x, y, z : From(x, z) /\ From(y, z) => x = y
  OBVIOUS
<1>. HIDE DEF From, v
<1>. QED
  BY <1>7, <1>8 DEF Unique

(* What a thread has read is in its batch and no longer in its socket pair. *)
LEMMA ReadPlaces ==
  ASSUME TypeOK, BatchOK, Unique, NEW t \in Threads, ReadClientSocket(t)
  PROVE  Unique'
<1>. DEFINE From(x, y) == \/ x = y /\ (x[1] \in {"pipe", "batch"} => x[2] # t)
                          \/ \E i \in Nat : x = <<"batch", t, i>> /\ y = <<"pipe", t, i>>
<1>1. /\ tpc[t] = "loop" /\ batch' = [batch EXCEPT ![t] = pipe[t]] /\ pipe' = [pipe EXCEPT ![t] = <<>>]
      /\ UNCHANGED <<hand, Waiting, connectList, closed>>
  BY DEF ReadClientSocket, GoTo, acceptVars, connections, Waiting, managerVars, allocVars
<1>2. pipe \in [Threads -> Seq(Items)] /\ batch \in [Threads -> Seq(Items)]
  BY DEF TypeOK, Items
<1>3. /\ batch'[t] = pipe[t] /\ pipe'[t] = <<>>
      /\ \A s \in Threads \ {t} : batch'[s] = batch[s] /\ pipe'[s] = pipe[s]
  BY <1>1, <1>2
<1>4. ASSUME NEW c \in Clients, NEW x, At(c, x)'
      PROVE  \E y : At(c, y) /\ From(x, y)
  <2>1. CASE \E s \in Threads : \E i \in 1..Len(batch'[s]) : x = <<"batch", s, i>> /\ batch'[s][i].ns = c
    <3>1. PICK s \in Threads : \E i \in 1..Len(batch'[s]) : x = <<"batch", s, i>> /\ batch'[s][i].ns = c
      BY <2>1
    <3>2. PICK i \in 1..Len(batch'[s]) : x = <<"batch", s, i>> /\ batch'[s][i].ns = c
      BY <3>1
    <3>3. CASE s = t
      <4>1. i \in 1..Len(pipe[t]) /\ i \in Nat /\ pipe[t][i].ns = c
        BY <1>2, <1>3, <3>2, <3>3
      <4>2. At(c, <<"pipe", t, i>>)
        BY <4>1 DEF At, IsPlace
      <4>. QED
        BY <3>2, <3>3, <4>1, <4>2
    <3>4. CASE s # t
      <4>1. At(c, x)
        BY <1>3, <3>2, <3>4 DEF At, IsPlace
      <4>. QED
        BY <3>2, <3>4, <4>1
    <3>. QED
      BY <3>3, <3>4
  <2>2. CASE \E s \in Threads : \E i \in 1..Len(pipe'[s]) : x = <<"pipe", s, i>> /\ pipe'[s][i].ns = c
    <3>1. PICK s \in Threads : \E i \in 1..Len(pipe'[s]) : x = <<"pipe", s, i>> /\ pipe'[s][i].ns = c
      BY <2>2
    <3>2. PICK i \in 1..Len(pipe'[s]) : x = <<"pipe", s, i>> /\ pipe'[s][i].ns = c
      BY <3>1
    <3>3. s # t
      <4>1. 1..Len(<<>>) = {}
        OBVIOUS
      <4>. QED
        BY <1>3, <3>2, <4>1
    <3>4. At(c, x)
      BY <1>3, <3>2, <3>3 DEF At, IsPlace
    <3>. QED
      BY <3>2, <3>3, <3>4
  <2>3. CASE /\ ~\E s \in Threads : \E i \in 1..Len(pipe'[s]) : x = <<"pipe", s, i>> /\ pipe'[s][i].ns = c
             /\ ~\E s \in Threads : \E i \in 1..Len(batch'[s]) : x = <<"batch", s, i>> /\ batch'[s][i].ns = c
    <3>1. At(c, x) /\ x[1] \notin {"pipe", "batch"}
      BY <1>1, <1>4, <2>3 DEF At, IsPlace
    <3>. QED
      BY <3>1
  <2>. QED
    BY <2>1, <2>2, <2>3
<1>5. \A x, y, z : From(x, z) /\ From(y, z) => x = y
  OBVIOUS
<1>. HIDE DEF From
<1>. QED
  BY <1>4, <1>5 DEF Unique

(* A client that a thread takes over leaves the batch for the connections,  *)
(* where it was not before.                                                 *)
LEMMA DoingPlaces ==
  ASSUME TypeOK, BatchOK, Unique, NEW t \in Threads, DoingConnection(t),
         NEW d, d = Head(batch[t]).ns
  PROVE  Unique' /\ d \in Clients /\ d \notin connectList[t]
<1>. DEFINE v == <<"served", t, 0>>
            From(x, y) == \/ x = y /\ (x[1] = "batch" => x[2] # t)
                          \/ \E i \in Nat : i >= 1 /\ x = <<"batch", t, i>> /\ y = <<"batch", t, i + 1>>
                          \/ x = v /\ y = <<"batch", t, 1>>
<1>1. /\ tpc[t] = "doing" /\ batch' = [batch EXCEPT ![t] = Tail(batch[t])]
      /\ connectList' = [connectList EXCEPT ![t] = connectList[t] \cup {d}]
      /\ UNCHANGED <<hand, Waiting, pipe, closed>>
  BY DEF DoingConnection, GoTo, acceptVars, Waiting, managerVars, allocVars
<1>2. /\ batch \in [Threads -> Seq(Items)] /\ connectList \in [Threads -> SUBSET Clients]
      /\ batch[t] # <<>>
  BY <1>1 DEF TypeOK, Items, BatchOK
<1>3. /\ batch'[t] = Tail(batch[t]) /\ connectList'[t] = connectList[t] \cup {d}
      /\ \A s \in Threads \ {t} : batch'[s] = batch[s] /\ connectList'[s] = connectList[s]
  BY <1>1, <1>2
<1>4. /\ d = batch[t][1].ns /\ d \in Clients /\ 1 \in 1..Len(batch[t])
      /\ Len(batch'[t]) \in Nat
      /\ \A i \in 1..Len(batch'[t]) : batch'[t][i] = batch[t][i + 1] /\ i + 1 \in 1..Len(batch[t])
  <2>1. batch[t] \in Seq(Items)
    BY <1>2
  <2>2. /\ Head(batch[t]) = batch[t][1] /\ Head(batch[t]) \in Items /\ 1 \in 1..Len(batch[t])
        /\ Len(Tail(batch[t])) \in Nat
        /\ \A i \in 1..Len(Tail(batch[t])) : Tail(batch[t])[i] = batch[t][i + 1] /\ i + 1 \in 1..Len(batch[t])
    BY <1>2, <2>1, HeadTailProperties
  <2>. QED
    BY <1>3, <2>2 DEF Items
<1>5. At(d, <<"batch", t, 1>>)
  BY <1>4 DEF At, IsPlace
<1>6. d \notin connectList[t]
  <2>1. SUFFICES ASSUME d \in connectList[t] PROVE FALSE
    OBVIOUS
  <2>2. At(d, v)
    BY <2>1 DEF At, IsPlace
  <2>. QED
    BY <1>4, <1>5, <2>2 DEF Unique
<1>7. ASSUME NEW c \in Clients, NEW x, At(c, x)'
      PROVE  \E y : At(c, y) /\ From(x, y)
  <2>1. CASE \E s \in Threads : \E i \in 1..Len(batch'[s]) : x = <<"batch", s, i>> /\ batch'[s][i].ns = c
    <3>1. PICK s \in Threads : \E i \in 1..Len(batch'[s]) : x = <<"batch", s, i>> /\ batch'[s][i].ns = c
      BY <2>1
    <3>2. PICK i \in 1..Len(batch'[s]) : x = <<"batch", s, i>> /\ batch'[s][i].ns = c
      BY <3>1
    <3>3. CASE s = t
      <4>1. i \in Nat /\ i >= 1 /\ i + 1 \in 1..Len(batch[t]) /\ batch[t][i + 1].ns = c
        BY <1>4, <3>2, <3>3
      <4>2. At(c, <<"batch", t, i + 1>>)
        BY <4>1 DEF At, IsPlace
      <4>. QED
        BY <3>2, <3>3, <4>1, <4>2
    <3>4. CASE s # t
      <4>1. At(c, x)
        BY <1>3, <3>2, <3>4 DEF At, IsPlace
      <4>. QED
        BY <3>2, <3>4, <4>1
    <3>. QED
      BY <3>3, <3>4
  <2>2. CASE \E s \in Threads : x = <<"served", s, 0>> /\ c \in connectList'[s]
    <3>1. PICK s \in Threads : x = <<"served", s, 0>> /\ c \in connectList'[s]
      BY <2>2
    <3>2. CASE s = t /\ c = d
      BY <1>5, <3>1, <3>2
    <3>3. CASE ~(s = t /\ c = d)
      <4>1. c \in connectList[s]
        BY <1>3, <3>1, <3>3
      <4>2. At(c, x)
        BY <3>1, <4>1 DEF At, IsPlace
      <4>. QED
        BY <3>1, <4>2
    <3>. QED
      BY <3>2, <3>3
  <2>3. CASE /\ ~\E s \in Threads : \E i \in 1..Len(batch'[s]) : x = <<"batch", s, i>> /\ batch'[s][i].ns = c
             /\ ~\E s \in Threads : x = <<"served", s, 0>> /\ c \in connectList'[s]
    <3>1. At(c, x) /\ x[1] # "batch"
      BY <1>1, <1>7, <2>3 DEF At, IsPlace
    <3>. QED
      BY <3>1
  <2>. QED
    BY <2>1, <2>2, <2>3
<1>8. \A x, y, z : From(x, z) /\ From(y, z) => x = y
  OBVIOUS
<1>. HIDE DEF From, v
<1>9. Unique'
  BY <1>7, <1>8 DEF Unique
<1>. QED
  BY <1>4, <1>6, <1>9

(* A connection that is finished is closed and no longer served.            *)
LEMMA FinishedPlaces ==
  ASSUME TypeOK, Unique, NEW t \in Threads, NEW d \in connectList[t],
         connectList' = [connectList EXCEPT ![t] = @ \ {d}], closed' = closed \cup {d},
         UNCHANGED <<hand, Waiting, pipe, batch>>
  PROVE  Unique'
<1>. DEFINE u == <<"served", t, 0>>
            v == <<"closed", d, 0>>
<1>1. connectList \in [Threads -> SUBSET Clients] /\ d \in Clients
  BY DEF TypeOK
<1>2. /\ connectList'[t] = connectList[t] \ {d}
      /\ \A s \in Threads \ {t} : connectList'[s] = connectList[s]
  BY <1>1
<1>3. ASSUME NEW c \in Clients, NEW x, At(c, x)'
      PROVE  \/ At(c, x) /\ (c = d => x # u)
             \/ c = d /\ x = v /\ At(c, u)
  <2>1. CASE \E s \in Threads : x = <<"served", s, 0>> /\ c \in connectList'[s]
    BY <1>2, <2>1 DEF At, IsPlace
  <2>2. CASE x = <<"closed", c, 0>> /\ c \in closed'
    BY <2>2 DEF At, IsPlace
  <2>3. CASE /\ ~\E s \in Threads : x = <<"served", s, 0>> /\ c \in connectList'[s]
             /\ ~(x = <<"closed", c, 0>> /\ c \in closed')
    BY <1>3, <2>3 DEF At, IsPlace
  <2>. QED
    BY <2>1, <2>2, <2>3
<1>. HIDE DEF u, v
<1>. QED
  BY <1>3 DEF Unique

(* A client that arrives was nowhere.                                       *)
LEMMA AcceptPlaces ==
  ASSUME TypeOK, HandsOK, Unique, NEW a \in Acceptors, NEW d \in Clients \ Seen,
         apc[a] = "accept", hand' = [hand EXCEPT ![a] = d],
         UNCHANGED <<Waiting, pipe, batch, connectList, closed>>
  PROVE  Unique'
<1>1. hand \in [Acceptors -> Clients \cup {NULL}] /\ hand[a] = NULL /\ d # NULL
  BY Bounds DEF TypeOK, HandsOK
<1>2. hand'[a] = d /\ \A b \in Acceptors \ {a} : hand'[b] = hand[b]
  BY <1>1
<1>3. \A x : ~At(d, x)
  <2>1. d \notin Held /\ d \notin Queued /\ d \notin InPipe /\ d \notin InBatch
        /\ d \notin Served /\ d \notin closed
    BY DEF Seen
  <2>2. \A b \in Acceptors : hand[b] # d
    BY <1>1, <2>1 DEF Held
  <2>3. \A i \in 1..Len(Waiting) : Waiting[i] # d
    <3>1. DOMAIN Waiting = 1..Len(Waiting)
      BY WaitingType
    <3>. QED
      BY <2>1, <3>1 DEF Queued, Range
  <2>4. \A t \in Threads : \A i \in 1..Len(pipe[t]) : pipe[t][i].ns # d
    <3>1. \A t \in Threads : DOMAIN pipe[t] = 1..Len(pipe[t])
      BY DEF TypeOK
    <3>2. ASSUME NEW t \in Threads, NEW i \in 1..Len(pipe[t]) PROVE pipe[t][i].ns \in InPipe
      <4>1. pipe[t][i] \in Range(pipe[t])
        BY <3>1 DEF Range
      <4>. QED
        BY <4>1 DEF InPipe
    <3>. QED
      BY <2>1, <3>2
  <2>5. \A t \in Threads : \A i \in 1..Len(batch[t]) : batch[t][i].ns # d
    <3>1. \A t \in Threads : DOMAIN batch[t] = 1..Len(batch[t])
      BY DEF TypeOK
    <3>2. ASSUME NEW t \in Threads, NEW i \in 1..Len(batch[t]) PROVE batch[t][i].ns \in InBatch
      <4>1. batch[t][i] \in Range(batch[t])
        BY <3>1 DEF Range
      <4>. QED
        BY <4>1 DEF InBatch
    <3>. QED
      BY <2>1, <3>2
  <2>6. \A t \in Threads : d \notin connectList[t]
    BY <2>1 DEF Served
  <2>. QED
    BY <2>1, <2>2, <2>3, <2>4, <2>5, <2>6 DEF At, IsPlace
<1>4. ASSUME NEW c \in Clients, NEW x, At(c, x)'
      PROVE  At(c, x) \/ (c = d /\ x = <<"hand", a, 0>>)
  <2>1. CASE \E b \in Acceptors : x = <<"hand", b, 0>> /\ hand'[b] = c
    BY <1>2, <2>1 DEF At, IsPlace
  <2>2. CASE ~\E b \in Acceptors : x = <<"hand", b, 0>> /\ hand'[b] = c
    BY <1>4, <2>2 DEF At, IsPlace
  <2>. QED
    BY <2>1, <2>2
<1>. QED
  BY <1>3, <1>4 DEF Unique

(* No thread has more connections than there are clients.                   *)
LEMMA CountLemma ==
  ASSUME NEW S \in SUBSET Clients
  PROVE  /\ IsFiniteSet(S) /\ Count(S) \in Nat /\ Count(S) <= Cardinality(Clients) /\ Count(S) < Word
         /\ \A d \in Clients : d \notin S => Count(S \cup {d}) = Count(S) + 1
         /\ \A d \in S : Count(S \ {d}) = Count(S) - 1
<1>1. /\ IsFiniteSet(S) /\ Cardinality(S) <= Cardinality(Clients)
  BY Bounds, FS_Subset
<1>2. Cardinality(S) \in Nat
  BY <1>1, FS_CardinalityType
<1>3. /\ \A d : d \notin S => Cardinality(S \cup {d}) = Cardinality(S) + 1
      /\ \A d \in S : Cardinality(S \ {d}) = Cardinality(S) - 1
  BY <1>1, FS_AddElement, FS_RemoveElement
<1>. QED
  BY <1>1, <1>2, <1>3, Bounds DEF Count

(* Counting up and down stays in the word.                                  *)
LEMMA WordType == \A n \in 0..(Word - 1) : Inc(n) \in 0..(Word - 1) /\ Dec(n) \in 0..(Word - 1)
<1>1. SUFFICES ASSUME NEW n \in 0..(Word - 1) PROVE Inc(n) \in 0..(Word - 1) /\ Dec(n) \in 0..(Word - 1)
  OBVIOUS
<1>2. n + 1 \in Int /\ n + Word - 1 \in Int
  BY Bounds
<1>. QED
  BY <1>2, ModLemma DEF Inc, Dec

\* What belongs to one client thread.
Own(u) == <<tpc[u], pipe[u], batch[u], wait[u], doing[u], fail[u], connectList[u], timers[u],
            closing[u]>>

(* A client thread leaves the accept threads and the other client threads   *)
(* alone.                                                                   *)
LEMMA ThreadFrame ==
  ASSUME TypeOK, NEW t \in Threads, ThreadStep(t) \/ ConnectionEvent(t)
  PROVE  UNCHANGED <<acceptVars, taskQueue, popped>> /\ \A u \in Threads \ {t} : Own(u)' = Own(u)
<1>1. /\ DOMAIN tpc = Threads /\ DOMAIN pipe = Threads /\ DOMAIN batch = Threads
      /\ DOMAIN wait = Threads /\ DOMAIN doing = Threads /\ DOMAIN fail = Threads
      /\ DOMAIN connectList = Threads /\ DOMAIN timers = Threads /\ DOMAIN closing = Threads
  BY DEF TypeOK
<1>. USE DEF managerVars, allocVars, GoTo, Own, threadVars, counters, connections
<1>2. CASE ReadClientSocket(t)
  BY <1>1, <1>2 DEF ReadClientSocket
<1>3. CASE StartTask(t) \/ FollowContent(t) \/ TakeUp(t)
  BY <1>1, <1>3 DEF StartTask, FollowContent, TakeUp
<1>4. CASE DoingConnection(t) \/ RecvConnection(t)
  BY <1>1, <1>4 DEF DoingConnection, RecvConnection
<1>5. CASE FinishedConnection(t) \/ DoneConnection(t)
  BY <1>1, <1>5 DEF FinishedConnection, DoneConnection
<1>6. CASE RemoveConnection(t) \/ SignalFinished(t)
  BY <1>1, <1>6 DEF RemoveConnection, SignalFinished
<1>7. CASE ServerFailed(t) \/ DoingFailConnection(t)
  BY <1>1, <1>7 DEF ServerFailed, DoingFailConnection
<1>8. CASE RetryFailed(t) \/ RetryFailConnection(t) \/ FollowFreed(t)
  BY <1>1, <1>8 DEF RetryFailed, RetryFailConnection, FollowFreed
<1>. QED
  BY <1>2, <1>3, <1>4, <1>5, <1>6, <1>7, <1>8 DEF ThreadStep, ConnectionEvent

(* A client thread keeps the types.                                         *)
LEMMA ThreadType ==
  ASSUME TypeOK, BatchOK, ClosingOK, NEW t \in Threads, ThreadStep(t) \/ ConnectionEvent(t)
  PROVE  TypeOK'
<1>1. /\ tpc \in [Threads -> {"loop", "start", "attach", "doing", "recv", "done", "remove",
                            "signal", "fail", "retry", "freed"}]
      /\ pipe \in [Threads -> Seq(Items)] /\ batch \in [Threads -> Seq(Items)]
      /\ wait \in [Threads -> 0..(Word - 1)] /\ doing \in [Threads -> 0..(Word - 1)]
      /\ fail \in [Threads -> 0..(Word - 1)]
      /\ connectList \in [Threads -> SUBSET Clients] /\ timers \in [Threads -> SUBSET Clients]
      /\ closing \in [Threads -> Clients \cup {NULL}]
      /\ failed \in SUBSET Clients /\ closed \in SUBSET Clients
      /\ waitSum \in 0..(Word - 1) /\ handingSum \in 0..(Word - 1) /\ globalSum \in 0..(Word - 1)
  BY DEF TypeOK, Items
<1>2. \A from, to : GoTo(t, from, to) => tpc[t] = from /\ tpc' = [tpc EXCEPT ![t] = to]
  BY DEF GoTo
<1>. USE DEF acceptVars, managerVars, allocVars, stopVars, recordVars, counters, connections
<1>3. CASE ReadClientSocket(t)
  <2>1. pipe' \in [Threads -> Seq(Items)] /\ batch' \in [Threads -> Seq(Items)]
    <3>1. pipe[t] \in Seq(Items) /\ <<>> \in Seq(Items)
      BY <1>1
    <3>. QED
      BY <1>1, <1>3, <3>1 DEF ReadClientSocket
  <2>2. tpc' = [tpc EXCEPT ![t] = "start"]
    BY <1>2, <1>3 DEF ReadClientSocket
  <2>. QED
    BY <1>1, <1>3, <2>1, <2>2 DEF ReadClientSocket, TypeOK, Items
<1>4. CASE StartTask(t)
  <2>1. waitSum' \in 0..(Word - 1) /\ handingSum' \in 0..(Word - 1)
    BY <1>1, <1>4, WordType DEF StartTask
  <2>2. tpc' = [tpc EXCEPT ![t] = "attach"]
    BY <1>2, <1>4 DEF StartTask
  <2>. QED
    BY <1>1, <1>4, <2>1, <2>2 DEF StartTask, TypeOK
<1>5. CASE FollowContent(t)
  BY <1>5 DEF FollowContent, TypeOK, threadVars
<1>6. CASE TakeUp(t)
  <2>1. wait' \in [Threads -> 0..(Word - 1)]
    <3>1. Dec(wait[t]) \in 0..(Word - 1)
      BY <1>1, WordType
    <3>. QED
      BY <1>1, <1>6, <3>1 DEF TakeUp
  <2>2. tpc' = [tpc EXCEPT ![t] = "doing"]
    BY <1>2, <1>6 DEF TakeUp
  <2>. QED
    BY <1>1, <1>6, <2>1, <2>2 DEF TakeUp, TypeOK
<1>7. CASE DoingConnection(t)
  <2>1. tpc[t] = "doing" /\ tpc' = [tpc EXCEPT ![t] = "recv"]
    BY <1>2, <1>7 DEF DoingConnection
  <2>2. batch[t] # <<>> /\ batch[t] \in Seq(Items)
    BY <1>1, <2>1 DEF BatchOK
  <2>3. Tail(batch[t]) \in Seq(Items) /\ Head(batch[t]) \in Items
    BY <2>2, HeadTailProperties
  <2>4. Head(batch[t]).ns \in Clients
    BY <2>3 DEF Items
  <2>5. batch' \in [Threads -> Seq(Items)]
    BY <1>1, <1>7, <2>3 DEF DoingConnection
  <2>6. connectList' \in [Threads -> SUBSET Clients]
    BY <1>1, <1>7, <2>4 DEF DoingConnection
  <2>7. doing' \in [Threads -> 0..(Word - 1)]
    <3>1. Inc(doing[t]) \in 0..(Word - 1)
      BY <1>1, WordType
    <3>. QED
      BY <1>1, <1>7, <3>1 DEF DoingConnection
  <2>. QED
    BY <1>1, <1>7, <2>1, <2>5, <2>6, <2>7 DEF DoingConnection, TypeOK, Items
<1>8. CASE RecvConnection(t)
  <2>1. wait' \in [Threads -> 0..(Word - 1)]
    <3>1. Inc(wait[t]) \in 0..(Word - 1)
      BY <1>1, WordType
    <3>. QED
      BY <1>1, <1>8, <3>1 DEF RecvConnection
  <2>2. tpc' = [tpc EXCEPT ![t] = IF batch[t] = <<>> THEN "loop" ELSE "start"]
    BY <1>2, <1>8 DEF RecvConnection
  <2>. QED
    BY <1>1, <1>8, <2>1, <2>2 DEF RecvConnection, TypeOK
<1>9. CASE FinishedConnection(t)
  <2>1. PICK c \in connectList[t] : closing' = [closing EXCEPT ![t] = c]
    BY <1>9 DEF FinishedConnection
  <2>2. closing' \in [Threads -> Clients \cup {NULL}]
    BY <1>1, <2>1
  <2>3. handingSum' \in 0..(Word - 1)
    BY <1>1, <1>9, WordType DEF FinishedConnection
  <2>4. tpc' = [tpc EXCEPT ![t] = "done"]
    BY <1>2, <1>9 DEF FinishedConnection
  <2>. QED
    BY <1>1, <1>9, <2>2, <2>3, <2>4 DEF FinishedConnection, TypeOK
<1>10. CASE DoneConnection(t)
  <2>1. doing' \in [Threads -> 0..(Word - 1)]
    <3>1. Dec(doing[t]) \in 0..(Word - 1)
      BY <1>1, WordType
    <3>. QED
      BY <1>1, <1>10, <3>1 DEF DoneConnection
  <2>2. tpc' = [tpc EXCEPT ![t] = "remove"]
    BY <1>2, <1>10 DEF DoneConnection
  <2>. QED
    BY <1>1, <1>10, <2>1, <2>2 DEF DoneConnection, TypeOK
<1>11. CASE RemoveConnection(t)
  <2>1. tpc[t] = "remove" /\ tpc' = [tpc EXCEPT ![t] = "signal"]
    BY <1>2, <1>11 DEF RemoveConnection
  <2>2. closing[t] \in Clients
    BY <1>1, <2>1 DEF ClosingOK
  <2>3. /\ connectList' \in [Threads -> SUBSET Clients] /\ closing' \in [Threads -> Clients \cup {NULL}]
        /\ failed' \in SUBSET Clients /\ closed' \in SUBSET Clients
    BY <1>1, <1>11, <2>2 DEF RemoveConnection
  <2>. QED
    BY <1>1, <1>11, <2>1, <2>3 DEF RemoveConnection, TypeOK
<1>12. CASE SignalFinished(t)
  <2>1. tpc' = [tpc EXCEPT ![t] = "loop"]
    BY <1>2, <1>12 DEF SignalFinished
  <2>. QED
    BY <1>1, <1>12, <2>1 DEF SignalFinished, Signalled, TypeOK
<1>13. CASE ServerFailed(t)
  <2>1. PICK c \in connectList[t] \ failed :
          failed' = failed \cup {c} /\ timers' = [timers EXCEPT ![t] = timers[t] \cup {c}]
    BY <1>13 DEF ServerFailed
  <2>2. failed' \in SUBSET Clients /\ timers' \in [Threads -> SUBSET Clients]
    BY <1>1, <2>1
  <2>3. doing' \in [Threads -> 0..(Word - 1)]
    <3>1. Dec(doing[t]) \in 0..(Word - 1)
      BY <1>1, WordType
    <3>. QED
      BY <1>1, <1>13, <3>1 DEF ServerFailed
  <2>4. tpc' = [tpc EXCEPT ![t] = "fail"]
    BY <1>2, <1>13 DEF ServerFailed
  <2>. QED
    BY <1>1, <1>13, <2>2, <2>3, <2>4 DEF ServerFailed, TypeOK
<1>14. CASE DoingFailConnection(t)
  <2>1. fail' \in [Threads -> 0..(Word - 1)]
    <3>1. Inc(fail[t]) \in 0..(Word - 1)
      BY <1>1, WordType
    <3>. QED
      BY <1>1, <1>14, <3>1 DEF DoingFailConnection
  <2>2. tpc' = [tpc EXCEPT ![t] = "loop"]
    BY <1>2, <1>14 DEF DoingFailConnection
  <2>. QED
    BY <1>1, <1>14, <2>1, <2>2 DEF DoingFailConnection, TypeOK
<1>15. CASE RetryFailed(t)
  <2>1. PICK c \in timers[t] : /\ GoTo(t, "loop", IF c \in connectList[t] THEN "retry" ELSE "freed")
                               /\ timers' = [timers EXCEPT ![t] = timers[t] \ {c}]
    BY <1>15 DEF RetryFailed
  <2>2. timers' \in [Threads -> SUBSET Clients]
    BY <1>1, <2>1
  <2>3. fail' \in [Threads -> 0..(Word - 1)]
    <3>1. Dec(fail[t]) \in 0..(Word - 1)
      BY <1>1, WordType
    <3>. QED
      BY <1>1, <1>15, <3>1 DEF RetryFailed
  <2>4. tpc' \in [Threads -> {"loop", "start", "attach", "doing", "recv", "done", "remove",
                            "signal", "fail", "retry", "freed"}]
    <3>1. tpc' \in {[tpc EXCEPT ![t] = "retry"], [tpc EXCEPT ![t] = "freed"]}
      BY <1>2, <2>1
    <3>. QED
      BY <1>1, <3>1
  <2>5. UNCHANGED <<acceptVars, taskQueue, pipe, batch, wait, doing, connectList, failed, closing,
                    managerVars, recordVars, closed, wild>>
    BY <1>15 DEF RetryFailed
  <2>. QED
    BY <2>2, <2>3, <2>4, <2>5 DEF TypeOK
<1>16. CASE RetryFailConnection(t) \/ FollowFreed(t)
  <2>1. doing' \in [Threads -> 0..(Word - 1)]
    <3>1. Inc(doing[t]) \in 0..(Word - 1)
      BY <1>1, WordType
    <3>. QED
      BY <1>1, <1>16, <3>1 DEF RetryFailConnection, FollowFreed
  <2>2. tpc' \in [Threads -> {"loop", "start", "attach", "doing", "recv", "done", "remove",
                            "signal", "fail", "retry", "freed"}]
    <3>1. tpc' = [tpc EXCEPT ![t] = "loop"]
      BY <1>2, <1>16 DEF RetryFailConnection, FollowFreed
    <3>. QED
      BY <1>1, <3>1
  <2>3. wild' \in BOOLEAN
    BY <1>16 DEF RetryFailConnection, FollowFreed, TypeOK
  <2>4. UNCHANGED <<acceptVars, taskQueue, pipe, batch, wait, fail, connectList, failed, timers,
                    closing, managerVars, recordVars, closed>>
    BY <1>16 DEF RetryFailConnection, FollowFreed
  <2>. QED
    BY <2>1, <2>2, <2>3, <2>4 DEF TypeOK
<1>. QED
  BY <1>3, <1>4, <1>5, <1>6, <1>7, <1>8, <1>9, <1>10, <1>11, <1>12, <1>13, <1>14, <1>15, <1>16
  DEF ThreadStep, ConnectionEvent

(* What a client thread has read is gone through in order, and what it ends *)
(* or retries is its own.                                                   *)
LEMMA ThreadLists ==
  ASSUME TypeOK, BatchOK, ClosingOK, TimersOK, NEW t \in Threads,
         ThreadStep(t) \/ ConnectionEvent(t)
  PROVE  BatchOK' /\ ClosingOK' /\ TimersOK'
<1>1. /\ DOMAIN tpc = Threads /\ DOMAIN batch = Threads /\ DOMAIN pipe = Threads
      /\ DOMAIN connectList = Threads /\ DOMAIN timers = Threads /\ DOMAIN closing = Threads
  BY DEF TypeOK
<1>2. \A u \in Threads \ {t} : /\ tpc'[u] = tpc[u] /\ batch'[u] = batch[u] /\ timers'[u] = timers[u]
                               /\ closing'[u] = closing[u] /\ connectList'[u] = connectList[u]
  BY ThreadFrame DEF Own
<1>3. failed \cup closed \subseteq failed' \cup closed'
  BY DEF ThreadStep, ConnectionEvent, ReadClientSocket, StartTask, FollowContent, TakeUp,
         DoingConnection, RecvConnection, FinishedConnection, DoneConnection, RemoveConnection,
         SignalFinished, ServerFailed, DoingFailConnection, RetryFailed, RetryFailConnection,
         FollowFreed, threadVars, connections
<1>. DEFINE BatchAt == /\ tpc'[t] \in {"start", "attach", "doing"} => batch'[t] # <<>>
                       /\ tpc'[t] \in {"loop", "done", "remove", "signal", "fail", "retry", "freed"}
                            => batch'[t] = <<>>
            ClosingAt == tpc'[t] \in {"done", "remove"} => closing'[t] \in connectList'[t]
            TimersAt == timers'[t] \subseteq failed' \cup closed'
<1>4. SUFFICES BatchAt /\ ClosingAt /\ TimersAt
  <2>1. ASSUME BatchAt, ClosingAt, TimersAt PROVE BatchOK' /\ ClosingOK' /\ TimersOK'
    <3>1. BatchOK'
      BY <1>2, <2>1 DEF BatchOK
    <3>2. ClosingOK'
      BY <1>2, <2>1 DEF ClosingOK
    <3>3. TimersOK'
      BY <1>2, <1>3, <2>1 DEF TimersOK
    <3>. QED
      BY <3>1, <3>2, <3>3
  <2>. QED
    BY <2>1
<1>5. /\ tpc[t] \in {"start", "attach", "doing"} => batch[t] # <<>>
      /\ tpc[t] \in {"loop", "done", "remove", "signal", "fail", "retry", "freed"} => batch[t] = <<>>
      /\ tpc[t] \in {"done", "remove"} => closing[t] \in connectList[t]
      /\ timers[t] \subseteq failed \cup closed
  BY DEF BatchOK, ClosingOK, TimersOK
<1>6. \A from, to : GoTo(t, from, to) => tpc[t] = from /\ tpc'[t] = to
  BY <1>1 DEF GoTo
<1>. USE DEF connections
<1>7. CASE ReadClientSocket(t)
  BY <1>1, <1>3, <1>5, <1>6, <1>7 DEF ReadClientSocket
<1>8. CASE StartTask(t) \/ TakeUp(t)
  BY <1>3, <1>5, <1>6, <1>8 DEF StartTask, TakeUp
<1>9. CASE FollowContent(t)
  BY <1>3, <1>5, <1>9 DEF FollowContent, threadVars
<1>10. CASE DoingConnection(t)
  BY <1>3, <1>5, <1>6, <1>10 DEF DoingConnection
<1>11. CASE RecvConnection(t)
  <2>1. tpc'[t] = IF batch[t] = <<>> THEN "loop" ELSE "start"
    BY <1>6, <1>11 DEF RecvConnection
  <2>. QED
    BY <1>3, <1>5, <1>11, <2>1 DEF RecvConnection
<1>12. CASE FinishedConnection(t)
  BY <1>1, <1>3, <1>5, <1>6, <1>12 DEF FinishedConnection
<1>13. CASE DoneConnection(t) \/ SignalFinished(t)
  BY <1>3, <1>5, <1>6, <1>13 DEF DoneConnection, SignalFinished
<1>14. CASE RemoveConnection(t)
  BY <1>3, <1>5, <1>6, <1>14 DEF RemoveConnection
<1>15. CASE ServerFailed(t)
  <2>1. PICK c : failed' = failed \cup {c} /\ timers' = [timers EXCEPT ![t] = timers[t] \cup {c}]
    BY <1>15 DEF ServerFailed
  <2>2. timers'[t] = timers[t] \cup {c}
    BY <1>1, <2>1
  <2>3. tpc[t] = "loop" /\ tpc'[t] = "fail" /\ batch' = batch
    BY <1>6, <1>15 DEF ServerFailed
  <2>. QED
    BY <1>3, <1>5, <2>1, <2>2, <2>3
<1>16. CASE RetryFailed(t)
  <2>1. PICK c : /\ GoTo(t, "loop", IF c \in connectList[t] THEN "retry" ELSE "freed")
                 /\ timers' = [timers EXCEPT ![t] = timers[t] \ {c}]
    BY <1>16 DEF RetryFailed
  <2>2. timers'[t] = timers[t] \ {c}
    BY <1>1, <2>1
  <2>3. tpc[t] = "loop" /\ tpc'[t] \in {"retry", "freed"} /\ batch' = batch
    BY <1>6, <1>16, <2>1 DEF RetryFailed
  <2>. QED
    BY <1>3, <1>5, <2>2, <2>3
<1>17. CASE DoingFailConnection(t) \/ RetryFailConnection(t) \/ FollowFreed(t)
  BY <1>3, <1>5, <1>6, <1>17 DEF DoingFailConnection, RetryFailConnection, FollowFreed
<1>. QED
  BY <1>7, <1>8, <1>9, <1>10, <1>11, <1>12, <1>13, <1>14, <1>15, <1>16, <1>17
  DEF ThreadStep, ConnectionEvent

(* The first counter goes below zero and back.                              *)
LEMMA WordEnds == Dec(0) = Word - 1 /\ Inc(Word - 1) = 0
<1>1. Word \in Nat /\ Word >= 1
  BY Bounds
<1>2. \A w \in Nat : w >= 1 => (w - 1) % w = w - 1 /\ w % w = 0
  OBVIOUS
<1>3. 0 + Word - 1 = Word - 1 /\ Word - 1 + 1 = Word
  BY <1>1
<1>. QED
  BY <1>1, <1>2, <1>3 DEF Dec, Inc

(* The counters of a client thread keep standing for its connections and    *)
(* its timers.                                                              *)
LEMMA ThreadCounts ==
  ASSUME TypeOK, BatchOK, ClosingOK, TimersOK, Unique, CountersOK, NEW t \in Threads,
         ThreadStep(t) \/ ConnectionEvent(t)
  PROVE  CountersOK'
<1>. DEFINE L == connectList[t]
            A == timers[t]
            l == Count(L)
            m == Count(A)
            Lag(pc) == IF pc \in {"remove", "retry", "freed"} THEN 1 ELSE 0
            Short(pc) == IF pc = "fail" THEN 1 ELSE 0
            CountsAt == Counts(wait'[t], doing'[t], fail'[t], connectList'[t], timers'[t], tpc'[t])
<1>1. /\ DOMAIN tpc = Threads /\ DOMAIN wait = Threads /\ DOMAIN doing = Threads
      /\ DOMAIN fail = Threads /\ DOMAIN connectList = Threads /\ DOMAIN timers = Threads
      /\ L \in SUBSET Clients /\ A \in SUBSET Clients
  BY DEF TypeOK
<1>2. SUFFICES CountsAt
  <2>1. \A u \in Threads \ {t} :
          /\ wait'[u] = wait[u] /\ doing'[u] = doing[u] /\ fail'[u] = fail[u] /\ tpc'[u] = tpc[u]
          /\ connectList'[u] = connectList[u] /\ timers'[u] = timers[u]
    BY ThreadFrame DEF Own
  <2>2. ASSUME CountsAt PROVE CountersOK'
    <3>1. \A u \in Threads :
            Counts(wait'[u], doing'[u], fail'[u], connectList'[u], timers'[u], tpc'[u])
      BY <2>1, <2>2 DEF CountersOK
    <3>. QED
      BY <3>1 DEF CountersOK, Counts, Count
  <2>. QED
    BY <2>2
<1>3. /\ wait[t] = IF tpc[t] \in {"doing", "recv"} THEN Word - 1 ELSE 0
      /\ doing[t] = (l - m - Lag(tpc[t])) % Word
      /\ fail[t] = m - Short(tpc[t])
  BY DEF CountersOK, Counts
<1>4. /\ l \in Nat /\ l < Word /\ m \in Nat /\ m < Word
      /\ \A d \in Clients : d \notin L => Count(L \cup {d}) = l + 1
      /\ \A d \in L : Count(L \ {d}) = l - 1
      /\ \A d \in Clients : d \notin A => Count(A \cup {d}) = m + 1
      /\ \A d \in A : Count(A \ {d}) = m - 1
  BY <1>1, CountLemma
<1>. HIDE DEF L, A, l, m
<1>5. \A from, to : GoTo(t, from, to) => tpc[t] = from /\ tpc'[t] = to
  BY <1>1 DEF GoTo
<1>6. \A x \in Int : Inc(x % Word) = (x + 1) % Word /\ Dec(x % Word) = (x - 1) % Word
  BY ModLemma
<1>7. /\ l - m - 0 \in Int /\ l - m - 1 \in Int
      /\ (l - m - 0) - 1 = l - m - 1 /\ (l - m - 0) - 1 = l - (m + 1) - 0
      /\ (l - m - 0) + 1 = (l + 1) - m - 0 /\ (l - m - 1) + 1 = l - m - 0
      /\ l - m - 1 = (l - 1) - m - 0 /\ l - m - 0 = l - (m - 1) - 1
      /\ m = (m + 1) - 1 /\ m - 0 = m /\ (m - 1) - 0 = m - 1
  BY <1>4
<1>8. Inc(m - 1) = m /\ (m >= 1 => Dec(m) = m - 1)
  <2>1. m - 1 + 1 = m /\ m % Word = m
    BY <1>4, SmallMod
  <2>2. ASSUME m >= 1 PROVE Dec(m) = m - 1
    <3>1. m - 1 \in Nat /\ m - 1 < Word
      BY <1>4, <2>2, Bounds
    <3>2. (m - 1) % Word = m - 1 /\ m \in Int
      BY <1>4, <3>1, SmallMod
    <3>. QED
      BY <1>6, <2>1, <3>2
  <2>. QED
    BY <2>1, <2>2 DEF Inc
<1>. DEFINE CountsHere == /\ wait'[t] = IF tpc'[t] \in {"doing", "recv"} THEN Word - 1 ELSE 0
                          /\ doing'[t] = (Count(connectList'[t]) - Count(timers'[t]) - Lag(tpc'[t])) % Word
                          /\ fail'[t] = Count(timers'[t]) - Short(tpc'[t])
<1>9. SUFFICES CountsHere
  BY DEF Counts
<1>11. CASE ReadClientSocket(t)
  <2>1. tpc[t] = "loop" /\ tpc'[t] = "start" /\ UNCHANGED <<counters, connections>>
    BY <1>5, <1>11 DEF ReadClientSocket
  <2>. QED
    BY <1>3, <2>1 DEF counters, connections, l, m, L, A
<1>12. CASE StartTask(t)
  <2>1. tpc[t] = "start" /\ tpc'[t] = "attach" /\ UNCHANGED <<counters, connections>>
    BY <1>5, <1>12 DEF StartTask
  <2>. QED
    BY <1>3, <2>1 DEF counters, connections, l, m, L, A
<1>13. CASE FollowContent(t)
  <2>1. UNCHANGED <<tpc, counters, connections>>
    BY <1>13 DEF FollowContent, threadVars
  <2>. QED
    BY <1>3, <2>1 DEF counters, connections, l, m, L, A
<1>14. CASE TakeUp(t)
  <2>1. tpc[t] = "attach" /\ tpc'[t] = "doing" /\ wait'[t] = Dec(wait[t])
        /\ UNCHANGED <<doing, fail, connections>>
    BY <1>1, <1>5, <1>14 DEF TakeUp
  <2>. QED
    BY <1>3, <2>1, WordEnds DEF connections, l, m, L, A
<1>15. CASE DoingConnection(t)
  <2>. DEFINE d == Head(batch[t]).ns
  <2>1. /\ tpc[t] = "doing" /\ tpc'[t] = "recv" /\ doing'[t] = Inc(doing[t])
        /\ connectList'[t] = L \cup {d} /\ UNCHANGED <<wait, fail, timers>>
    BY <1>1, <1>5, <1>15 DEF DoingConnection, L
  <2>2. d \in Clients /\ d \notin L
    BY <1>15, DoingPlaces DEF L
  <2>. HIDE DEF d
  <2>3. Count(connectList'[t]) = l + 1 /\ Count(timers'[t]) = m
    BY <1>4, <2>1, <2>2 DEF m, A
  <2>4. doing[t] = (l - m - 0) % Word
    BY <1>3, <2>1
  <2>5. doing'[t] = ((l + 1) - m - 0) % Word
    BY <1>6, <1>7, <2>1, <2>4
  <2>. QED
    BY <1>3, <2>1, <2>3, <2>5
<1>16. CASE RecvConnection(t)
  <2>1. tpc[t] = "recv" /\ tpc'[t] \in {"loop", "start"} /\ wait'[t] = Inc(wait[t])
        /\ UNCHANGED <<doing, fail, connections>>
    BY <1>1, <1>5, <1>16 DEF RecvConnection
  <2>. QED
    BY <1>3, <2>1, WordEnds DEF connections, l, m, L, A
<1>17. CASE FinishedConnection(t)
  <2>1. tpc[t] = "loop" /\ tpc'[t] = "done" /\ UNCHANGED <<counters, connectList, timers>>
    BY <1>5, <1>17 DEF FinishedConnection
  <2>. QED
    BY <1>3, <2>1 DEF counters, l, m, L, A
<1>18. CASE DoneConnection(t)
  <2>1. tpc[t] = "done" /\ tpc'[t] = "remove" /\ doing'[t] = Dec(doing[t])
        /\ UNCHANGED <<wait, fail, connections>>
    BY <1>1, <1>5, <1>18 DEF DoneConnection
  <2>2. doing'[t] = (l - m - 1) % Word
    BY <1>3, <1>6, <1>7, <2>1
  <2>. QED
    BY <1>3, <2>1, <2>2 DEF connections, l, m, L, A
<1>19. CASE RemoveConnection(t)
  <2>1. /\ tpc[t] = "remove" /\ tpc'[t] = "signal" /\ connectList'[t] = L \ {closing[t]}
        /\ UNCHANGED <<counters, timers>>
    BY <1>1, <1>5, <1>19 DEF RemoveConnection, L
  <2>2. closing[t] \in L
    BY <2>1 DEF ClosingOK, L
  <2>3. Count(connectList'[t]) = l - 1 /\ Count(timers'[t]) = m
    BY <1>4, <2>1, <2>2 DEF m, A
  <2>4. doing'[t] = ((l - 1) - m - 0) % Word
    BY <1>3, <1>7, <2>1 DEF counters
  <2>. QED
    BY <1>3, <2>1, <2>3, <2>4 DEF counters
<1>20. CASE SignalFinished(t)
  <2>1. tpc[t] = "signal" /\ tpc'[t] = "loop" /\ UNCHANGED <<counters, connections>>
    BY <1>5, <1>20 DEF SignalFinished
  <2>. QED
    BY <1>3, <2>1 DEF counters, connections, l, m, L, A
<1>21. CASE ServerFailed(t)
  <2>1. PICK c \in L \ failed : timers' = [timers EXCEPT ![t] = A \cup {c}]
    BY <1>21 DEF ServerFailed, L, A
  <2>2. /\ tpc[t] = "loop" /\ tpc'[t] = "fail" /\ doing'[t] = Dec(doing[t])
        /\ timers'[t] = A \cup {c} /\ UNCHANGED <<wait, fail, connectList>>
    BY <1>1, <1>5, <1>21, <2>1 DEF ServerFailed
  <2>3. c \in Clients
    BY <1>1
  <2>4. c \notin closed
    <3>1. SUFFICES ASSUME c \in closed PROVE FALSE
      OBVIOUS
    <3>2. At(c, <<"served", t, 0>>) /\ At(c, <<"closed", c, 0>>)
      BY <2>1, <3>1 DEF At, IsPlace, L
    <3>3. <<"served", t, 0>> = <<"closed", c, 0>>
      BY <2>3, <3>2 DEF Unique
    <3>. QED
      BY <3>3
  <2>5. c \notin A
    BY <2>1, <2>4 DEF TimersOK, A
  <2>6. Count(timers'[t]) = m + 1 /\ Count(connectList'[t]) = l
    BY <1>4, <2>2, <2>3, <2>5 DEF l, L
  <2>7. doing'[t] = (l - (m + 1) - 0) % Word
    BY <1>3, <1>6, <1>7, <2>2
  <2>8. fail'[t] = (m + 1) - 1
    BY <1>3, <1>7, <2>2
  <2>. QED
    BY <1>3, <2>2, <2>6, <2>7, <2>8
<1>22. CASE DoingFailConnection(t)
  <2>1. tpc[t] = "fail" /\ tpc'[t] = "loop" /\ fail'[t] = Inc(fail[t])
        /\ UNCHANGED <<wait, doing, connections>>
    BY <1>1, <1>5, <1>22 DEF DoingFailConnection
  <2>2. fail'[t] = m - 0
    BY <1>3, <1>7, <1>8, <2>1
  <2>. QED
    BY <1>3, <2>1, <2>2 DEF connections, l, m, L, A
<1>23. CASE RetryFailed(t)
  <2>1. PICK c \in A : /\ GoTo(t, "loop", IF c \in L THEN "retry" ELSE "freed")
                       /\ timers' = [timers EXCEPT ![t] = A \ {c}]
    BY <1>23 DEF RetryFailed, L, A
  <2>2. /\ tpc[t] = "loop" /\ tpc'[t] \in {"retry", "freed"} /\ fail'[t] = Dec(fail[t])
        /\ timers'[t] = A \ {c} /\ UNCHANGED <<wait, doing, connectList>>
    BY <1>1, <1>5, <1>23, <2>1 DEF RetryFailed
  <2>3. Count(timers'[t]) = m - 1 /\ Count(connectList'[t]) = l
    BY <1>4, <2>1, <2>2 DEF l, L
  <2>4. m >= 1
    <3>1. A \ {c} \in SUBSET Clients
      BY <1>1
    <3>2. m - 1 \in Nat
      BY <2>2, <2>3, <3>1, CountLemma
    <3>. QED
      BY <1>4, <3>2
  <2>5. fail'[t] = (m - 1) - 0
    BY <1>3, <1>7, <1>8, <2>2, <2>4
  <2>6. doing'[t] = (l - (m - 1) - 1) % Word
    BY <1>3, <1>7, <2>2
  <2>. QED
    BY <1>3, <2>2, <2>3, <2>5, <2>6
<1>24. CASE RetryFailConnection(t) \/ FollowFreed(t)
  <2>1. tpc[t] \in {"retry", "freed"} /\ tpc'[t] = "loop" /\ doing'[t] = Inc(doing[t])
        /\ UNCHANGED <<wait, fail, connections>>
    BY <1>1, <1>5, <1>24 DEF RetryFailConnection, FollowFreed
  <2>2. doing'[t] = (l - m - 0) % Word
    BY <1>3, <1>6, <1>7, <2>1
  <2>. QED
    BY <1>3, <2>1, <2>2 DEF connections, l, m, L, A
<1>. QED
  BY <1>11, <1>12, <1>13, <1>14, <1>15, <1>16, <1>17, <1>18, <1>19, <1>20, <1>21, <1>22, <1>23,
     <1>24 DEF ThreadStep, ConnectionEvent

(* The manager keeps the types: it moves clients and counts them out.       *)
LEMMA ManagerTypes ==
  ASSUME TypeOK, PoppedOK, ManagerStep \/ SpuriousWake \/ HandleSignal \/ SignalStop
  PROVE  /\ TypeOK' /\ (HandsOK => HandsOK')
         /\ UNCHANGED <<hand, tpc, batch, counters, connections, closed>>
<1>. DEFINE Labels == {"while", "test", "park", "waiting", "woken", "alloc", "pop", "hand", "out",
                       "join", "done"}
            Goal == /\ TypeOK' /\ (HandsOK => HandsOK')
                    /\ UNCHANGED <<hand, tpc, batch, counters, connections, closed>>
<1>1. /\ apc \in [Acceptors -> {"accept", "size", "choose", "write", "queue", "global",
                            "record", "joined"}]
      /\ mpc \in Labels /\ loop \in {"fill", "spill"}
      /\ fill \in Threads /\ popped \in Seq(Clients) /\ globalSum \in 0..(Word - 1)
      /\ pipe \in [Threads -> Seq(Items)] /\ taskQueue \in Seq(Clients)
      /\ stop \in BOOLEAN /\ stoped \in BOOLEAN /\ signalling \in BOOLEAN
  BY DEF TypeOK, Items
<1>2. ASSUME mpc' \in Labels, loop' \in {"fill", "spill"}, fill' \in Threads, popped' = popped,
             stop' \in BOOLEAN, stoped' \in BOOLEAN, signalling' \in BOOLEAN, ManagerOnly
      PROVE  Goal
  <2>1. UNCHANGED <<acceptVars, taskQueue, threadVars, recordVars, closed, wild, popped>>
    BY <1>2 DEF ManagerOnly
  <2>2. TypeOK'
    BY <1>2, <2>1 DEF TypeOK, acceptVars, threadVars, counters, connections, recordVars
  <2>. QED
    BY <2>1, <2>2 DEF HandsOK, acceptVars, threadVars
<1>3. ASSUME TestStop \/ Park \/ SpuriousWake \/ StopAccept \/ AllocTaskReturns PROVE Goal
  <2>1. ManagerOnly /\ mpc' \in Labels /\ UNCHANGED <<allocVars, stop, signalling>> /\ stoped' \in BOOLEAN
    BY <1>1, <1>3 DEF TestStop, Park, SpuriousWake, StopAccept, AllocTaskReturns, Manager, stopVars
  <2>. QED
    BY <1>1, <1>2, <2>1 DEF allocVars
<1>4. ASSUME TestWork PROVE Goal
  <2>1. ManagerOnly /\ mpc' \in Labels /\ loop' = "fill" /\ fill' = 1 /\ UNCHANGED <<popped, stopVars>>
    BY <1>4 DEF TestWork, Manager
  <2>. QED
    BY <1>1, <1>2, <2>1, Bounds DEF stopVars
<1>5. ASSUME FillThread PROVE Goal
  <2>1. ManagerOnly /\ mpc' = "pop" /\ UNCHANGED <<allocVars, stopVars>>
    BY <1>5 DEF FillThread, Manager
  <2>. QED
    BY <1>1, <1>2, <2>1 DEF allocVars, stopVars
<1>6. ASSUME NextThread PROVE Goal
  <2>1. /\ \/ fill < NThreads /\ fill' = fill + 1 /\ loop' = loop
           \/ loop' = "spill" /\ fill' = fill
        /\ mpc' = "alloc" /\ UNCHANGED <<popped, stopVars>> /\ ManagerOnly
    BY <1>6 DEF NextThread, Manager
  <2>2. fill' \in Threads /\ loop' \in {"fill", "spill"}
    <3>1. fill < NThreads => fill + 1 \in Threads
      BY <1>1, Bounds DEF Threads
    <3>. QED
      BY <1>1, <2>1, <3>1
  <2>. QED
    BY <1>1, <1>2, <2>1, <2>2 DEF stopVars
<1>7. ASSUME Spill PROVE Goal
  <2>1. PICK t \in Threads \cup {NULL} : t = MinTaskThread
    BY MinTaskType
  <2>2. t # NULL /\ fill' = t /\ mpc' = "pop" /\ UNCHANGED <<loop, popped, stopVars>> /\ ManagerOnly
    BY <1>7, <2>1 DEF Spill, Manager
  <2>. QED
    BY <1>1, <1>2, <2>1, <2>2 DEF stopVars
<1>8. ASSUME HandleSignal \/ SignalStop PROVE Goal
  <2>1. ManagerOnly /\ mpc' \in Labels /\ UNCHANGED <<allocVars, stoped>> /\ stop' \in BOOLEAN
        /\ signalling' \in BOOLEAN
    BY <1>1, <1>8 DEF HandleSignal, SignalStop, Signalled
  <2>. QED
    BY <1>1, <1>2, <2>1 DEF allocVars
<1>9. ASSUME PopTask PROVE Goal
  <2>1. /\ mpc = "pop" /\ mpc' = "hand" /\ popped' = <<Head(taskQueue)>> /\ taskQueue' = Tail(taskQueue)
        /\ UNCHANGED <<acceptVars, threadVars, loop, fill, stopVars, recordVars, closed, wild>>
    BY <1>9 DEF PopTask, Manager
  <2>2. taskQueue # <<>>
    BY <2>1 DEF PoppedOK
  <2>3. Head(taskQueue) \in Clients /\ Tail(taskQueue) \in Seq(Clients)
    BY <1>1, <2>2, HeadTailProperties
  <2>4. popped' \in Seq(Clients)
    BY <2>1, <2>3
  <2>5. TypeOK'
    BY <2>1, <2>3, <2>4 DEF TypeOK, acceptVars, threadVars, counters, connections, stopVars, recordVars
  <2>. QED
    BY <2>1, <2>5 DEF HandsOK, acceptVars, threadVars
<1>10. ASSUME HandOver PROVE Goal
  <2>1. PICK d \in Clients : d = Head(popped)
    BY <1>10, HandWaiting
  <2>2. /\ mpc' = "out" /\ pipe' = [pipe EXCEPT ![fill] = Append(pipe[fill], Content(d))] /\ popped' = <<>>
        /\ UNCHANGED <<acceptVars, taskQueue, tpc, batch, counters, connections, loop, fill,
                 stopVars, recordVars, closed, wild>>
    BY <1>10, <2>1 DEF HandOver, Manager
  <2>3. pipe' \in [Threads -> Seq(Items)]
    <3>1. Content(d) \in Items /\ pipe[fill] \in Seq(Items)
      BY <1>1 DEF Content, Items
    <3>2. Append(pipe[fill], Content(d)) \in Seq(Items)
      BY <3>1, AppendProperties
    <3>. QED
      BY <1>1, <2>2, <3>2
  <2>4. popped' \in Seq(Clients)
    <3>1. <<>> \in Seq(Clients)
      OBVIOUS
    <3>. QED
      BY <2>2, <3>1
  <2>5. TypeOK'
    BY <2>2, <2>3, <2>4 DEF TypeOK, Items, acceptVars, counters, connections, stopVars, recordVars
  <2>. QED
    BY <2>2, <2>5 DEF HandsOK, acceptVars
<1>11. ASSUME RecordOutGlobalQueue PROVE Goal
  <2>1. /\ mpc' = "alloc" /\ globalSum' = Dec(globalSum)
        /\ UNCHANGED <<acceptVars, taskQueue, threadVars, allocVars, stopVars, waitSum,
                 handingSum, closed, wild>>
    BY <1>11 DEF RecordOutGlobalQueue, Manager
  <2>2. globalSum' \in 0..(Word - 1)
    BY <1>1, <2>1, WordType
  <2>3. TypeOK'
    BY <2>1, <2>2 DEF TypeOK, acceptVars, threadVars, counters, connections, allocVars, stopVars
  <2>. QED
    BY <2>1, <2>3 DEF HandsOK, acceptVars, threadVars
<1>12. ASSUME JoinAcceptors PROVE Goal
  <2>1. /\ \A a \in Acceptors : apc[a] = "accept"
        /\ apc' = [a \in Acceptors |-> "joined"] /\ mpc' = "done"
        /\ UNCHANGED <<hand, target, taskQueue, threadVars, allocVars, stopVars,
                 recordVars, closed, wild>>
    BY <1>12 DEF JoinAcceptors, Manager
  <2>2. HandsOK => HandsOK'
    BY <2>1 DEF HandsOK
  <2>3. TypeOK'
    BY <1>1, <2>1 DEF TypeOK, threadVars, counters, connections, allocVars, stopVars, recordVars
  <2>. QED
    BY <2>1, <2>2, <2>3 DEF threadVars
<1>. QED
  BY <1>3, <1>4, <1>5, <1>6, <1>7, <1>8, <1>9, <1>10, <1>11, <1>12 DEF ManagerStep

(* What the manager has popped, it writes before it does anything else.     *)
LEMMA PoppedStep ==
  ASSUME TypeOK, HandsOK, PoppedOK, [Next]_vars
  PROVE  PoppedOK'
<1>1. ASSUME NEW q, q # <<>> \/ q = taskQueue, taskQueue' = q, popped' = popped,
             mpc' \in {mpc, Signalled}
      PROVE  PoppedOK'
  <2>1. Signalled = mpc \/ (Signalled = "woken" /\ mpc = "waiting")
    BY DEF Signalled
  <2>2. mpc' = mpc \/ (mpc' = "woken" /\ mpc = "waiting")
    BY <1>1, <2>1
  <2>. QED
    BY <1>1, <2>2 DEF PoppedOK
<1>2. ASSUME NEW a \in Acceptors, Accept(a) \/ AcceptorStep(a) PROVE PoppedOK'
  <2>1. CASE AddTask(a)
    <3>1. /\ apc[a] = "queue" /\ taskQueue' = Append(taskQueue, hand[a]) /\ mpc' = Signalled
          /\ popped' = popped
      BY <2>1 DEF AddTask, Step, allocVars
    <3>2. hand[a] \in Clients /\ taskQueue \in Seq(Clients)
      BY <3>1 DEF HandsOK, TypeOK
    <3>3. Append(taskQueue, hand[a]) # <<>>
      BY <3>2, AppendProperties, EmptySeq
    <3>. QED
      BY <1>1, <3>1, <3>3
  <2>2. CASE Accept(a) \/ TestSize(a) \/ ChooseThread(a) \/ WriteSocketPair(a)
             \/ RecordGlobalQueue(a) \/ RecordAccept(a)
    <3>1. UNCHANGED <<taskQueue, popped, mpc>>
      BY <2>2 DEF Accept, TestSize, ChooseThread, WriteSocketPair, RecordGlobalQueue, RecordAccept,
                  managerVars, allocVars
    <3>. QED
      BY <1>1, <3>1
  <2>. QED
    BY <1>2, <2>1, <2>2 DEF AcceptorStep
<1>3. ASSUME NEW t \in Threads, ThreadStep(t) \/ ConnectionEvent(t) PROVE PoppedOK'
  <2>1. UNCHANGED <<taskQueue, popped>>
    BY <1>3, ThreadFrame
  <2>2. mpc' \in {mpc, Signalled}
    BY <1>3 DEF ThreadStep, ConnectionEvent, ReadClientSocket, StartTask, FollowContent, TakeUp,
         DoingConnection, RecvConnection, FinishedConnection, DoneConnection, RemoveConnection,
         SignalFinished, ServerFailed, DoingFailConnection, RetryFailed, RetryFailConnection,
         FollowFreed, managerVars
  <2>. QED
    BY <1>1, <2>1, <2>2
<1>4. ASSUME ManagerStep \/ SpuriousWake \/ HandleSignal \/ SignalStop PROVE PoppedOK'
  <2>1. CASE TestStop \/ TestWork \/ Park \/ StopAccept \/ SpuriousWake \/ NextThread
             \/ AllocTaskReturns
    <3>1. popped' = popped /\ mpc' \notin {"hand", "pop"} /\ mpc # "hand"
      BY <2>1 DEF TestStop, TestWork, Park, StopAccept, SpuriousWake, NextThread, AllocTaskReturns,
                  Manager, allocVars
    <3>. QED
      BY <3>1 DEF PoppedOK
  <2>2. CASE HandleSignal \/ SignalStop
    <3>1. UNCHANGED <<taskQueue, popped>> /\ mpc' \in {mpc, Signalled}
      BY <2>2 DEF HandleSignal, SignalStop, ManagerOnly, allocVars
    <3>. QED
      BY <1>1, <3>1
  <2>3. CASE FillThread \/ Spill
    <3>1. mpc = "alloc" /\ mpc' = "pop" /\ popped' = popped /\ taskQueue # <<>> /\ taskQueue' = taskQueue
      BY <2>3 DEF FillThread, Spill, Manager, ManagerOnly, allocVars
    <3>. QED
      BY <3>1 DEF PoppedOK
  <2>4. CASE PopTask
    <3>1. mpc = "pop" /\ mpc' = "hand" /\ popped' = <<Head(taskQueue)>>
      BY <2>4 DEF PopTask, Manager
    <3>2. Head(taskQueue) \in Clients
      <4>1. taskQueue # <<>> /\ taskQueue \in Seq(Clients)
        BY <3>1 DEF PoppedOK, TypeOK
      <4>. QED
        BY <4>1, HeadTailProperties
    <3>. QED
      BY <3>1, <3>2 DEF PoppedOK
  <2>5. CASE HandOver
    <3>1. mpc' = "out" /\ popped' = <<>>
      BY <2>5 DEF HandOver, Manager
    <3>. QED
      BY <3>1 DEF PoppedOK
  <2>6. CASE RecordOutGlobalQueue \/ JoinAcceptors
    <3>1. mpc' \in {"alloc", "done"} /\ mpc \in {"out", "join"} /\ popped' = popped
      BY <2>6 DEF RecordOutGlobalQueue, JoinAcceptors, Manager, allocVars
    <3>. QED
      BY <3>1 DEF PoppedOK
  <2>. QED
    BY <1>4, <2>1, <2>2, <2>3, <2>4, <2>5, <2>6 DEF ManagerStep
<1>5. ASSUME UNCHANGED vars PROVE PoppedOK'
  <2>1. UNCHANGED <<taskQueue, popped, mpc>>
    BY <1>5 DEF vars, managerVars, allocVars
  <2>. QED
    BY <1>1, <2>1
<1>. QED
  BY <1>2, <1>3, <1>4, <1>5 DEF Next

(* No step puts a client in a second place.                                 *)
LEMMA UniqueStep ==
  ASSUME TypeOK, HandsOK, PoppedOK, BatchOK, ClosingOK, Unique, [Next]_vars
  PROVE  Unique'
<1>1. ASSUME UNCHANGED <<hand, Waiting, pipe, batch, connectList, closed>> PROVE Unique'
  BY <1>1 DEF Unique, At
<1>2. ASSUME NEW a \in Acceptors, Accept(a) \/ AcceptorStep(a) PROVE Unique'
  <2>. USE DEF threadVars, connections, managerVars, allocVars
  <2>1. CASE Accept(a)
    <3>1. PICK d \in Clients \ Seen : hand' = [hand EXCEPT ![a] = d]
      BY <2>1 DEF Accept
    <3>2. apc[a] = "accept" /\ UNCHANGED <<Waiting, pipe, batch, connectList, closed>>
      BY <2>1 DEF Accept, Step, Waiting
    <3>. QED
      BY <3>1, <3>2, AcceptPlaces
  <2>2. CASE WriteSocketPair(a)
    BY <2>2, WritePlaces
  <2>3. CASE AddTask(a)
    BY <2>3, QueuePlaces
  <2>4. CASE TestSize(a) \/ ChooseThread(a) \/ RecordGlobalQueue(a) \/ RecordAccept(a)
    <3>1. UNCHANGED <<hand, Waiting, pipe, batch, connectList, closed>>
      BY <2>4 DEF TestSize, ChooseThread, RecordGlobalQueue, RecordAccept, Waiting
    <3>. QED
      BY <1>1, <3>1
  <2>. QED
    BY <1>2, <2>1, <2>2, <2>3, <2>4 DEF AcceptorStep
<1>3. ASSUME NEW t \in Threads, ThreadStep(t) \/ ConnectionEvent(t) PROVE Unique'
  <2>0. hand' = hand /\ Waiting' = Waiting
    BY <1>3, ThreadFrame DEF acceptVars, Waiting
  <2>1. CASE ReadClientSocket(t)
    BY <2>1, ReadPlaces
  <2>2. CASE DoingConnection(t)
    BY <2>2, DoingPlaces
  <2>3. CASE RemoveConnection(t)
    <3>1. PICK d : d = closing[t]
      OBVIOUS
    <3>2. /\ tpc[t] = "remove" /\ connectList' = [connectList EXCEPT ![t] = @ \ {d}]
          /\ closed' = closed \cup {d} /\ UNCHANGED <<pipe, batch>>
      BY <2>3, <3>1 DEF RemoveConnection, GoTo
    <3>3. d \in connectList[t]
      BY <3>1, <3>2 DEF ClosingOK
    <3>. QED
      BY <2>0, <3>2, <3>3, FinishedPlaces
  <2>4. CASE ~(ReadClientSocket(t) \/ DoingConnection(t) \/ RemoveConnection(t))
    <3>1. UNCHANGED <<pipe, batch, connectList, closed>>
      BY <1>3, <2>4 DEF ThreadStep, ConnectionEvent, StartTask, FollowContent, TakeUp,
         RecvConnection, FinishedConnection, DoneConnection, SignalFinished, ServerFailed,
         DoingFailConnection, RetryFailed, RetryFailConnection, FollowFreed, threadVars, connections
    <3>. QED
      BY <1>1, <2>0, <3>1
  <2>. QED
    BY <2>1, <2>2, <2>3, <2>4
<1>4. ASSUME ManagerStep \/ SpuriousWake \/ HandleSignal \/ SignalStop PROVE Unique'
  <2>1. UNCHANGED <<hand, batch, connectList, closed>>
    BY <1>4, ManagerTypes DEF connections
  <2>2. CASE HandOver
    BY <2>2, HandOverPlaces
  <2>3. CASE PopTask
    <3>1. Waiting' = Waiting /\ pipe' = pipe
      BY <2>3, PopWaiting DEF PopTask, threadVars
    <3>. QED
      BY <1>1, <2>1, <3>1
  <2>4. CASE ~(HandOver \/ PopTask)
    <3>1. UNCHANGED <<taskQueue, pipe, popped>>
      BY <1>4, <2>4 DEF ManagerStep, TestStop, TestWork, Park, StopAccept, SpuriousWake, NextThread,
         AllocTaskReturns, FillThread, Spill, RecordOutGlobalQueue, JoinAcceptors, HandleSignal,
         SignalStop, ManagerOnly, threadVars, allocVars
    <3>. QED
      BY <1>1, <2>1, <3>1 DEF Waiting
  <2>. QED
    BY <2>2, <2>3, <2>4
<1>5. ASSUME UNCHANGED vars PROVE Unique'
  BY <1>1, <1>5 DEF vars, acceptVars, threadVars, connections, managerVars, allocVars, Waiting
<1>. QED
  BY <1>2, <1>3, <1>4, <1>5 DEF Next

-----------------------------------------------------------------------------
(* What the totals count.                                                   *)

NsSeq(s) == {i.ns : i \in Range(s)}
NsOf(f) == UNION {NsSeq(f[t]) : t \in Threads}
NsRest(f, t) == UNION {NsSeq(f[u]) : u \in Threads \ {t}}

(* A list of clients: what it has with one more and without its first one.  *)
LEMMA NsSeqLemma ==
  ASSUME NEW S, NEW s \in Seq(S)
  PROVE  /\ \A x \in S : Range(Append(s, x)) = Range(s) \cup {x}
         /\ s # <<>> => Range(s) = Range(Tail(s)) \cup {Head(s)} /\ Head(s) \in S
         /\ Range(s) \subseteq S /\ Range(<<>>) = {}
<1>1. Range(s) \subseteq S /\ Range(<<>>) = {}
  BY DEF Range
<1>2. ASSUME NEW x \in S PROVE Range(Append(s, x)) = Range(s) \cup {x}
  <2>. DEFINE r == Append(s, x)
  <2>1. /\ Len(r) = Len(s) + 1 /\ Len(s) \in Nat /\ DOMAIN s = 1..Len(s) /\ DOMAIN r = 1..Len(r)
        /\ \A i \in 1..Len(s) : r[i] = s[i]
        /\ r[Len(s) + 1] = x
    OBVIOUS
  <2>. HIDE DEF r
  <2>2. 1..Len(r) = 1..Len(s) \cup {Len(s) + 1}
    BY <2>1
  <2>3. Range(r) = Range(s) \cup {x}
    BY <2>1, <2>2 DEF Range
  <2>. QED
    BY <2>3 DEF r
<1>3. ASSUME s # <<>> PROVE Range(s) = Range(Tail(s)) \cup {Head(s)} /\ Head(s) \in S
  <2>. DEFINE r == Tail(s)
  <2>1. /\ Len(r) = Len(s) - 1 /\ Len(s) \in Nat /\ Len(s) >= 1 /\ DOMAIN s = 1..Len(s)
        /\ r \in Seq(S) /\ Head(s) = s[1] /\ Head(s) \in S
        /\ \A i \in 1..Len(r) : r[i] = s[i + 1]
    BY <1>3, HeadTailProperties
  <2>2. DOMAIN r = 1..Len(r)
    BY <2>1
  <2>. HIDE DEF r
  <2>3. \A i \in 1..Len(s) : i = 1 \/ (i - 1 \in 1..Len(r) /\ r[i - 1] = s[i])
    BY <2>1
  <2>4. 1 \in 1..Len(s) /\ \A i \in 1..Len(r) : i + 1 \in 1..Len(s)
    BY <2>1
  <2>5. Range(s) \subseteq Range(r) \cup {Head(s)}
    <3>1. ASSUME NEW i \in 1..Len(s) PROVE s[i] = Head(s) \/ s[i] \in Range(r)
      BY <2>1, <2>2, <2>3 DEF Range
    <3>. QED
      BY <2>1, <3>1 DEF Range
  <2>6. Range(r) \cup {Head(s)} \subseteq Range(s)
    BY <2>1, <2>2, <2>4 DEF Range
  <2>. QED
    BY <2>1, <2>5, <2>6 DEF r
<1>. QED
  BY <1>1, <1>2, <1>3

(* The clients in the lists of all threads after a change of one list.      *)
LEMMA NsLemma ==
  ASSUME NEW f \in [Threads -> Seq(Items)], NEW t \in Threads
  PROVE  /\ NsOf(f) = NsRest(f, t) \cup NsSeq(f[t]) /\ NsOf(f) \subseteq Clients
         /\ \A s : NsOf([f EXCEPT ![t] = s]) = NsRest(f, t) \cup NsSeq(s)
         /\ \A x \in Items : NsSeq(Append(f[t], x)) = NsSeq(f[t]) \cup {x.ns}
         /\ f[t] # <<>> => NsSeq(f[t]) = NsSeq(Tail(f[t])) \cup {Head(f[t]).ns} /\ Head(f[t]) \in Items
         /\ NsSeq(<<>>) = {}
<1>1. NsOf(f) = NsRest(f, t) \cup NsSeq(f[t])
  BY DEF NsOf, NsRest
<1>2. ASSUME NEW s PROVE NsOf([f EXCEPT ![t] = s]) = NsRest(f, t) \cup NsSeq(s)
  <2>. DEFINE g == [f EXCEPT ![t] = s]
  <2>1. g[t] = s /\ \A u \in Threads \ {t} : g[u] = f[u]
    OBVIOUS
  <2>. HIDE DEF g
  <2>2. NsOf(g) = NsRest(g, t) \cup NsSeq(g[t])
    BY DEF NsOf, NsRest
  <2>3. NsRest(g, t) = NsRest(f, t)
    BY <2>1 DEF NsRest
  <2>. QED
    BY <2>1, <2>2, <2>3 DEF g
<1>3. \A u \in Threads : NsSeq(f[u]) \subseteq Clients
  <2>1. SUFFICES ASSUME NEW u \in Threads PROVE NsSeq(f[u]) \subseteq Clients
    OBVIOUS
  <2>2. Range(f[u]) \subseteq Items
    BY NsSeqLemma
  <2>. QED
    BY <2>2 DEF NsSeq, Items
<1>4. NsOf(f) \subseteq Clients
  BY <1>3 DEF NsOf
<1>5. ASSUME NEW x \in Items PROVE NsSeq(Append(f[t], x)) = NsSeq(f[t]) \cup {x.ns}
  <2>1. Range(Append(f[t], x)) = Range(f[t]) \cup {x}
    BY NsSeqLemma
  <2>. QED
    BY <2>1 DEF NsSeq
<1>6. ASSUME f[t] # <<>>
      PROVE  NsSeq(f[t]) = NsSeq(Tail(f[t])) \cup {Head(f[t]).ns} /\ Head(f[t]) \in Items
  <2>1. Range(f[t]) = Range(Tail(f[t])) \cup {Head(f[t])} /\ Head(f[t]) \in Items
    BY <1>6, NsSeqLemma
  <2>. QED
    BY <2>1 DEF NsSeq
<1>7. NsSeq(<<>>) = {}
  BY DEF NsSeq, Range
<1>. QED
  BY <1>1, <1>2, <1>4, <1>5, <1>6, <1>7

\* The clients that wait: in the task queue, in a socket pair or in what a
\* thread has read from one.
WaitingIn(q, p, b) == Range(q) \cup NsOf(p) \cup NsOf(b)
ServedIn(l) == UNION {l[t] : t \in Threads}

(* A client that waits is at a place of one of those kinds, and one that is *)
(* served is with a thread.                                                 *)
LEMMA WaitingPlaces ==
  ASSUME NEW h, NEW q \in Seq(Clients), NEW p \in [Threads -> Seq(Items)],
         NEW b \in [Threads -> Seq(Items)], NEW l, NEW d, NEW c
  PROVE  /\ c \in WaitingIn(q, p, b) => \E x : /\ IsPlace(h, q, p, b, l, d, c, x)
                                               /\ x[1] \in {"queue", "pipe", "batch"}
         /\ c \in ServedIn(l) => \E t \in Threads : /\ c \in l[t]
                                                    /\ IsPlace(h, q, p, b, l, d, c, <<"served", t, 0>>)
<1>1. /\ DOMAIN q = 1..Len(q)
      /\ \A t \in Threads : DOMAIN p[t] = 1..Len(p[t]) /\ DOMAIN b[t] = 1..Len(b[t])
  OBVIOUS
<1>. DEFINE Goal == \E x : IsPlace(h, q, p, b, l, d, c, x) /\ x[1] \in {"queue", "pipe", "batch"}
<1>2. ASSUME c \in Range(q) PROVE Goal
  <2>1. PICK i \in 1..Len(q) : q[i] = c
    BY <1>1, <1>2 DEF Range
  <2>2. IsPlace(h, q, p, b, l, d, c, <<"queue", 0, i>>)
    BY <2>1 DEF IsPlace
  <2>. QED
    BY <2>2
<1>3. ASSUME c \in NsOf(p) PROVE Goal
  <2>1. PICK t \in Threads : c \in NsSeq(p[t])
    BY <1>3 DEF NsOf
  <2>2. PICK i \in 1..Len(p[t]) : p[t][i].ns = c
    BY <1>1, <2>1 DEF NsSeq, Range
  <2>3. IsPlace(h, q, p, b, l, d, c, <<"pipe", t, i>>)
    BY <2>1, <2>2 DEF IsPlace
  <2>. QED
    BY <2>3
<1>4. ASSUME c \in NsOf(b) PROVE Goal
  <2>1. PICK t \in Threads : c \in NsSeq(b[t])
    BY <1>4 DEF NsOf
  <2>2. PICK i \in 1..Len(b[t]) : b[t][i].ns = c
    BY <1>1, <2>1 DEF NsSeq, Range
  <2>3. IsPlace(h, q, p, b, l, d, c, <<"batch", t, i>>)
    BY <2>1, <2>2 DEF IsPlace
  <2>. QED
    BY <2>3
<1>5. ASSUME c \in ServedIn(l)
      PROVE  \E t \in Threads : c \in l[t] /\ IsPlace(h, q, p, b, l, d, c, <<"served", t, 0>>)
  BY <1>5 DEF ServedIn, IsPlace
<1>. QED
  BY <1>2, <1>3, <1>4, <1>5 DEF WaitingIn

\* Those of A that are in one of the states V.
InStates(A, f, V) == Cardinality({x \in A : f[x] \in V})

(* When one of them moves, their number follows.                            *)
LEMMA InStatesLemma ==
  ASSUME NEW A, IsFiniteSet(A), NEW f, NEW g, NEW V, NEW a \in A, \A x \in A \ {a} : g[x] = f[x]
  PROVE  /\ InStates(A, f, V) \in Nat
         /\ (f[a] \in V <=> g[a] \in V) => InStates(A, g, V) = InStates(A, f, V)
         /\ f[a] \notin V /\ g[a] \in V => InStates(A, g, V) = InStates(A, f, V) + 1
         /\ f[a] \in V /\ g[a] \notin V => InStates(A, g, V) = InStates(A, f, V) - 1
<1>. DEFINE F == {x \in A : f[x] \in V}
            G == {x \in A : g[x] \in V}
<1>1. IsFiniteSet(F)
  BY FS_Subset
<1>2. Cardinality(F) \in Nat
  BY <1>1, FS_CardinalityType
<1>3. (f[a] \in V <=> g[a] \in V) => G = F
  OBVIOUS
<1>4. f[a] \notin V /\ g[a] \in V => G = F \cup {a} /\ a \notin F
  OBVIOUS
<1>5. f[a] \in V /\ g[a] \notin V => G = F \ {a} /\ a \in F
  OBVIOUS
<1>6. InStates(A, f, V) = Cardinality(F) /\ InStates(A, g, V) = Cardinality(G)
  BY DEF InStates
<1>. HIDE DEF F, G
<1>7. f[a] \notin V /\ g[a] \in V => Cardinality(G) = Cardinality(F) + 1
  BY <1>1, <1>4, FS_AddElement
<1>8. f[a] \in V /\ g[a] \notin V => Cardinality(G) = Cardinality(F) - 1
  BY <1>1, <1>5, FS_RemoveElement
<1>. QED
  BY <1>2, <1>3, <1>6, <1>7, <1>8

\* What the three totals are short of, or run ahead by.
Waits == Cardinality(WaitingIn(Waiting, pipe, batch))
Serves == Cardinality(ServedIn(connectList))
Unreported == InStates(Acceptors, apc, {"global", "record"})
Unqueued == InStates(Acceptors, apc, {"global"})
TakenOver == InStates(Threads, tpc, {"attach", "doing"})
Finishing == InStates(Threads, tpc, {"done", "remove"})
Leaving == IF mpc \in {"hand", "out"} THEN 1 ELSE 0
WaitTotal == Word + Waits - TakenOver - Unreported
GlobalTotal == Word + Len(taskQueue) + Leaving - Unqueued
HandingTotal == Serves + TakenOver - Finishing
Totals == /\ waitSum = WaitTotal % Word
          /\ globalSum = GlobalTotal % Word
          /\ handingSum = HandingTotal % Word

(* RecordsAddUp in these terms, before and after a step.                    *)
LEMMA TotalsLemma == (RecordsAddUp <=> Totals) /\ (RecordsAddUp' <=> Totals')
<1>1. RecordsAddUp <=> Totals
  <2>1. Queued \cup InPipe \cup InBatch = WaitingIn(Waiting, pipe, batch)
    BY DEF Queued, InPipe, InBatch, WaitingIn, NsOf, NsSeq
  <2>2. Count({a \in Acceptors : apc[a] = "global"}) = Unqueued
    <3>1. {a \in Acceptors : apc[a] = "global"} = {a \in Acceptors : apc[a] \in {"global"}}
      OBVIOUS
    <3>. QED
      BY <3>1 DEF Count, Unqueued, InStates
  <2>3. /\ Count({t \in Threads : tpc[t] \in {"attach", "doing"}}) = TakenOver
        /\ Count({t \in Threads : tpc[t] \in {"done", "remove"}}) = Finishing
        /\ Count({a \in Acceptors : apc[a] \in {"global", "record"}}) = Unreported
    BY DEF Count, TakenOver, Finishing, Unreported, InStates
  <2>4. Count(Served) = Serves /\ Count(Queued \cup InPipe \cup InBatch) = Waits
    BY <2>1 DEF Count, Served, Serves, ServedIn, Waits
  <2>. HIDE DEF Unqueued
  <2>. QED
    BY <2>2, <2>3, <2>4, Zenon
    DEF RecordsAddUp, Totals, WaitTotal, GlobalTotal, HandingTotal, Leaving
<1>2. RecordsAddUp' <=> Totals'
  <2>1. (Queued \cup InPipe \cup InBatch)' = WaitingIn(Waiting', pipe', batch')
    BY DEF Queued, InPipe, InBatch, WaitingIn, NsOf, NsSeq
  <2>2. Count({a \in Acceptors : apc[a] = "global"})' = Unqueued'
    <3>1. {a \in Acceptors : apc'[a] = "global"} = {a \in Acceptors : apc'[a] \in {"global"}}
      OBVIOUS
    <3>. QED
      BY <3>1 DEF Count, Unqueued, InStates
  <2>3. /\ Count({t \in Threads : tpc[t] \in {"attach", "doing"}})' = TakenOver'
        /\ Count({t \in Threads : tpc[t] \in {"done", "remove"}})' = Finishing'
        /\ Count({a \in Acceptors : apc[a] \in {"global", "record"}})' = Unreported'
    BY DEF Count, TakenOver, Finishing, Unreported, InStates
  <2>4. Count(Served)' = Serves' /\ Count(Queued \cup InPipe \cup InBatch)' = Waits'
    BY <2>1 DEF Count, Served, Serves, ServedIn, Waits, WaitingIn, NsOf
  <2>. QED
    BY <2>2, <2>3, <2>4, Zenon
    DEF RecordsAddUp, Totals, WaitTotal, GlobalTotal, HandingTotal, Leaving
<1>. QED
  BY <1>1, <1>2

\* A total goes with what it counts.
Follows(s, s2, x, x2) ==
  \/ s2 = s /\ x2 = x
  \/ s2 = Inc(s) /\ x2 = x + 1
  \/ s2 = Dec(s) /\ x2 = x - 1

(* A total that goes with what it counts stays right.                       *)
LEMMA FollowsLemma ==
  ASSUME NEW x \in Int, NEW x2, NEW s, NEW s2, s = x % Word, Follows(s, s2, x, x2)
  PROVE  s2 = x2 % Word
BY ModLemma DEF Follows

(* What is counted is a number.                                             *)
LEMMA TotalsType ==
  ASSUME TypeOK
  PROVE  /\ WaitTotal \in Int /\ GlobalTotal \in Int /\ HandingTotal \in Int
         /\ Waits \in Nat /\ Serves \in Nat /\ Unreported \in Nat /\ Unqueued \in Nat
         /\ TakenOver \in Nat /\ Finishing \in Nat /\ Leaving \in Nat /\ Len(taskQueue) \in Nat
         /\ WaitingIn(Waiting, pipe, batch) \in SUBSET Clients
         /\ ServedIn(connectList) \in SUBSET Clients
<1>1. \A A, f, V : IsFiniteSet(A) => InStates(A, f, V) \in Nat
  <2>1. SUFFICES ASSUME NEW A, IsFiniteSet(A), NEW f, NEW V PROVE InStates(A, f, V) \in Nat
    BY Zenon
  <2>2. IsFiniteSet({x \in A : f[x] \in V})
    BY <2>1, FS_Subset
  <2>. QED
    BY <2>2, FS_CardinalityType DEF InStates
<1>2. Unreported \in Nat /\ Unqueued \in Nat /\ TakenOver \in Nat /\ Finishing \in Nat /\ Leaving \in Nat
  BY <1>1, Bounds DEF Unreported, Unqueued, TakenOver, Finishing, Leaving
<1>3. WaitingIn(Waiting, pipe, batch) \subseteq Clients
  <2>1. Waiting \in Seq(Clients) /\ pipe \in [Threads -> Seq(Items)] /\ batch \in [Threads -> Seq(Items)]
    BY WaitingType DEF TypeOK, Items
  <2>2. Range(Waiting) \subseteq Clients
    BY <2>1, NsSeqLemma
  <2>3. NsOf(pipe) \subseteq Clients /\ NsOf(batch) \subseteq Clients
    BY <2>1, Bounds, NsLemma
  <2>. QED
    BY <2>2, <2>3 DEF WaitingIn
<1>4. ServedIn(connectList) \subseteq Clients
  BY DEF ServedIn, TypeOK
<1>5. Waits \in Nat /\ Serves \in Nat
  BY <1>3, <1>4, CountLemma DEF Waits, Serves, Count
<1>6. Len(taskQueue) \in Nat
  BY DEF TypeOK
<1>. QED
  BY <1>2, <1>3, <1>4, <1>5, <1>6, Bounds DEF WaitTotal, GlobalTotal, HandingTotal

(* Totals that go with what they count.                                     *)
LEMMA TotalsFollow ==
  ASSUME TypeOK, Totals, Follows(waitSum, waitSum', WaitTotal, WaitTotal'),
         Follows(globalSum, globalSum', GlobalTotal, GlobalTotal'),
         Follows(handingSum, handingSum', HandingTotal, HandingTotal')
  PROVE  Totals'
<1>. DEFINE w == WaitTotal'
            g == GlobalTotal'
            h == HandingTotal'
<1>1. WaitTotal \in Int /\ GlobalTotal \in Int /\ HandingTotal \in Int
  BY TotalsType
<1>2. waitSum' = w % Word /\ globalSum' = g % Word /\ handingSum' = h % Word
  <2>. HIDE DEF w, g, h
  <2>1. /\ waitSum = WaitTotal % Word /\ globalSum = GlobalTotal % Word
        /\ handingSum = HandingTotal % Word
    BY DEF Totals
  <2>2. /\ Follows(waitSum, waitSum', WaitTotal, w)
        /\ Follows(globalSum, globalSum', GlobalTotal, g)
        /\ Follows(handingSum, handingSum', HandingTotal, h)
    BY DEF w, g, h
  <2>. QED
    BY <1>1, <2>1, <2>2, FollowsLemma
<1>. QED
  BY <1>2 DEF Totals

(* A client that an accept thread holds is not yet among those that wait.   *)
LEMMA HeldWaitsNot ==
  ASSUME TypeOK, Unique, NEW a \in Acceptors, hand[a] # NULL
  PROVE  /\ hand[a] \in Clients /\ hand[a] \notin WaitingIn(Waiting, pipe, batch)
<1>1. hand[a] \in Clients /\ Waiting \in Seq(Clients)
      /\ pipe \in [Threads -> Seq(Items)] /\ batch \in [Threads -> Seq(Items)]
  BY WaitingType DEF TypeOK, Items
<1>2. At(hand[a], <<"hand", a, 0>>)
  BY DEF At, IsPlace
<1>3. SUFFICES ASSUME hand[a] \in WaitingIn(Waiting, pipe, batch) PROVE FALSE
  BY <1>1
<1>4. \E x : At(hand[a], x) /\ x[1] \in {"queue", "pipe", "batch"}
  BY <1>1, <1>3, WaitingPlaces DEF At
<1>. QED
  BY <1>1, <1>2, <1>4 DEF Unique

(* Leaving the counted apart from the manager's place in alloc_task.        *)
LEMMA LeavingSame ==
  ASSUME mpc' \in {mpc, Signalled}
  PROVE  Leaving' = Leaving
<1>1. Signalled = mpc \/ (Signalled = "woken" /\ mpc = "waiting")
  BY DEF Signalled
<1>2. mpc' = mpc \/ (mpc' = "woken" /\ mpc = "waiting")
  BY <1>1
<1>. QED
  BY <1>2 DEF Leaving

(* The totals follow an accept thread.                                      *)
LEMMA AcceptorTotals ==
  ASSUME TypeOK, HandsOK, Unique, Totals, NEW a \in Acceptors, Accept(a) \/ AcceptorStep(a)
  PROVE  Totals'
<1>1. /\ WaitTotal \in Int /\ GlobalTotal \in Int /\ HandingTotal \in Int
      /\ Waits \in Nat /\ Unreported \in Nat /\ Unqueued \in Nat /\ TakenOver \in Nat
      /\ Leaving \in Nat /\ Len(taskQueue) \in Nat
      /\ WaitingIn(Waiting, pipe, batch) \in SUBSET Clients /\ Word \in Nat
  BY TotalsType, Bounds
<1>2. taskQueue \in Seq(Clients) /\ Waiting \in Seq(Clients) /\ pipe \in [Threads -> Seq(Items)]
  BY WaitingType DEF TypeOK, Items
<1>3. \A from, to : Step(a, from, to) =>
        apc[a] = from /\ apc'[a] = to /\ \A b \in Acceptors \ {a} : apc'[b] = apc[b]
  BY DEF Step, TypeOK
<1>4. \A from, to : Step(a, from, to) =>
      /\ (from \in {"global", "record"} <=> to \in {"global", "record"}) => Unreported' = Unreported
      /\ from \notin {"global", "record"} /\ to \in {"global", "record"} => Unreported' = Unreported + 1
      /\ from \in {"global", "record"} /\ to \notin {"global", "record"} => Unreported' = Unreported - 1
      /\ (from \in {"global"} <=> to \in {"global"}) => Unqueued' = Unqueued
      /\ from \notin {"global"} /\ to \in {"global"} => Unqueued' = Unqueued + 1
      /\ from \in {"global"} /\ to \notin {"global"} => Unqueued' = Unqueued - 1
  <2>1. IsFiniteSet(Acceptors)
    BY Bounds
  <2>2. /\ Unreported = InStates(Acceptors, apc, {"global", "record"})
        /\ Unreported' = InStates(Acceptors, apc', {"global", "record"})
        /\ Unqueued = InStates(Acceptors, apc, {"global"})
        /\ Unqueued' = InStates(Acceptors, apc', {"global"})
    BY DEF Unreported, Unqueued, InStates
  <2>3. SUFFICES ASSUME NEW from, NEW to, Step(a, from, to)
        PROVE
          /\ (from \in {"global", "record"} <=> to \in {"global", "record"}) => Unreported' = Unreported
          /\ from \notin {"global", "record"} /\ to \in {"global", "record"} => Unreported' = Unreported + 1
          /\ from \in {"global", "record"} /\ to \notin {"global", "record"} => Unreported' = Unreported - 1
          /\ (from \in {"global"} <=> to \in {"global"}) => Unqueued' = Unqueued
          /\ from \notin {"global"} /\ to \in {"global"} => Unqueued' = Unqueued + 1
          /\ from \in {"global"} /\ to \notin {"global"} => Unqueued' = Unqueued - 1
    OBVIOUS
  <2>4. apc[a] = from /\ apc'[a] = to /\ \A b \in Acceptors \ {a} : apc'[b] = apc[b]
    BY <1>3, <2>3
  <2>5. /\ (from \in {"global", "record"} <=> to \in {"global", "record"}) => Unreported' = Unreported
        /\ from \notin {"global", "record"} /\ to \in {"global", "record"} => Unreported' = Unreported + 1
        /\ from \in {"global", "record"} /\ to \notin {"global", "record"} => Unreported' = Unreported - 1
    <3>. DEFINE V == {"global", "record"}
    <3>1. Unreported = InStates(Acceptors, apc, V) /\ Unreported' = InStates(Acceptors, apc', V)
      BY <2>2
    <3>. HIDE DEF V
    <3>2. /\ (apc[a] \in V <=> apc'[a] \in V)
               => InStates(Acceptors, apc', V) = InStates(Acceptors, apc, V)
          /\ apc[a] \notin V /\ apc'[a] \in V
               => InStates(Acceptors, apc', V) = InStates(Acceptors, apc, V) + 1
          /\ apc[a] \in V /\ apc'[a] \notin V
               => InStates(Acceptors, apc', V) = InStates(Acceptors, apc, V) - 1
      BY <2>1, <2>4, InStatesLemma
    <3>3. /\ (from \in V <=> to \in V) => Unreported' = Unreported
          /\ from \notin V /\ to \in V => Unreported' = Unreported + 1
          /\ from \in V /\ to \notin V => Unreported' = Unreported - 1
      BY <2>4, <3>1, <3>2
    <3>. QED
      BY <3>3 DEF V
  <2>6. /\ (from \in {"global"} <=> to \in {"global"}) => Unqueued' = Unqueued
        /\ from \notin {"global"} /\ to \in {"global"} => Unqueued' = Unqueued + 1
        /\ from \in {"global"} /\ to \notin {"global"} => Unqueued' = Unqueued - 1
    <3>. DEFINE V == {"global"}
    <3>1. Unqueued = InStates(Acceptors, apc, V) /\ Unqueued' = InStates(Acceptors, apc', V)
      BY <2>2
    <3>. HIDE DEF V
    <3>2. /\ (apc[a] \in V <=> apc'[a] \in V)
               => InStates(Acceptors, apc', V) = InStates(Acceptors, apc, V)
          /\ apc[a] \notin V /\ apc'[a] \in V
               => InStates(Acceptors, apc', V) = InStates(Acceptors, apc, V) + 1
          /\ apc[a] \in V /\ apc'[a] \notin V
               => InStates(Acceptors, apc', V) = InStates(Acceptors, apc, V) - 1
      BY <2>1, <2>4, InStatesLemma
    <3>3. /\ (from \in V <=> to \in V) => Unqueued' = Unqueued
          /\ from \notin V /\ to \in V => Unqueued' = Unqueued + 1
          /\ from \in V /\ to \notin V => Unqueued' = Unqueued - 1
      BY <2>4, <3>1, <3>2
    <3>. QED
      BY <3>3 DEF V
  <2>. QED
    BY <2>5, <2>6
<1>5. (UNCHANGED <<tpc, connectList>>) /\ mpc' \in {mpc, Signalled}
        => UNCHANGED <<Serves, TakenOver, Finishing, Leaving, HandingTotal>>
  BY LeavingSame DEF Serves, TakenOver, Finishing, HandingTotal
<1>6. (UNCHANGED <<Waiting, pipe, batch>>) => Waits' = Waits
  BY DEF Waits, WaitingIn, NsOf
<1>7. Waits' = Cardinality(WaitingIn(Waiting', pipe', batch'))
  BY DEF Waits, WaitingIn, NsOf
<1>8. \A d \in Clients : d \notin WaitingIn(Waiting, pipe, batch)
                         /\ WaitingIn(Waiting', pipe', batch') = WaitingIn(Waiting, pipe, batch) \cup {d}
                           => Waits' = Waits + 1
  BY <1>1, <1>7, CountLemma DEF Waits, Count
<1>. USE DEF threadVars, connections, managerVars, allocVars, recordVars
<1>9. ASSUME Accept(a) \/ TestSize(a) \/ ChooseThread(a) PROVE Totals'
  <2>1. PICK from \in {"accept", "size", "choose"}, to \in {"size", "queue", "choose", "write"} :
           Step(a, from, to)
    BY <1>9 DEF Accept, TestSize, ChooseThread
  <2>2. Unreported' = Unreported /\ Unqueued' = Unqueued
    BY <1>4, <2>1
  <2>3. UNCHANGED <<taskQueue, Waiting, pipe, batch, tpc, connectList, mpc, waitSum, globalSum, handingSum>>
    BY <1>9 DEF Accept, TestSize, ChooseThread, Waiting
  <2>. QED
    BY <1>5, <1>6, <2>2, <2>3 DEF Totals, WaitTotal, GlobalTotal
<1>10. ASSUME WriteSocketPair(a) PROVE Totals'
  <2>. DEFINE t == target[a]
              d == hand[a]
  <2>1. /\ Step(a, "write", "record")
        /\ pipe' = [pipe EXCEPT ![t] = Append(pipe[t], Address(d))]
        /\ UNCHANGED <<taskQueue, Waiting, tpc, batch, connectList, mpc, waitSum, globalSum, handingSum>>
    BY <1>10 DEF WriteSocketPair, Waiting
  <2>2. d # NULL /\ t \in Threads
    BY <1>3, <2>1 DEF HandsOK, TypeOK
  <2>3. d \in Clients /\ d \notin WaitingIn(Waiting, pipe, batch)
    BY <2>2, HeldWaitsNot
  <2>. HIDE DEF t, d
  <2>4. Address(d) \in Items /\ Address(d).ns = d
    BY <2>3 DEF Items, Address
  <2>5. NsOf(pipe') = NsOf(pipe) \cup {d}
    <3>1. /\ NsOf(pipe) = NsRest(pipe, t) \cup NsSeq(pipe[t])
          /\ \A s : NsOf([pipe EXCEPT ![t] = s]) = NsRest(pipe, t) \cup NsSeq(s)
          /\ \A x \in Items : NsSeq(Append(pipe[t], x)) = NsSeq(pipe[t]) \cup {x.ns}
      BY <1>2, <2>2, NsLemma
    <3>2. NsOf(pipe') = NsRest(pipe, t) \cup NsSeq(Append(pipe[t], Address(d)))
      BY <2>1, <3>1, Zenon
    <3>3. NsSeq(Append(pipe[t], Address(d))) = NsSeq(pipe[t]) \cup {d}
      BY <2>4, <3>1
    <3>. QED
      BY <3>1, <3>2, <3>3
  <2>6. WaitingIn(Waiting', pipe', batch') = WaitingIn(Waiting, pipe, batch) \cup {d}
    BY <2>1, <2>5 DEF WaitingIn
  <2>7. Waits' = Waits + 1
    BY <1>8, <2>3, <2>6
  <2>8. Unreported' = Unreported + 1 /\ Unqueued' = Unqueued
    BY <1>4, <2>1
  <2>9. UNCHANGED <<TakenOver, Leaving, HandingTotal>>
    BY <1>5, <2>1
  <2>10. WaitTotal' = WaitTotal
    <3>1. Word + (Waits + 1) - TakenOver - (Unreported + 1) = Word + Waits - TakenOver - Unreported
      BY <1>1
    <3>. QED
      BY <2>7, <2>8, <2>9, <3>1 DEF WaitTotal
  <2>. QED
    BY <2>1, <2>8, <2>9, <2>10 DEF Totals, GlobalTotal
<1>11. ASSUME AddTask(a) PROVE Totals'
  <2>. DEFINE d == hand[a]
  <2>1. /\ Step(a, "queue", "global") /\ taskQueue' = Append(taskQueue, d) /\ mpc' = Signalled
        /\ UNCHANGED <<popped, pipe, tpc, batch, connectList, waitSum, globalSum, handingSum>>
    BY <1>11 DEF AddTask
  <2>2. d # NULL
    BY <1>3, <2>1 DEF HandsOK
  <2>3. d \in Clients /\ d \notin WaitingIn(Waiting, pipe, batch)
    BY <2>2, HeldWaitsNot
  <2>. HIDE DEF d
  <2>4. Len(taskQueue') = Len(taskQueue) + 1 /\ Waiting' = Append(Waiting, d)
    BY <1>2, <2>1, <2>3, AddWaiting, AppendProperties
  <2>5. Range(Waiting') = Range(Waiting) \cup {d}
    BY <1>2, <2>3, <2>4, NsSeqLemma
  <2>6. WaitingIn(Waiting', pipe', batch') = WaitingIn(Waiting, pipe, batch) \cup {d}
    BY <2>1, <2>5 DEF WaitingIn
  <2>7. Waits' = Waits + 1
    BY <1>8, <2>3, <2>6
  <2>8. Unreported' = Unreported + 1 /\ Unqueued' = Unqueued + 1
    BY <1>4, <2>1
  <2>9. UNCHANGED <<TakenOver, Leaving, HandingTotal>>
    BY <1>5, <2>1
  <2>10. WaitTotal' = WaitTotal /\ GlobalTotal' = GlobalTotal
    <3>1. /\ Word + (Waits + 1) - TakenOver - (Unreported + 1) = Word + Waits - TakenOver - Unreported
          /\ Word + (Len(taskQueue) + 1) + Leaving - (Unqueued + 1)
               = Word + Len(taskQueue) + Leaving - Unqueued
      BY <1>1
    <3>. QED
      BY <2>4, <2>7, <2>8, <2>9, <3>1 DEF WaitTotal, GlobalTotal
  <2>. QED
    BY <2>1, <2>9, <2>10 DEF Totals
<1>12. ASSUME RecordGlobalQueue(a) PROVE Totals'
  <2>1. /\ Step(a, "global", "record") /\ globalSum' = Inc(globalSum)
        /\ UNCHANGED <<taskQueue, Waiting, pipe, batch, tpc, connectList, mpc, waitSum, handingSum>>
    BY <1>12 DEF RecordGlobalQueue, Waiting
  <2>2. Unreported' = Unreported /\ Unqueued' = Unqueued - 1
    BY <1>4, <2>1
  <2>3. UNCHANGED <<Waits, TakenOver, Leaving, HandingTotal>>
    BY <1>5, <1>6, <2>1
  <2>4. GlobalTotal' = GlobalTotal + 1
    <3>1. Word + Len(taskQueue) + Leaving - (Unqueued - 1)
            = Word + Len(taskQueue) + Leaving - Unqueued + 1
      BY <1>1
    <3>. QED
      BY <2>1, <2>2, <2>3, <3>1 DEF GlobalTotal
  <2>5. WaitTotal' = WaitTotal
    BY <2>2, <2>3 DEF WaitTotal
  <2>. QED
    BY <2>1, <2>3, <2>4, <2>5, TotalsFollow DEF Follows
<1>13. ASSUME RecordAccept(a) PROVE Totals'
  <2>1. /\ Step(a, "record", "accept") /\ waitSum' = Inc(waitSum)
        /\ UNCHANGED <<taskQueue, Waiting, pipe, batch, tpc, connectList, mpc, globalSum, handingSum>>
    BY <1>13 DEF RecordAccept, Waiting
  <2>2. Unreported' = Unreported - 1 /\ Unqueued' = Unqueued
    BY <1>4, <2>1
  <2>3. UNCHANGED <<Waits, TakenOver, Leaving, HandingTotal>>
    BY <1>5, <1>6, <2>1
  <2>4. WaitTotal' = WaitTotal + 1
    <3>1. Word + Waits - TakenOver - (Unreported - 1) = Word + Waits - TakenOver - Unreported + 1
      BY <1>1
    <3>. QED
      BY <2>2, <2>3, <3>1 DEF WaitTotal
  <2>5. GlobalTotal' = GlobalTotal
    BY <2>1, <2>2, <2>3 DEF GlobalTotal
  <2>. QED
    BY <2>1, <2>3, <2>4, <2>5, TotalsFollow DEF Follows
<1>. QED
  BY <1>9, <1>10, <1>11, <1>12, <1>13 DEF AcceptorStep

(* A client thread that moves is counted where it arrives.                  *)
LEMMA ThreadMoves ==
  ASSUME TypeOK, NEW t \in Threads, NEW from, NEW to, GoTo(t, from, to)
  PROVE  /\ TakenOver' = TakenOver + (IF to \in {"attach", "doing"} THEN 1 ELSE 0)
                           - (IF from \in {"attach", "doing"} THEN 1 ELSE 0)
         /\ Finishing' = Finishing + (IF to \in {"done", "remove"} THEN 1 ELSE 0)
                           - (IF from \in {"done", "remove"} THEN 1 ELSE 0)
<1>1. tpc[t] = from /\ tpc'[t] = to /\ \A u \in Threads \ {t} : tpc'[u] = tpc[u]
  BY DEF GoTo, TypeOK
<1>2. ASSUME NEW V
      PROVE  InStates(Threads, tpc', V) = InStates(Threads, tpc, V)
               + (IF to \in V THEN 1 ELSE 0) - (IF from \in V THEN 1 ELSE 0)
  <2>1. /\ InStates(Threads, tpc, V) \in Nat
        /\ (tpc[t] \in V <=> tpc'[t] \in V) => InStates(Threads, tpc', V) = InStates(Threads, tpc, V)
        /\ tpc[t] \notin V /\ tpc'[t] \in V
             => InStates(Threads, tpc', V) = InStates(Threads, tpc, V) + 1
        /\ tpc[t] \in V /\ tpc'[t] \notin V
             => InStates(Threads, tpc', V) = InStates(Threads, tpc, V) - 1
    <3>1. IsFiniteSet(Threads)
      BY Bounds
    <3>. QED
      BY <1>1, <3>1, InStatesLemma
  <2>. QED
    BY <1>1, <2>1
<1>3. /\ TakenOver = InStates(Threads, tpc, {"attach", "doing"})
      /\ TakenOver' = InStates(Threads, tpc', {"attach", "doing"})
      /\ Finishing = InStates(Threads, tpc, {"done", "remove"})
      /\ Finishing' = InStates(Threads, tpc', {"done", "remove"})
  BY DEF TakenOver, Finishing, InStates
<1>. QED
  BY <1>2, <1>3, Zenon

(* The totals follow a client thread.                                       *)
LEMMA ThreadTotals ==
  ASSUME TypeOK, TypeOK', BatchOK, ClosingOK, Unique, Totals, NEW t \in Threads,
         ThreadStep(t) \/ ConnectionEvent(t)
  PROVE  Totals'
<1>1. /\ WaitTotal \in Int /\ GlobalTotal \in Int /\ HandingTotal \in Int
      /\ Waits \in Nat /\ Serves \in Nat /\ Unreported \in Nat
      /\ TakenOver \in Nat /\ Finishing \in Nat
      /\ WaitingIn(Waiting, pipe, batch) \in SUBSET Clients
      /\ ServedIn(connectList) \in SUBSET Clients /\ Word \in Nat
  BY TotalsType, Bounds
<1>2. /\ Waiting \in Seq(Clients) /\ pipe \in [Threads -> Seq(Items)] /\ batch \in [Threads -> Seq(Items)]
      /\ pipe' \in [Threads -> Seq(Items)] /\ batch' \in [Threads -> Seq(Items)]
      /\ connectList \in [Threads -> SUBSET Clients]
  BY WaitingType DEF TypeOK, Items
<1>3. UNCHANGED <<Waiting, taskQueue, Unreported, Unqueued, GlobalTotal>>
  <2>1. UNCHANGED <<apc, taskQueue, popped>>
    BY ThreadFrame DEF acceptVars
  <2>2. mpc' \in {mpc, Signalled}
    BY DEF ThreadStep, ConnectionEvent, ReadClientSocket, StartTask, FollowContent, TakeUp,
         DoingConnection, RecvConnection, FinishedConnection, DoneConnection, RemoveConnection,
         SignalFinished, ServerFailed, DoingFailConnection, RetryFailed, RetryFailConnection,
         FollowFreed, managerVars
  <2>3. UNCHANGED <<Unreported, Unqueued>> /\ Leaving' = Leaving
    BY <2>1, <2>2, LeavingSame DEF Unreported, Unqueued, InStates
  <2>. QED
    BY <2>1, <2>3 DEF Waiting, GlobalTotal
<1>4. /\ Waits' = Cardinality(WaitingIn(Waiting', pipe', batch'))
      /\ Serves' = Cardinality(ServedIn(connectList'))
  BY DEF Waits, WaitingIn, NsOf, Serves, ServedIn
<1>5. \A from, to : GoTo(t, from, to) => tpc[t] = from
  BY DEF GoTo
<1>6. ASSUME UNCHANGED <<Waits, Serves, TakenOver, Finishing, recordVars>> PROVE Totals'
  BY <1>3, <1>6 DEF Totals, WaitTotal, HandingTotal, recordVars
<1>7. ASSUME UNCHANGED <<pipe, batch, connectList>> PROVE UNCHANGED <<Waits, Serves>>
  BY <1>3, <1>4, <1>7 DEF Waits, Serves
<1>8. ASSUME ReadClientSocket(t) PROVE Totals'
  <2>1. /\ GoTo(t, "loop", "start")
        /\ batch' = [batch EXCEPT ![t] = pipe[t]] /\ pipe' = [pipe EXCEPT ![t] = <<>>]
        /\ UNCHANGED <<connectList, recordVars>>
    BY <1>8 DEF ReadClientSocket, connections
  <2>2. batch[t] = <<>>
    BY <1>5, <2>1 DEF BatchOK
  <2>3. NsOf(pipe') \cup NsOf(batch') = NsOf(pipe) \cup NsOf(batch)
    <3>1. /\ NsOf(pipe) = NsRest(pipe, t) \cup NsSeq(pipe[t])
          /\ \A s : NsOf([pipe EXCEPT ![t] = s]) = NsRest(pipe, t) \cup NsSeq(s)
          /\ NsOf(batch) = NsRest(batch, t) \cup NsSeq(batch[t])
          /\ \A s : NsOf([batch EXCEPT ![t] = s]) = NsRest(batch, t) \cup NsSeq(s)
          /\ NsSeq(<<>>) = {}
      BY <1>2, NsLemma
    <3>2. NsOf(pipe') = NsRest(pipe, t) \cup NsSeq(<<>>) /\ NsOf(batch') = NsRest(batch, t) \cup NsSeq(pipe[t])
      BY <2>1, <3>1, Zenon
    <3>. QED
      BY <2>2, <3>1, <3>2
  <2>4. Waits' = Waits /\ Serves' = Serves
    BY <1>3, <1>4, <2>1, <2>3 DEF Waits, Serves, WaitingIn
  <2>5. TakenOver' = TakenOver /\ Finishing' = Finishing
    BY <1>1, <2>1, ThreadMoves
  <2>. QED
    BY <1>6, <2>1, <2>4, <2>5
<1>9. ASSUME FollowContent(t) PROVE Totals'
  <2>1. UNCHANGED <<pipe, tpc, batch, connectList, recordVars>>
    BY <1>9 DEF FollowContent, threadVars, connections
  <2>. QED
    BY <1>6, <1>7, <2>1 DEF TakenOver, Finishing
<1>10. ASSUME TakeUp(t) \/ RecvConnection(t) \/ DoneConnection(t) \/ SignalFinished(t) \/ ServerFailed(t)
              \/ DoingFailConnection(t) \/ RetryFailed(t) \/ RetryFailConnection(t) \/ FollowFreed(t)
       PROVE  Totals'
  <2>1. PICK from, to : /\ GoTo(t, from, to)
                        /\ from \in {"attach", "doing"} <=> to \in {"attach", "doing"}
                        /\ from \in {"done", "remove"} <=> to \in {"done", "remove"}
    <3>1. CASE TakeUp(t) \/ DoneConnection(t) \/ SignalFinished(t) \/ ServerFailed(t)
               \/ DoingFailConnection(t) \/ RetryFailConnection(t) \/ FollowFreed(t)
      BY <3>1 DEF TakeUp, DoneConnection, SignalFinished, ServerFailed, DoingFailConnection,
                  RetryFailConnection, FollowFreed
    <3>2. CASE RecvConnection(t)
      <4>1. PICK to \in {"loop", "start"} : GoTo(t, "recv", to)
        BY <3>2 DEF RecvConnection
      <4>. QED
        BY <4>1
    <3>3. CASE RetryFailed(t)
      <4>1. PICK to \in {"retry", "freed"} : GoTo(t, "loop", to)
        BY <3>3 DEF RetryFailed
      <4>. QED
        BY <4>1
    <3>. QED
      BY <1>10, <3>1, <3>2, <3>3
  <2>2. TakenOver' = TakenOver /\ Finishing' = Finishing
    BY <1>1, <2>1, ThreadMoves
  <2>3. UNCHANGED <<pipe, batch, connectList, recordVars>>
    BY <1>10 DEF TakeUp, RecvConnection, DoneConnection, SignalFinished, ServerFailed,
         DoingFailConnection, RetryFailed, RetryFailConnection, FollowFreed, connections
  <2>. QED
    BY <1>6, <1>7, <2>2, <2>3
<1>11. ASSUME StartTask(t) PROVE Totals'
  <2>1. /\ GoTo(t, "start", "attach") /\ waitSum' = Dec(waitSum) /\ handingSum' = Inc(handingSum)
        /\ UNCHANGED <<pipe, batch, connectList, globalSum>>
    BY <1>11 DEF StartTask, connections
  <2>2. TakenOver' = TakenOver + 1 /\ Finishing' = Finishing
    BY <1>1, <2>1, ThreadMoves
  <2>3. UNCHANGED <<Waits, Serves, Unreported>>
    BY <1>3, <1>7, <2>1
  <2>4. WaitTotal' = WaitTotal - 1 /\ HandingTotal' = HandingTotal + 1
    <3>1. /\ Word + Waits - (TakenOver + 1) - Unreported = Word + Waits - TakenOver - Unreported - 1
          /\ Serves + (TakenOver + 1) - Finishing = Serves + TakenOver - Finishing + 1
      BY <1>1
    <3>. QED
      BY <1>1, <2>2, <2>3, <3>1 DEF WaitTotal, HandingTotal
  <2>. QED
    BY <1>3, <2>1, <2>4, TotalsFollow DEF Follows
<1>12. ASSUME FinishedConnection(t) PROVE Totals'
  <2>1. /\ GoTo(t, "loop", "done") /\ handingSum' = Dec(handingSum)
        /\ UNCHANGED <<pipe, batch, connectList, waitSum, globalSum>>
    BY <1>12 DEF FinishedConnection
  <2>2. TakenOver' = TakenOver /\ Finishing' = Finishing + 1
    BY <1>1, <2>1, ThreadMoves
  <2>3. UNCHANGED <<Waits, Serves, Unreported>>
    BY <1>3, <1>7, <2>1
  <2>4. WaitTotal' = WaitTotal /\ HandingTotal' = HandingTotal - 1
    <3>1. Serves + TakenOver - (Finishing + 1) = Serves + TakenOver - Finishing - 1
      BY <1>1
    <3>. QED
      BY <1>1, <2>2, <2>3, <3>1 DEF WaitTotal, HandingTotal
  <2>. QED
    BY <1>3, <2>1, <2>4, TotalsFollow DEF Follows
<1>13. ASSUME DoingConnection(t) PROVE Totals'
  <2>0. PICK d : d = Head(batch[t]).ns
    OBVIOUS
  <2>1. /\ GoTo(t, "doing", "recv")
        /\ connectList' = [connectList EXCEPT ![t] = connectList[t] \cup {d}]
        /\ batch' = [batch EXCEPT ![t] = Tail(batch[t])]
        /\ UNCHANGED <<pipe, recordVars>>
    BY <1>13, <2>0 DEF DoingConnection
  <2>2. batch[t] # <<>>
    BY <1>5, <2>1 DEF BatchOK
  <2>3. Unique' /\ d \in Clients
    BY <1>13, <2>0, DoingPlaces
  <2>4. NsOf(batch) = NsOf(batch') \cup {d}
    <3>1. /\ NsOf(batch) = NsRest(batch, t) \cup NsSeq(batch[t])
          /\ \A s : NsOf([batch EXCEPT ![t] = s]) = NsRest(batch, t) \cup NsSeq(s)
          /\ NsSeq(batch[t]) = NsSeq(Tail(batch[t])) \cup {d}
      BY <1>2, <2>0, <2>2, NsLemma
    <3>2. NsOf(batch') = NsRest(batch, t) \cup NsSeq(Tail(batch[t]))
      BY <2>1, <3>1, Zenon
    <3>. QED
      BY <3>1, <3>2
  <2>5. d \notin WaitingIn(Waiting', pipe', batch')
    <3>1. SUFFICES ASSUME d \in WaitingIn(Waiting', pipe', batch') PROVE FALSE
      OBVIOUS
    <3>2. PICK x : /\ IsPlace(hand', Waiting', pipe', batch', connectList', closed', d, x)
                   /\ x[1] \in {"queue", "pipe", "batch"}
      BY <1>2, <1>3, <3>1, WaitingPlaces
    <3>3. d \in connectList'[t]
      BY <1>2, <2>1
    <3>4. IsPlace(hand', Waiting', pipe', batch', connectList', closed', d, <<"served", t, 0>>)
      BY <3>3 DEF IsPlace
    <3>5. At(d, x)' /\ At(d, <<"served", t, 0>>)'
      BY <3>2, <3>4 DEF At, IsPlace
    <3>6. x = <<"served", t, 0>>
      BY <2>3, <3>5 DEF Unique
    <3>. QED
      BY <3>2, <3>6
  <2>6. d \notin ServedIn(connectList)
    <3>1. SUFFICES ASSUME d \in ServedIn(connectList) PROVE FALSE
      OBVIOUS
    <3>2. PICK u \in Threads : At(d, <<"served", u, 0>>)
      BY <1>2, <3>1, WaitingPlaces DEF At
    <3>3. Head(batch[t]) = batch[t][1] /\ 1 \in 1..Len(batch[t])
      <4>1. batch[t] \in Seq(Items)
        BY <1>2
      <4>. QED
        BY <2>2, <4>1, HeadTailProperties
    <3>4. At(d, <<"batch", t, 1>>)
      BY <2>0, <3>3 DEF At, IsPlace
    <3>. QED
      BY <2>3, <3>2, <3>4 DEF Unique
  <2>7. Waits' = Waits - 1
    <3>1. WaitingIn(Waiting, pipe, batch) = WaitingIn(Waiting', pipe', batch') \cup {d}
      BY <1>3, <2>1, <2>4 DEF WaitingIn
    <3>2. WaitingIn(Waiting', pipe', batch') = WaitingIn(Waiting, pipe, batch) \ {d}
          /\ d \in WaitingIn(Waiting, pipe, batch)
      BY <2>5, <3>1
    <3>. QED
      BY <1>1, <1>4, <3>2, CountLemma DEF Waits, Count
  <2>8. Serves' = Serves + 1
    <3>1. ServedIn(connectList') = ServedIn(connectList) \cup {d}
      <4>1. connectList'[t] = connectList[t] \cup {d} /\ \A u \in Threads \ {t} : connectList'[u] = connectList[u]
        BY <1>2, <2>1
      <4>. QED
        BY <4>1 DEF ServedIn
    <3>. QED
      BY <1>1, <1>4, <2>3, <2>6, <3>1, CountLemma DEF Serves, Count
  <2>9. TakenOver' = TakenOver - 1 /\ Finishing' = Finishing
    BY <1>1, <2>1, ThreadMoves
  <2>10. WaitTotal' = WaitTotal /\ HandingTotal' = HandingTotal
    <3>1. /\ Word + (Waits - 1) - (TakenOver - 1) - Unreported = Word + Waits - TakenOver - Unreported
          /\ (Serves + 1) + (TakenOver - 1) - Finishing = Serves + TakenOver - Finishing
      BY <1>1
    <3>. QED
      BY <1>3, <2>7, <2>8, <2>9, <3>1 DEF WaitTotal, HandingTotal
  <2>. QED
    BY <1>3, <2>1, <2>10 DEF Totals, recordVars
<1>14. ASSUME RemoveConnection(t) PROVE Totals'
  <2>0. PICK d : d = closing[t]
    OBVIOUS
  <2>1. /\ GoTo(t, "remove", "signal") /\ connectList' = [connectList EXCEPT ![t] = connectList[t] \ {d}]
        /\ UNCHANGED <<pipe, batch, recordVars>>
    BY <1>14, <2>0 DEF RemoveConnection
  <2>2. d \in connectList[t]
    BY <1>5, <2>0, <2>1 DEF ClosingOK
  <2>3. d \in Clients /\ d \in ServedIn(connectList)
    BY <1>2, <2>2 DEF ServedIn
  <2>4. ASSUME NEW u \in Threads \ {t} PROVE d \notin connectList[u]
    <3>1. SUFFICES ASSUME d \in connectList[u] PROVE FALSE
      OBVIOUS
    <3>2. At(d, <<"served", t, 0>>) /\ At(d, <<"served", u, 0>>)
      BY <2>2, <3>1 DEF At, IsPlace
    <3>3. <<"served", t, 0>> = <<"served", u, 0>>
      BY <2>3, <3>2 DEF Unique
    <3>. QED
      BY <2>4, <3>3
  <2>5. Serves' = Serves - 1
    <3>1. ServedIn(connectList') = ServedIn(connectList) \ {d}
      <4>1. connectList'[t] = connectList[t] \ {d} /\ \A u \in Threads \ {t} : connectList'[u] = connectList[u]
        BY <1>2, <2>1
      <4>. QED
        BY <2>4, <4>1 DEF ServedIn
    <3>. QED
      BY <1>1, <1>4, <2>3, <3>1, CountLemma DEF Serves, Count
  <2>6. TakenOver' = TakenOver /\ Finishing' = Finishing - 1
    BY <1>1, <2>1, ThreadMoves
  <2>7. Waits' = Waits
    BY <1>3, <1>4, <2>1 DEF Waits
  <2>8. WaitTotal' = WaitTotal /\ HandingTotal' = HandingTotal
    <3>1. (Serves - 1) + TakenOver - (Finishing - 1) = Serves + TakenOver - Finishing
      BY <1>1
    <3>. QED
      BY <1>3, <2>5, <2>6, <2>7, <3>1 DEF WaitTotal, HandingTotal
  <2>. QED
    BY <1>3, <2>1, <2>8 DEF Totals, recordVars
<1>. QED
  BY <1>8, <1>9, <1>10, <1>11, <1>12, <1>13, <1>14 DEF ThreadStep, ConnectionEvent

(* The totals follow the manager.                                           *)
LEMMA ManagerTotals ==
  ASSUME TypeOK, PoppedOK, Totals, ManagerStep \/ SpuriousWake \/ HandleSignal \/ SignalStop
  PROVE  Totals'
<1>1. /\ WaitTotal \in Int /\ GlobalTotal \in Int /\ HandingTotal \in Int
      /\ Unqueued \in Nat /\ Len(taskQueue) \in Nat /\ Word \in Nat
  BY TotalsType, Bounds
<1>2. taskQueue \in Seq(Clients) /\ Waiting \in Seq(Clients) /\ pipe \in [Threads -> Seq(Items)]
      /\ fill \in Threads
  BY WaitingType DEF TypeOK, Items
<1>3. UNCHANGED <<Serves, TakenOver, Finishing, HandingTotal, batch>>
  <2>1. UNCHANGED <<tpc, connectList, batch>>
    BY ManagerTypes DEF connections
  <2>. QED
    BY <2>1 DEF Serves, TakenOver, Finishing, HandingTotal
<1>4. apc' = apc => UNCHANGED <<Unreported, Unqueued>>
  BY DEF Unreported, Unqueued, InStates
<1>5. Waits' = Cardinality(WaitingIn(Waiting', pipe', batch'))
  BY DEF Waits, WaitingIn, NsOf
<1>6. ASSUME UNCHANGED <<taskQueue, popped, pipe, recordVars, Unreported, Unqueued, Leaving>>
      PROVE  Totals'
  <2>1. Waits' = Waits
    BY <1>3, <1>5, <1>6 DEF Waits, Waiting
  <2>. QED
    BY <1>3, <1>6, <2>1 DEF Totals, WaitTotal, GlobalTotal, recordVars
<1>. USE DEF Manager, threadVars, acceptVars, allocVars, recordVars
<1>7. ASSUME TestStop \/ TestWork \/ Park \/ SpuriousWake \/ StopAccept \/ FillThread \/ NextThread
             \/ Spill \/ AllocTaskReturns
      PROVE  Totals'
  <2>1. mpc \notin {"hand", "out"} /\ mpc' \notin {"hand", "out"}
        /\ UNCHANGED <<apc, taskQueue, popped, pipe, recordVars>>
    BY <1>7 DEF TestStop, TestWork, Park, SpuriousWake, StopAccept, FillThread, NextThread, Spill,
                AllocTaskReturns, ManagerOnly
  <2>. QED
    BY <1>4, <1>6, <2>1 DEF Leaving
<1>8. ASSUME HandleSignal \/ SignalStop PROVE Totals'
  <2>1. mpc' \in {mpc, Signalled} /\ UNCHANGED <<apc, taskQueue, popped, pipe, recordVars>>
    BY <1>8 DEF HandleSignal, SignalStop, ManagerOnly
  <2>. QED
    BY <1>4, <1>6, <2>1, LeavingSame
<1>9. ASSUME PopTask PROVE Totals'
  <2>1. /\ mpc = "pop" /\ mpc' = "hand" /\ taskQueue' = Tail(taskQueue)
        /\ UNCHANGED <<apc, pipe, waitSum, handingSum, globalSum>>
    BY <1>9 DEF PopTask
  <2>2. taskQueue # <<>>
    BY <2>1 DEF PoppedOK
  <2>3. Len(taskQueue') = Len(taskQueue) - 1
    BY <1>2, <2>1, <2>2, HeadTailProperties
  <2>4. Leaving = 0 /\ Leaving' = 1
    BY <2>1 DEF Leaving
  <2>5. Waits' = Waits
    BY <1>3, <1>5, <1>9, <2>1, PopWaiting DEF Waits
  <2>6. UNCHANGED <<WaitTotal, GlobalTotal>>
    <3>1. Word + (Len(taskQueue) - 1) + 1 - Unqueued = Word + Len(taskQueue) + 0 - Unqueued
      BY <1>1
    <3>. QED
      BY <1>3, <1>4, <2>1, <2>3, <2>4, <2>5, <3>1 DEF WaitTotal, GlobalTotal
  <2>. QED
    BY <1>3, <2>1, <2>6 DEF Totals
<1>10. ASSUME HandOver PROVE Totals'
  <2>1. PICK d \in Clients : d = Head(Waiting) /\ d = Head(popped)
    BY <1>10, HandWaiting
  <2>2. /\ mpc = "hand" /\ mpc' = "out" /\ pipe' = [pipe EXCEPT ![fill] = Append(pipe[fill], Content(d))]
        /\ UNCHANGED <<apc, taskQueue, waitSum, handingSum, globalSum>>
    BY <1>10, <2>1 DEF HandOver
  <2>3. Range(Waiting) = Range(Waiting') \cup {d}
    <3>1. Waiting # <<>> /\ Waiting' = Tail(Waiting)
      BY <1>10, HandWaiting
    <3>. QED
      BY <1>2, <2>1, <3>1, NsSeqLemma
  <2>4. NsOf(pipe') = NsOf(pipe) \cup {d}
    <3>1. Content(d) \in Items /\ Content(d).ns = d
      BY DEF Content, Items
    <3>2. /\ NsOf(pipe) = NsRest(pipe, fill) \cup NsSeq(pipe[fill])
          /\ \A s : NsOf([pipe EXCEPT ![fill] = s]) = NsRest(pipe, fill) \cup NsSeq(s)
          /\ \A x \in Items : NsSeq(Append(pipe[fill], x)) = NsSeq(pipe[fill]) \cup {x.ns}
      BY <1>2, NsLemma
    <3>3. NsOf(pipe') = NsRest(pipe, fill) \cup NsSeq(Append(pipe[fill], Content(d)))
      BY <2>2, <3>2, Zenon
    <3>4. NsSeq(Append(pipe[fill], Content(d))) = NsSeq(pipe[fill]) \cup {d}
      BY <3>1, <3>2
    <3>. QED
      BY <3>2, <3>3, <3>4
  <2>5. Waits' = Waits
    <3>1. WaitingIn(Waiting', pipe', batch') = WaitingIn(Waiting, pipe, batch)
      BY <1>3, <2>3, <2>4 DEF WaitingIn
    <3>. QED
      BY <1>5, <3>1 DEF Waits
  <2>6. Leaving' = Leaving
    BY <2>2 DEF Leaving
  <2>. QED
    BY <1>3, <1>4, <2>2, <2>5, <2>6 DEF Totals, WaitTotal, GlobalTotal
<1>11. ASSUME RecordOutGlobalQueue PROVE Totals'
  <2>1. /\ mpc = "out" /\ mpc' = "alloc" /\ globalSum' = Dec(globalSum)
        /\ UNCHANGED <<apc, taskQueue, popped, pipe, waitSum, handingSum>>
    BY <1>11 DEF RecordOutGlobalQueue
  <2>2. Leaving = 1 /\ Leaving' = 0
    BY <2>1 DEF Leaving
  <2>3. Waits' = Waits
    BY <1>3, <1>5, <2>1 DEF Waits, Waiting
  <2>4. GlobalTotal' = GlobalTotal - 1
    <3>1. Word + Len(taskQueue) + 0 - Unqueued = Word + Len(taskQueue) + 1 - Unqueued - 1
      BY <1>1
    <3>. QED
      BY <1>1, <1>4, <2>1, <2>2, <3>1 DEF GlobalTotal
  <2>5. WaitTotal' = WaitTotal
    BY <1>3, <1>4, <2>1, <2>3 DEF WaitTotal
  <2>. QED
    BY <1>3, <2>1, <2>4, <2>5, TotalsFollow DEF Follows
<1>12. ASSUME JoinAcceptors PROVE Totals'
  <2>1. /\ \A a \in Acceptors : apc[a] = "accept"
        /\ apc' = [a \in Acceptors |-> "joined"] /\ mpc = "join" /\ mpc' = "done"
        /\ UNCHANGED <<taskQueue, popped, pipe, recordVars>>
    BY <1>12 DEF JoinAcceptors
  <2>2. /\ {a \in Acceptors : apc[a] \in {"global", "record"}} = {}
        /\ {a \in Acceptors : apc'[a] \in {"global", "record"}} = {}
        /\ {a \in Acceptors : apc[a] \in {"global"}} = {}
        /\ {a \in Acceptors : apc'[a] \in {"global"}} = {}
    BY <2>1
  <2>3. UNCHANGED <<Unreported, Unqueued, Leaving>>
    BY <2>1, <2>2 DEF Unreported, Unqueued, InStates, Leaving
  <2>. QED
    BY <1>6, <2>1, <2>3
<1>. QED
  BY <1>7, <1>8, <1>9, <1>10, <1>11, <1>12 DEF ManagerStep

-----------------------------------------------------------------------------
(* The invariant.                                                           *)

(* It holds at first.                                                       *)
LEMMA InitInv == Init => Inv
<1>1. SUFFICES ASSUME Init PROVE Inv
  OBVIOUS
<1>2. TypeOK
  <2>1. Word \in Nat /\ Word >= 1 /\ 1 \in Threads
    BY Bounds
  <2>2. 0 \in 0..(Word - 1)
    BY <2>1
  <2>3. /\ pipe \in [Threads -> Seq([ns : Clients, isAddress : BOOLEAN])]
        /\ batch \in [Threads -> Seq([ns : Clients, isAddress : BOOLEAN])]
        /\ wait \in [Threads -> 0..(Word - 1)] /\ doing \in [Threads -> 0..(Word - 1)]
        /\ fail \in [Threads -> 0..(Word - 1)]
        /\ timers \in [Threads -> SUBSET Clients] /\ closing \in [Threads -> Clients \cup {NULL}]
        /\ connectList \in [Threads -> SUBSET Clients]
        /\ {waitSum, handingSum, globalSum} \subseteq 0..(Word - 1)
    BY <1>1, <2>2 DEF Init
  <2>4. taskQueue \in Seq(Clients) /\ popped \in Seq(Clients) /\ failed \in SUBSET Clients /\ closed \in SUBSET Clients /\ fill \in Threads
    BY <1>1, <2>1 DEF Init
  <2>5. stop \in BOOLEAN /\ stoped \in BOOLEAN /\ signalling \in BOOLEAN /\ wild \in BOOLEAN
    BY <1>1, Zenon DEF Init
  <2>6. /\ apc \in [Acceptors -> {"accept", "size", "choose", "write", "queue", "global",
                            "record", "joined"}]
        /\ hand \in [Acceptors -> Clients \cup {NULL}]
        /\ target \in [Acceptors -> Threads \cup {NULL}]
        /\ tpc \in [Threads -> {"loop", "start", "attach", "doing", "recv", "done", "remove",
                            "signal", "fail", "retry", "freed"}]
        /\ mpc \in {"while", "test", "park", "waiting", "woken", "alloc", "pop", "hand", "out",
              "join", "done"}
        /\ loop \in {"fill", "spill"}
    BY <1>1 DEF Init
  <2>. QED
    BY <2>3, <2>4, <2>5, <2>6 DEF TypeOK
<1>3. HandsOK /\ BatchOK /\ PoppedOK /\ ClosingOK /\ TimersOK
  BY <1>1, Bounds DEF Init, HandsOK, BatchOK, PoppedOK, ClosingOK, TimersOK
<1>4. Unique
  <2>1. SUFFICES ASSUME NEW c \in Clients, NEW x, At(c, x) PROVE FALSE
    BY DEF Unique
  <2>2. c # NULL
    BY Bounds
  <2>3. Len(Waiting) = 0 /\ \A t \in Threads : Len(pipe[t]) = 0 /\ Len(batch[t]) = 0
    <3>1. Waiting = <<>> \o <<>>
      BY <1>1 DEF Init, Waiting
    <3>2. Waiting = <<>>
      BY <3>1
    <3>. QED
      BY <1>1, <3>2 DEF Init
  <2>4. \A i : i \notin 1..0
    OBVIOUS
  <2>. QED
    BY <1>1, <2>1, <2>2, <2>3, <2>4 DEF At, IsPlace, Init
<1>5. OnePlace
  BY <1>2, <1>4, OnePlaceLemma DEF Unique, At
<1>6. CountersOK
  <2>1. Count({}) = 0 /\ 0 % Word = 0
    BY FS_EmptySet, SmallMod, Bounds DEF Count
  <2>2. 0 - 0 - 0 = 0 /\ 0 - 0 = 0
    OBVIOUS
  <2>3. ASSUME NEW t \in Threads
        PROVE  /\ tpc[t] = "loop" /\ wait[t] = 0 /\ doing[t] = 0 /\ fail[t] = 0
               /\ connectList[t] = {} /\ timers[t] = {}
    BY <1>1, <2>3 DEF Init
  <2>. QED
    BY <2>1, <2>2, <2>3 DEF CountersOK, Counts
<1>7. Totals
  <2>1. WaitingIn(Waiting, pipe, batch) = {} /\ ServedIn(connectList) = {}
    <3>1. \A t \in Threads : pipe[t] = <<>> /\ batch[t] = <<>> /\ connectList[t] = {}
      BY <1>1 DEF Init
    <3>2. Range(<<>>) = {} /\ NsSeq(<<>>) = {}
      BY DEF NsSeq, Range
    <3>3. NsOf(pipe) = {} /\ NsOf(batch) = {}
      BY <3>1, <3>2 DEF NsOf
    <3>4. Waiting = <<>> \o <<>>
      BY <1>1 DEF Init, Waiting
    <3>5. Waiting = <<>>
      BY <3>4
    <3>. QED
      BY <3>1, <3>2, <3>3, <3>5 DEF WaitingIn, ServedIn
  <2>2. /\ {a \in Acceptors : apc[a] \in {"global", "record"}} = {}
        /\ {a \in Acceptors : apc[a] \in {"global"}} = {}
        /\ {t \in Threads : tpc[t] \in {"attach", "doing"}} = {}
        /\ {t \in Threads : tpc[t] \in {"done", "remove"}} = {}
    BY <1>1 DEF Init
  <2>3. /\ Waits = 0 /\ Serves = 0 /\ Unreported = 0 /\ Unqueued = 0
        /\ TakenOver = 0 /\ Finishing = 0 /\ Leaving = 0
    BY <1>1, <2>1, <2>2, FS_EmptySet
    DEF Waits, Serves, Unreported, Unqueued, TakenOver, Finishing, Leaving, InStates, Init
  <2>4. Len(taskQueue) = 0 /\ waitSum = 0 /\ globalSum = 0 /\ handingSum = 0
    BY <1>1 DEF Init
  <2>5. 0 % Word = 0 /\ (Word + 0) % Word = 0
    BY Bounds, SmallMod
  <2>6. WaitTotal = Word + 0 /\ GlobalTotal = Word + 0 /\ HandingTotal = 0
    <3>1. Word + 0 - 0 - 0 = Word + 0 /\ Word + 0 + 0 - 0 = Word + 0 /\ 0 + 0 - 0 = 0
      BY Bounds
    <3>. QED
      BY <2>3, <2>4, <3>1 DEF WaitTotal, GlobalTotal, HandingTotal
  <2>. QED
    BY <2>4, <2>5, <2>6 DEF Totals
<1>. QED
  BY <1>2, <1>3, <1>5, <1>6, <1>7, TotalsLemma DEF Inv

(* Every step keeps it.                                                     *)
LEMMA InvStep == Inv /\ [Next]_vars => Inv'
<1>1. SUFFICES ASSUME Inv, [Next]_vars PROVE Inv'
  OBVIOUS
<1>2. TypeOK /\ HandsOK /\ PoppedOK /\ BatchOK /\ ClosingOK /\ TimersOK /\ CountersOK /\ OnePlace
      /\ RecordsAddUp
  BY <1>1 DEF Inv
<1>3. Unique
  BY <1>2, OnePlaceLemma DEF Unique, At
<1>4. Totals
  BY <1>2, TotalsLemma
<1>5. Unique'
  BY <1>1, <1>2, <1>3, UniqueStep
<1>6. PoppedOK'
  BY <1>1, <1>2, PoppedStep
<1>7. (UNCHANGED <<tpc, batch, counters, connections, closed>>)
        => BatchOK' /\ ClosingOK' /\ TimersOK' /\ CountersOK'
  BY <1>2 DEF BatchOK, ClosingOK, TimersOK, CountersOK, Counts, Count, counters, connections
<1>. DEFINE Goal == /\ TypeOK' /\ HandsOK' /\ BatchOK' /\ ClosingOK' /\ TimersOK' /\ CountersOK'
                    /\ Totals'
<1>8. ASSUME NEW a \in Acceptors, Accept(a) \/ AcceptorStep(a) PROVE Goal
  <2>1. TypeOK' /\ HandsOK'
    BY <1>2, <1>8, AcceptorTypes
  <2>2. UNCHANGED <<tpc, batch, counters, connections, closed>>
    BY <1>8 DEF Accept, AcceptorStep, TestSize, ChooseThread, WriteSocketPair, AddTask,
                RecordGlobalQueue, RecordAccept, threadVars
  <2>3. Totals'
    BY <1>2, <1>3, <1>4, <1>8, AcceptorTotals
  <2>. QED
    BY <1>7, <2>1, <2>2, <2>3
<1>9. ASSUME NEW t \in Threads, ThreadStep(t) \/ ConnectionEvent(t) PROVE Goal
  <2>1. TypeOK'
    BY <1>2, <1>9, ThreadType
  <2>2. BatchOK' /\ ClosingOK' /\ TimersOK'
    BY <1>2, <1>9, ThreadLists
  <2>3. CountersOK'
    BY <1>2, <1>3, <1>9, ThreadCounts
  <2>4. HandsOK'
    BY <1>2, <1>9, ThreadFrame DEF HandsOK, acceptVars
  <2>5. Totals'
    BY <1>2, <1>3, <1>4, <1>9, <2>1, ThreadTotals
  <2>. QED
    BY <2>1, <2>2, <2>3, <2>4, <2>5
<1>10. ASSUME ManagerStep \/ SpuriousWake \/ HandleSignal \/ SignalStop PROVE Goal
  <2>1. TypeOK' /\ HandsOK' /\ UNCHANGED <<tpc, batch, counters, connections, closed>>
    BY <1>2, <1>10, ManagerTypes
  <2>2. Totals'
    BY <1>2, <1>4, <1>10, ManagerTotals
  <2>. QED
    BY <1>7, <2>1, <2>2
<1>11. ASSUME UNCHANGED vars PROVE Goal
  <2>. USE DEF vars, acceptVars, threadVars, managerVars, allocVars, stopVars, recordVars
  <2>1. TypeOK'
    BY <1>2, <1>11 DEF TypeOK, counters, connections
  <2>2. HandsOK' /\ BatchOK' /\ ClosingOK' /\ TimersOK' /\ CountersOK'
    BY <1>2, <1>7, <1>11 DEF HandsOK
  <2>3. RecordsAddUp'
    BY <1>2, <1>11 DEF RecordsAddUp, Queued, Waiting, InPipe, InBatch, Served, connections
  <2>. QED
    BY <2>1, <2>2, <2>3, TotalsLemma
<1>12. Goal
  BY <1>1, <1>8, <1>9, <1>10, <1>11 DEF Next
<1>13. OnePlace' /\ RecordsAddUp'
  BY <1>5, <1>12, OnePlaceAfter, TotalsLemma
<1>. QED
  BY <1>6, <1>12, <1>13 DEF Inv

(* The inductive invariant: who holds a client, what the manager has popped, *)
(* what a thread has read, ends or waits for, what its counters stand for,   *)
(* and the totals.                                                           *)
THEOREM InvHolds == Spec => []Inv
<1>. QED
  BY InitInv, InvStep, PTL DEF Spec

(* Each variable keeps its type; the counters never leave their word.       *)
THEOREM TypeCorrect == Spec => []TypeOK
<1>1. Inv => TypeOK
  BY DEF Inv
<1>. QED
  BY <1>1, InvHolds, PTL

(* A client is in one place, for any number of clients, accept threads and  *)
(* client threads (accept_clientRequest, alloc_task, read_clientSocket).    *)
THEOREM OnePlaceHolds == Spec => []OnePlace
<1>1. Inv => OnePlace
  BY DEF Inv
<1>. QED
  BY <1>1, InvHolds, PTL

(* What get_minTaskThread adds up is the number of a thread's connections,  *)
(* or one less between the two halves of a change of its counters           *)
(* (doing_connection, recv_connection, done_connection,                     *)
(* doing_failConnection, retry_failConnection).                             *)
THEOREM TaskNumLagsHolds == Spec => []TaskNumLags
<1>1. Inv => TaskNumLags
  <2>1. SUFFICES ASSUME Inv, NEW t \in Threads
                 PROVE TaskNum(t) = (Word + Count(connectList[t])
                   - IF tpc[t] \in {"doing", "recv", "remove", "fail", "retry", "freed"}
                     THEN 1 ELSE 0) % Word
    BY DEF TaskNumLags
  <2>. DEFINE l == Count(connectList[t])
              m == Count(timers[t])
              w == IF tpc[t] \in {"doing", "recv"} THEN Word - 1 ELSE 0
              g == IF tpc[t] \in {"remove", "retry", "freed"} THEN 1 ELSE 0
              s == IF tpc[t] = "fail" THEN 1 ELSE 0
  <2>2. l \in Nat /\ m \in Nat /\ Word \in Nat
    <3>1. connectList[t] \in SUBSET Clients /\ timers[t] \in SUBSET Clients
      BY <2>1 DEF Inv, TypeOK
    <3>. QED
      BY <3>1, CountLemma, Bounds
  <2>3. wait[t] = w /\ doing[t] = (l - m - g) % Word /\ fail[t] = m - s
    BY <2>1 DEF Inv, CountersOK, Counts
  <2>4. /\ w \in Int /\ g \in Int /\ s \in Int
        /\ w - g - s = IF tpc[t] \in {"doing", "recv"} THEN Word - 1
                      ELSE IF tpc[t] \in {"remove", "fail", "retry", "freed"} THEN -1 ELSE 0
    BY <2>2
  <2>. HIDE DEF l, m, w, g, s
  <2>5. TaskNum(t) = (l + (w - g - s)) % Word
    <3>. DEFINE r == (l - m - g) % Word
    <3>1. l - m - g \in Int /\ w + (m - s) \in Int /\ r \in Int
      BY <2>2, <2>4, ModLemma
    <3>2. (r + (w + (m - s))) % Word = ((l - m - g) + (w + (m - s))) % Word
      BY <3>1, ModSum
    <3>3. TaskNum(t) = (w + r + (m - s)) % Word
      BY <2>3 DEF TaskNum
    <3>. HIDE DEF r
    <3>4. w + r + (m - s) = r + (w + (m - s))
      BY <2>2, <2>4, <3>1
    <3>5. (l - m - g) + (w + (m - s)) = l + (w - g - s)
      BY <2>2, <2>4
    <3>. QED
      BY <3>2, <3>3, <3>4, <3>5
  <2>6. CASE tpc[t] \in {"doing", "recv"}
    <3>1. l + (w - g - s) = Word + l - 1
      BY <2>2, <2>4, <2>6
    <3>. QED
      BY <2>5, <2>6, <3>1 DEF l
  <2>7. CASE tpc[t] \in {"remove", "fail", "retry", "freed"}
    <3>1. l + (w - g - s) = l - 1 /\ l - 1 \in Int /\ Word + (l - 1) = Word + l - 1
      BY <2>2, <2>4, <2>7
    <3>2. TaskNum(t) = (Word + l - 1) % Word
      BY <2>5, <3>1, ModSum
    <3>. QED
      BY <2>7, <3>2 DEF l
  <2>8. CASE tpc[t] \notin {"doing", "recv", "remove", "fail", "retry", "freed"}
    <3>1. l + (w - g - s) = l /\ l \in Int /\ Word + l - 0 = Word + l
      BY <2>2, <2>4, <2>8
    <3>2. TaskNum(t) = (Word + l - 0) % Word
      BY <2>5, <3>1, ModSum
    <3>. QED
      BY <2>8, <3>2 DEF l
  <2>. QED
    BY <2>6, <2>7, <2>8
<1>. QED
  BY <1>1, InvHolds, PTL

(* The totals of record.cpp are what the lists say, corrected by the        *)
(* reports that are on their way or came early (record_acceptClient,        *)
(* record_inGlobalQueue, record_outGlobalQueue, record_startHandingConn,    *)
(* record_closeClientConn).                                                 *)
THEOREM RecordsHold == Spec => []RecordsAddUp
<1>1. Inv => RecordsAddUp
  BY DEF Inv
<1>. QED
  BY <1>1, InvHolds, PTL

-----------------------------------------------------------------------------
(* The lines of the clients.                                                *)

(* Two sequences with the same elements.                                    *)
LEMMA SameSeq ==
  ASSUME NEW S, NEW u \in Seq(S), NEW v \in Seq(S), Len(u) = Len(v),
         \A i \in 1..Len(u) : u[i] = v[i]
  PROVE  u = v
<1>1. /\ u \in [1..Len(u) -> S] /\ v \in [1..Len(v) -> S]
  BY LenProperties
<1>. QED
  BY <1>1

(* A function on the first numbers is a sequence.                           *)
LEMMA FunctionSeq ==
  ASSUME NEW S, NEW n \in Nat, NEW f \in [1..n -> S]
  PROVE  f \in Seq(S)
<1>1. f = [i \in 1..n |-> f[i]] /\ \A i \in 1..n : f[i] \in S
  OBVIOUS
<1>2. [i \in 1..n |-> f[i]] \in Seq(S)
  BY <1>1, IsASeq
<1>. QED
  BY <1>1, <1>2

(* The names in a list, one by one.                                         *)
LEMMA NamesLemma ==
  ASSUME NEW s \in Seq(Items)
  PROVE  /\ Names(s) \in Seq(Clients) /\ Len(Names(s)) = Len(s) /\ Len(s) \in Nat
         /\ \A i \in 1..Len(s) : Names(s)[i] = s[i].ns
<1>1. Len(s) \in Nat /\ \A i \in 1..Len(s) : s[i].ns \in Clients
  <2>1. Len(s) \in Nat /\ \A i \in 1..Len(s) : s[i] \in Items
    BY LenProperties
  <2>2. \A x \in Items : x.ns \in Clients
    BY DEF Items
  <2>. QED
    BY <2>1, <2>2
<1>2. Names(s) \in [1..Len(s) -> Clients] /\ \A i \in 1..Len(s) : Names(s)[i] = s[i].ns
  BY <1>1 DEF Names
<1>. HIDE DEF Names
<1>3. Names(s) \in Seq(Clients) /\ Len(Names(s)) = Len(s)
  <2>1. Names(s) \in Seq(Clients)
    BY <1>1, <1>2, FunctionSeq
  <2>2. DOMAIN Names(s) = 1..Len(s) /\ DOMAIN Names(s) = 1..Len(Names(s)) /\ Len(Names(s)) \in Nat
    BY <1>2, <2>1, LenProperties
  <2>. QED
    BY <1>1, <2>1, <2>2
<1>. QED
  BY <1>1, <1>2, <1>3

(* Who is written to a socket pair stands at the end of the line.           *)
LEMMA LineAppend ==
  ASSUME NEW b \in Seq(Items), NEW p \in Seq(Items), NEW x \in Items
  PROVE  Names(b \o Append(p, x)) = Append(Names(b \o p), x.ns)
<1>. DEFINE q == Append(p, x)
            u == b \o q
            w == b \o p
<1>1. /\ q \in Seq(Items) /\ Len(q) = Len(p) + 1 /\ Len(p) \in Nat /\ Len(b) \in Nat
      /\ \A i \in 1..Len(p) : q[i] = p[i]
      /\ q[Len(p) + 1] = x
  BY AppendProperties, LenProperties
<1>. HIDE DEF q
<1>2. /\ u \in Seq(Items) /\ Len(u) = Len(b) + Len(q)
      /\ \A i \in 1..(Len(b) + Len(q)) : u[i] = IF i <= Len(b) THEN b[i] ELSE q[i - Len(b)]
      /\ w \in Seq(Items) /\ Len(w) = Len(b) + Len(p)
      /\ \A i \in 1..(Len(b) + Len(p)) : w[i] = IF i <= Len(b) THEN b[i] ELSE p[i - Len(b)]
  BY <1>1, ConcatProperties
<1>. HIDE DEF u, w
<1>3. /\ Len(u) = Len(w) + 1 /\ Len(w) \in Nat /\ u[Len(w) + 1] = x
      /\ \A i \in 1..Len(w) : u[i] = w[i]
  <2>1. Len(u) = Len(w) + 1 /\ Len(w) \in Nat
    BY <1>1, <1>2
  <2>2. u[Len(w) + 1] = q[Len(p) + 1]
    <3>1. Len(w) + 1 \in 1..(Len(b) + Len(q)) /\ ~(Len(w) + 1 <= Len(b)) /\ Len(w) + 1 - Len(b) = Len(p) + 1
      BY <1>1, <1>2
    <3>. QED
      BY <1>2, <3>1
  <2>3. ASSUME NEW i \in 1..Len(w) PROVE u[i] = w[i]
    <3>1. i \in 1..(Len(b) + Len(q)) /\ i \in 1..(Len(b) + Len(p))
      BY <1>1, <1>2
    <3>2. CASE i <= Len(b)
      BY <1>2, <3>1, <3>2
    <3>3. CASE ~(i <= Len(b))
      <4>1. i - Len(b) \in 1..Len(p)
        BY <1>1, <1>2, <3>3
      <4>2. q[i - Len(b)] = p[i - Len(b)]
        BY <1>1, <4>1
      <4>. QED
        BY <1>2, <3>1, <3>3, <4>2
    <3>. QED
      BY <3>2, <3>3
  <2>. QED
    BY <1>1, <2>1, <2>2, <2>3
<1>4. /\ Names(u) \in Seq(Clients) /\ Len(Names(u)) = Len(u)
      /\ \A i \in 1..Len(u) : Names(u)[i] = u[i].ns
      /\ Names(w) \in Seq(Clients) /\ Len(Names(w)) = Len(w)
      /\ \A i \in 1..Len(w) : Names(w)[i] = w[i].ns
  BY <1>2, NamesLemma
<1>5. x.ns \in Clients
  BY DEF Items
<1>. DEFINE a == Append(Names(w), x.ns)
<1>6. /\ a \in Seq(Clients) /\ Len(a) = Len(w) + 1 /\ a[Len(w) + 1] = x.ns
      /\ \A i \in 1..Len(w) : a[i] = Names(w)[i]
  BY <1>4, <1>5, AppendProperties
<1>. HIDE DEF a
<1>7. \A i \in 1..Len(u) : i = Len(w) + 1 \/ i \in 1..Len(w)
  BY <1>3
<1>8. ASSUME NEW i \in 1..Len(u) PROVE Names(u)[i] = a[i]
  <2>1. CASE i = Len(w) + 1
    BY <1>3, <1>4, <1>6, <2>1
  <2>2. CASE i \in 1..Len(w)
    BY <1>3, <1>4, <1>6, <2>2
  <2>. QED
    BY <1>7, <2>1, <2>2
<1>9. Names(u) = a
  BY <1>3, <1>4, <1>6, <1>8, SameSeq
<1>. QED
  BY <1>9 DEF a, u, w, q

(* Who is taken from what was read stands at the front.                     *)
LEMMA LineTail ==
  ASSUME NEW b \in Seq(Items), NEW p \in Seq(Items), b # <<>>
  PROVE  /\ Names(b \o p) # <<>> /\ Head(Names(b \o p)) = Head(b).ns
         /\ Names(Tail(b) \o p) = Tail(Names(b \o p))
<1>. DEFINE r == Tail(b)
            u == r \o p
            w == b \o p
<1>1. /\ r \in Seq(Items) /\ Len(r) = Len(b) - 1 /\ Len(p) \in Nat /\ Len(b) \in Nat \ {0}
      /\ \A i \in 1..Len(r) : r[i] = b[i + 1]
      /\ Head(b) = b[1]
  <2>1. Len(b) \in Nat \ {0} /\ Len(p) \in Nat
    BY EmptySeq, LenProperties
  <2>2. Head(b) = b[1]
    OBVIOUS
  <2>. QED
    BY <2>1, <2>2, HeadTailProperties
<1>. HIDE DEF r
<1>2. /\ u \in Seq(Items) /\ Len(u) = Len(r) + Len(p)
      /\ \A i \in 1..(Len(r) + Len(p)) : u[i] = IF i <= Len(r) THEN r[i] ELSE p[i - Len(r)]
      /\ w \in Seq(Items) /\ Len(w) = Len(b) + Len(p)
      /\ \A i \in 1..(Len(b) + Len(p)) : w[i] = IF i <= Len(b) THEN b[i] ELSE p[i - Len(b)]
  BY <1>1, ConcatProperties
<1>. HIDE DEF u, w
<1>3. /\ Len(w) = Len(u) + 1 /\ Len(u) \in Nat /\ w[1] = b[1]
      /\ \A i \in 1..Len(u) : u[i] = w[i + 1]
  <2>1. Len(w) = Len(u) + 1 /\ Len(u) \in Nat
    BY <1>1, <1>2
  <2>2. w[1] = b[1]
    <3>1. 1 \in 1..(Len(b) + Len(p)) /\ 1 <= Len(b)
      BY <1>1
    <3>. QED
      BY <1>2, <3>1
  <2>3. ASSUME NEW i \in 1..Len(u) PROVE u[i] = w[i + 1]
    <3>1. i \in 1..(Len(r) + Len(p)) /\ i + 1 \in 1..(Len(b) + Len(p))
      BY <1>1, <1>2
    <3>2. CASE i <= Len(r)
      <4>1. i \in 1..Len(r) /\ i + 1 <= Len(b)
        BY <1>1, <3>1, <3>2
      <4>. QED
        BY <1>1, <1>2, <3>1, <3>2, <4>1
    <3>3. CASE ~(i <= Len(r))
      <4>1. ~(i + 1 <= Len(b)) /\ i + 1 - Len(b) = i - Len(r)
        BY <1>1, <3>1, <3>3
      <4>. QED
        BY <1>2, <3>1, <3>3, <4>1
    <3>. QED
      BY <3>2, <3>3
  <2>. QED
    BY <2>1, <2>2, <2>3
<1>4. /\ Names(u) \in Seq(Clients) /\ Len(Names(u)) = Len(u)
      /\ \A i \in 1..Len(u) : Names(u)[i] = u[i].ns
      /\ Names(w) \in Seq(Clients) /\ Len(Names(w)) = Len(w)
      /\ \A i \in 1..Len(w) : Names(w)[i] = w[i].ns
  BY <1>2, NamesLemma
<1>5. Names(w) # <<>> /\ Head(Names(w)) = b[1].ns
  <2>1. Len(Names(w)) # 0 /\ 1 \in 1..Len(w)
    BY <1>3, <1>4
  <2>2. Names(w) # <<>>
    BY <2>1, EmptySeq
  <2>3. Head(Names(w)) = Names(w)[1]
    BY <1>4, <2>2
  <2>. QED
    BY <1>3, <1>4, <2>1, <2>2, <2>3
<1>. DEFINE a == Tail(Names(w))
<1>6. /\ a \in Seq(Clients) /\ Len(a) = Len(w) - 1
      /\ \A i \in 1..Len(a) : a[i] = Names(w)[i + 1]
  BY <1>4, <1>5, HeadTailProperties
<1>. HIDE DEF a
<1>7. Len(a) = Len(u) /\ \A i \in 1..Len(u) : i + 1 \in 1..Len(w)
  BY <1>3, <1>6
<1>8. ASSUME NEW i \in 1..Len(u) PROVE Names(u)[i] = a[i]
  <2>1. Names(u)[i] = u[i].ns /\ u[i] = w[i + 1]
    BY <1>3, <1>4
  <2>2. a[i] = Names(w)[i + 1] /\ Names(w)[i + 1] = w[i + 1].ns
    BY <1>4, <1>6, <1>7
  <2>. QED
    BY <2>1, <2>2
<1>9. Names(u) = a
  BY <1>4, <1>6, <1>7, <1>8, SameSeq
<1>. QED
  BY <1>1, <1>5, <1>9 DEF a, u, w, r

AllLines == [t \in Threads |-> Line(t)]
LinesVars == <<Held, Waiting, AllLines, connectList, closed>>

(* Steps that change no list of clients are stutters of the promise.        *)
LEMMA LinesStutter ==
  ASSUME UNCHANGED <<hand, Waiting, pipe, batch, connectList, closed>>
  PROVE  LinesVars' = LinesVars
BY DEF LinesVars, AllLines, Line, Held

(* A list that is as long as it was, or of one thread longer by a client.   *)
LEMMA LinesGrow ==
  ASSUME TypeOK, NEW t \in Threads, NEW x \in Items, batch' = batch,
         pipe' = [pipe EXCEPT ![t] = Append(pipe[t], x)]
  PROVE  AllLines' = [AllLines EXCEPT ![t] = Append(AllLines[t], x.ns)]
<1>1. pipe \in [Threads -> Seq(Items)] /\ batch \in [Threads -> Seq(Items)]
  BY DEF TypeOK, Items
<1>2. AllLines' = [u \in Threads |-> Names(batch[u] \o pipe'[u])]
  BY DEF AllLines, Line
<1>3. AllLines = [u \in Threads |-> Names(batch[u] \o pipe[u])]
  BY DEF AllLines, Line
<1>4. pipe'[t] = Append(pipe[t], x) /\ \A u \in Threads \ {t} : pipe'[u] = pipe[u]
  BY <1>1
<1>5. Names(batch[t] \o pipe'[t]) = Append(Names(batch[t] \o pipe[t]), x.ns)
  BY <1>1, <1>4, LineAppend
<1>6. AllLines[t] = Names(batch[t] \o pipe[t])
  BY <1>3
<1>7. ASSUME NEW u \in Threads
      PROVE  Names(batch[u] \o pipe'[u]) = IF u = t THEN Append(AllLines[t], x.ns) ELSE AllLines[u]
  <2>1. CASE u = t
    BY <1>5, <1>6, <2>1
  <2>2. CASE u # t
    BY <1>3, <1>4, <2>2
  <2>. QED
    BY <2>1, <2>2
<1>8. AllLines' = [u \in Threads |-> IF u = t THEN Append(AllLines[t], x.ns) ELSE AllLines[u]]
  BY <1>2, <1>7
<1>. QED
  BY <1>3, <1>8

(* An accept thread that lets go of its client was the only one to hold it. *)
LEMMA LetGo ==
  ASSUME TypeOK, Unique, NEW a \in Acceptors, hand[a] \in Clients,
         hand' = [hand EXCEPT ![a] = NULL]
  PROVE  hand[a] \in Held /\ Held' = Held \ {hand[a]}
<1>1. NULL \notin Clients /\ hand \in [Acceptors -> Clients \cup {NULL}]
  BY Bounds DEF TypeOK
<1>2. hand'[a] = NULL /\ \A b \in Acceptors \ {a} : hand'[b] = hand[b]
  BY <1>1
<1>3. ASSUME NEW b \in Acceptors \ {a} PROVE hand[b] # hand[a]
  <2>1. SUFFICES ASSUME hand[b] = hand[a] PROVE FALSE
    OBVIOUS
  <2>2. At(hand[a], <<"hand", a, 0>>) /\ At(hand[a], <<"hand", b, 0>>)
    BY <2>1 DEF At, IsPlace
  <2>3. <<"hand", a, 0>> = <<"hand", b, 0>>
    BY <2>2 DEF Unique
  <2>. QED
    BY <2>3
<1>4. \A x : x \in Held <=> x # NULL /\ \E b \in Acceptors : x = hand[b]
  BY DEF Held
<1>5. \A x : x \in Held' <=> x # NULL /\ \E b \in Acceptors : x = hand'[b]
  BY DEF Held
<1>6. \A x : x \in Held' <=> x \in Held /\ x # hand[a]
  BY <1>1, <1>2, <1>3, <1>4, <1>5
<1>. QED
  BY <1>1, <1>4, <1>6

(* Whoever is in no list is nowhere in the promise.                         *)
LEMMA PresentLemma ==
  ASSUME TypeOK, NEW c, c \notin Seen
  PROVE  c \notin Promise!Present
<1>1. /\ Waiting \in Seq(Clients) /\ pipe \in [Threads -> Seq(Items)]
      /\ batch \in [Threads -> Seq(Items)]
  BY WaitingType DEF TypeOK, Items
<1>2. /\ c \notin Held /\ c \notin Queued /\ c \notin InPipe /\ c \notin InBatch
      /\ c \notin Served /\ c \notin closed
  BY DEF Seen
<1>3. c \notin Promise!Standing(Waiting)
  <2>1. DOMAIN Waiting = 1..Len(Waiting)
    BY <1>1, LenProperties
  <2>. QED
    BY <1>2, <2>1 DEF Promise!Standing, Queued, Range
<1>4. ASSUME NEW t \in Threads
      PROVE  c \notin Promise!Standing(Line(t)) /\ c \notin connectList[t]
  <2>1. c \notin connectList[t]
    BY <1>2 DEF Served
  <2>. DEFINE b == batch[t]
              p == pipe[t]
              w == b \o p
  <2>2. b \in Seq(Items) /\ p \in Seq(Items)
    BY <1>1
  <2>3. \A i \in 1..Len(b) : b[i].ns # c
    <3>1. DOMAIN b = 1..Len(b)
      BY <2>2, LenProperties
    <3>. QED
      BY <1>2, <3>1 DEF InBatch, Range
  <2>4. \A i \in 1..Len(p) : p[i].ns # c
    <3>1. DOMAIN p = 1..Len(p)
      BY <2>2, LenProperties
    <3>. QED
      BY <1>2, <3>1 DEF InPipe, Range
  <2>5. Line(t) = Names(w)
    BY DEF Line
  <2>. HIDE DEF b, p
  <2>6. /\ w \in Seq(Items) /\ Len(w) = Len(b) + Len(p) /\ Len(b) \in Nat /\ Len(p) \in Nat
        /\ \A i \in 1..(Len(b) + Len(p)) : w[i] = IF i <= Len(b) THEN b[i] ELSE p[i - Len(b)]
    BY <2>2, ConcatProperties, LenProperties
  <2>. HIDE DEF w
  <2>7. ASSUME NEW i \in 1..Len(w) PROVE w[i].ns # c
    <3>1. CASE i <= Len(b)
      <4>1. i \in 1..Len(b) /\ w[i] = b[i]
        BY <2>6, <3>1
      <4>. QED
        BY <2>3, <4>1
    <3>2. CASE ~(i <= Len(b))
      <4>1. i - Len(b) \in 1..Len(p) /\ w[i] = p[i - Len(b)]
        BY <2>6, <3>2
      <4>. QED
        BY <2>4, <4>1
    <3>. QED
      BY <3>1, <3>2
  <2>8. Len(Names(w)) = Len(w) /\ \A i \in 1..Len(w) : Names(w)[i] = w[i].ns
    BY <2>6, NamesLemma
  <2>9. c \notin Promise!Standing(Names(w))
    BY <2>7, <2>8 DEF Promise!Standing
  <2>. QED
    BY <2>1, <2>5, <2>9
<1>5. \A t \in Threads : AllLines[t] = Line(t)
  BY DEF AllLines
<1>. QED
  BY <1>2, <1>3, <1>4, <1>5 DEF Promise!Present, AllLines

(* An accept thread lets a client in, queues it or puts it in a line.       *)
LEMMA AcceptorLines ==
  ASSUME TypeOK, HandsOK, Unique, NEW a \in Acceptors, Accept(a) \/ AcceptorStep(a)
  PROVE  Promise!Next \/ LinesVars' = LinesVars
<1>1. hand \in [Acceptors -> Clients \cup {NULL}] /\ target \in [Acceptors -> Threads \cup {NULL}]
  BY DEF TypeOK
<1>2. NULL \notin Clients /\ NULL \notin Threads
  BY Bounds
<1>. USE DEF threadVars, managerVars, allocVars, connections
<1>3. CASE Accept(a)
  <2>1. PICK d \in Clients \ Seen : hand' = [hand EXCEPT ![a] = d]
    BY <1>3 DEF Accept
  <2>2. /\ apc[a] = "accept"
        /\ UNCHANGED <<Waiting, pipe, batch, connectList, closed>>
    BY <1>3 DEF Accept, Step, Waiting
  <2>3. hand[a] = NULL
    BY <2>2 DEF HandsOK
  <2>4. hand'[a] = d /\ \A b \in Acceptors \ {a} : hand'[b] = hand[b]
    BY <1>1, <2>1
  <2>5. \A x : x \in Held' <=> x \in Held \/ x = d
    <3>1. \A x : x \in Held <=> x # NULL /\ \E b \in Acceptors : x = hand[b]
      BY DEF Held
    <3>2. \A x : x \in Held' <=> x # NULL /\ \E b \in Acceptors : x = hand'[b]
      BY DEF Held
    <3>. QED
      BY <1>2, <2>3, <2>4, <3>1, <3>2
  <2>6. Held' = Held \cup {d}
    BY <2>5
  <2>7. AllLines' = AllLines
    BY <2>2 DEF AllLines, Line
  <2>8. d \notin Promise!Present
    BY PresentLemma
  <2>9. Promise!Arrive(d)
    BY <2>2, <2>6, <2>7, <2>8 DEF Promise!Arrive, AllLines
  <2>. QED
    BY <2>9 DEF Promise!Next
<1>4. CASE WriteSocketPair(a)
  <2>1. /\ apc[a] = "write"
        /\ pipe' = [pipe EXCEPT ![target[a]] = Append(pipe[target[a]], Address(hand[a]))]
        /\ hand' = [hand EXCEPT ![a] = NULL]
        /\ UNCHANGED <<Waiting, batch, connectList, closed>>
    BY <1>4 DEF WriteSocketPair, Step, Waiting
  <2>2. PICK c \in Clients, t \in Threads : c = hand[a] /\ t = target[a]
    BY <1>1, <1>2, <2>1 DEF HandsOK
  <2>3. c \in Held /\ Held' = Held \ {c}
    BY <2>1, <2>2, LetGo
  <2>4. Address(c) \in Items /\ Address(c).ns = c
    BY DEF Address, Items
  <2>5. AllLines' = [AllLines EXCEPT ![t] = Append(AllLines[t], c)]
    BY <2>1, <2>2, <2>4, LinesGrow
  <2>6. Promise!Join(c, t)
    BY <2>1, <2>3, <2>5 DEF Promise!Join, AllLines
  <2>. QED
    BY <2>6 DEF Promise!Next
<1>5. CASE AddTask(a)
  <2>1. /\ apc[a] = "queue" /\ taskQueue' = Append(taskQueue, hand[a]) /\ popped' = popped
        /\ hand' = [hand EXCEPT ![a] = NULL]
        /\ UNCHANGED <<pipe, batch, connectList, closed>>
    BY <1>5 DEF AddTask, Step
  <2>2. PICK c \in Clients : c = hand[a]
    BY <1>1, <2>1 DEF HandsOK
  <2>3. c \in Held /\ Held' = Held \ {c}
    BY <2>1, <2>2, LetGo
  <2>4. AllLines' = AllLines
    BY <2>1 DEF AllLines, Line
  <2>5. Promise!Queue(c)
    BY <2>1, <2>2, <2>3, <2>4, AddWaiting DEF Promise!Queue, AllLines
  <2>. QED
    BY <2>5 DEF Promise!Next
<1>6. CASE TestSize(a) \/ ChooseThread(a) \/ RecordGlobalQueue(a) \/ RecordAccept(a)
  <2>1. UNCHANGED <<hand, Waiting, pipe, batch, connectList, closed>>
    BY <1>6 DEF TestSize, ChooseThread, RecordGlobalQueue, RecordAccept, Waiting
  <2>. QED
    BY <2>1, LinesStutter
<1>. QED
  BY <1>3, <1>4, <1>5, <1>6 DEF AcceptorStep

(* A client thread takes over the first of its line, or ends a connection.  *)
(* What it reads from the socket pair stays where it was in the line.       *)
LEMMA ThreadLines ==
  ASSUME TypeOK, BatchOK, ClosingOK, NEW t \in Threads, ThreadStep(t) \/ ConnectionEvent(t)
  PROVE  Promise!Next \/ LinesVars' = LinesVars
<1>1. /\ pipe \in [Threads -> Seq(Items)] /\ batch \in [Threads -> Seq(Items)]
      /\ connectList \in [Threads -> SUBSET Clients]
  BY DEF TypeOK, Items
<1>2. AllLines = [u \in Threads |-> Names(batch[u] \o pipe[u])]
  BY DEF AllLines, Line
<1>3. AllLines' = [u \in Threads |-> Names(batch'[u] \o pipe'[u])]
  BY DEF AllLines, Line
<1>0. Waiting' = Waiting /\ hand' = hand
  BY ThreadFrame DEF Waiting, acceptVars
<1>4. CASE ReadClientSocket(t)
  <2>1. /\ tpc[t] = "loop" /\ batch' = [batch EXCEPT ![t] = pipe[t]]
        /\ pipe' = [pipe EXCEPT ![t] = <<>>]
        /\ UNCHANGED <<hand, Waiting, connectList, closed>>
    BY <1>0, <1>4 DEF ReadClientSocket, GoTo, connections
  <2>2. batch[t] = <<>>
    BY <2>1 DEF BatchOK
  <2>3. /\ batch'[t] = pipe[t] /\ pipe'[t] = <<>>
        /\ \A u \in Threads \ {t} : batch'[u] = batch[u] /\ pipe'[u] = pipe[u]
    BY <1>1, <2>1
  <2>4. batch'[t] \o pipe'[t] = batch[t] \o pipe[t]
    <3>1. pipe[t] \in Seq(Items)
      BY <1>1
    <3>2. pipe[t] \o <<>> = pipe[t] /\ <<>> \o pipe[t] = pipe[t]
      BY <3>1, ConcatEmptySeq
    <3>. QED
      BY <2>2, <2>3, <3>2
  <2>5. \A u \in Threads : batch'[u] \o pipe'[u] = batch[u] \o pipe[u]
    BY <2>3, <2>4
  <2>6. AllLines' = AllLines
    BY <1>2, <1>3, <2>5
  <2>. QED
    BY <2>1, <2>6 DEF LinesVars, Held
<1>5. CASE DoingConnection(t)
  <2>. DEFINE d == Head(batch[t]).ns
  <2>1. /\ tpc[t] = "doing"
        /\ connectList' = [connectList EXCEPT ![t] = connectList[t] \cup {d}]
        /\ batch' = [batch EXCEPT ![t] = Tail(batch[t])]
        /\ UNCHANGED <<hand, Waiting, pipe, closed>>
    BY <1>0, <1>5 DEF DoingConnection, GoTo
  <2>2. batch[t] # <<>> /\ batch[t] \in Seq(Items) /\ pipe[t] \in Seq(Items)
    BY <1>1, <2>1 DEF BatchOK
  <2>3. /\ AllLines[t] = Names(batch[t] \o pipe[t])
        /\ Names(batch[t] \o pipe[t]) # <<>>
        /\ Head(Names(batch[t] \o pipe[t])) = d
        /\ Names(Tail(batch[t]) \o pipe[t]) = Tail(Names(batch[t] \o pipe[t]))
    BY <1>2, <2>2, LineTail
  <2>. HIDE DEF d
  <2>4. /\ batch'[t] = Tail(batch[t]) /\ pipe'[t] = pipe[t]
        /\ \A u \in Threads \ {t} : batch'[u] = batch[u] /\ pipe'[u] = pipe[u]
    BY <1>1, <2>1
  <2>5. ASSUME NEW u \in Threads
        PROVE  Names(batch'[u] \o pipe'[u]) = IF u = t THEN Tail(AllLines[t]) ELSE AllLines[u]
    <3>1. CASE u = t
      BY <2>3, <2>4, <3>1
    <3>2. CASE u # t
      BY <1>2, <2>4, <3>2
    <3>. QED
      BY <3>1, <3>2
  <2>6. AllLines' = [u \in Threads |-> IF u = t THEN Tail(AllLines[t]) ELSE AllLines[u]]
    BY <1>3, <2>5
  <2>7. AllLines' = [AllLines EXCEPT ![t] = Tail(AllLines[t])]
    BY <1>2, <2>6
  <2>8. Held' = Held
    BY <2>1 DEF Held
  <2>9. Promise!Serve(t)
    <3>1. AllLines[t] # <<>> /\ d = Head(AllLines[t])
      BY <2>3
    <3>2. /\ AllLines[t] # <<>> /\ AllLines' = [AllLines EXCEPT ![t] = Tail(AllLines[t])]
          /\ connectList' = [connectList EXCEPT ![t] = connectList[t] \cup {Head(AllLines[t])}]
          /\ UNCHANGED <<Held, Waiting, closed>>
      BY <2>1, <2>7, <2>8, <3>1
    <3>. QED
      BY <3>2 DEF Promise!Serve, AllLines
  <2>. QED
    BY <2>9 DEF Promise!Next
<1>6. CASE RemoveConnection(t)
  <2>1. PICK d \in connectList[t] : d = closing[t]
    BY <1>6 DEF RemoveConnection, GoTo, ClosingOK
  <2>2. /\ connectList' = [connectList EXCEPT ![t] = connectList[t] \ {d}]
        /\ closed' = closed \cup {d}
        /\ UNCHANGED <<hand, Waiting, pipe, batch>>
    BY <1>0, <1>6, <2>1 DEF RemoveConnection
  <2>3. Held' = Held /\ AllLines' = AllLines /\ d \in Clients
    BY <1>1, <2>2 DEF Held, AllLines, Line
  <2>4. Promise!End(d, t)
    BY <2>2, <2>3 DEF Promise!End, AllLines
  <2>. QED
    BY <2>3, <2>4 DEF Promise!Next
<1>7. CASE UNCHANGED <<pipe, batch, connectList, closed>>
  BY <1>0, <1>7, LinesStutter
<1>8. CASE StartTask(t) \/ FollowContent(t) \/ TakeUp(t) \/ RecvConnection(t)
  BY <1>7, <1>8 DEF StartTask, FollowContent, TakeUp, RecvConnection, threadVars, connections
<1>9. CASE FinishedConnection(t) \/ DoneConnection(t) \/ SignalFinished(t)
  BY <1>7, <1>9 DEF FinishedConnection, DoneConnection, SignalFinished, connections
<1>10. CASE ServerFailed(t) \/ DoingFailConnection(t)
  BY <1>7, <1>10 DEF ServerFailed, DoingFailConnection, connections
<1>11. CASE RetryFailed(t) \/ RetryFailConnection(t) \/ FollowFreed(t)
  BY <1>7, <1>11 DEF RetryFailed, RetryFailConnection, FollowFreed, connections
<1>. QED
  BY <1>4, <1>5, <1>6, <1>8, <1>9, <1>10, <1>11 DEF ThreadStep, ConnectionEvent

(* The manager calls whoever has stood in the task queue longest.           *)
LEMMA ManagerLines ==
  ASSUME TypeOK, PoppedOK, ManagerStep \/ SpuriousWake \/ HandleSignal \/ SignalStop
  PROVE  Promise!Next \/ LinesVars' = LinesVars
<1>1. UNCHANGED <<hand, batch, connectList, closed>>
  BY ManagerTypes DEF connections
<1>2. CASE HandOver
  <2>1. /\ Waiting # <<>> /\ Waiting' = Tail(Waiting) /\ Head(popped) = Head(Waiting)
        /\ pipe' = [pipe EXCEPT ![fill] = Append(pipe[fill], Content(Head(popped)))]
    BY <1>2, HandWaiting DEF HandOver
  <2>2. PICK c \in Clients : c = Head(Waiting)
    BY <1>2, HandWaiting
  <2>3. Content(c) \in Items /\ Content(c).ns = c
    BY DEF Content, Items
  <2>4. PICK t \in Threads : t = fill
    BY DEF TypeOK
  <2>5. AllLines' = [AllLines EXCEPT ![t] = Append(AllLines[t], c)]
    BY <1>1, <2>1, <2>2, <2>3, <2>4, LinesGrow
  <2>6. Held' = Held
    BY <1>1 DEF Held
  <2>7. Promise!Call(t)
    <3>1. /\ Waiting # <<>> /\ Waiting' = Tail(Waiting)
          /\ AllLines' = [AllLines EXCEPT ![t] = Append(AllLines[t], Head(Waiting))]
          /\ UNCHANGED <<Held, connectList, closed>>
      BY <1>1, <2>1, <2>2, <2>5, <2>6
    <3>. QED
      BY <3>1 DEF Promise!Call, AllLines
  <2>. QED
    BY <2>7 DEF Promise!Next
<1>3. CASE UNCHANGED <<Waiting, pipe>>
  BY <1>1, <1>3, LinesStutter
<1>4. CASE PopTask
  BY <1>3, <1>4, PopWaiting DEF PopTask, threadVars
<1>5. CASE RecordOutGlobalQueue
  BY <1>3, <1>5 DEF RecordOutGlobalQueue, Waiting, threadVars, allocVars
<1>6. ASSUME ManagerOnly, popped' = popped PROVE UNCHANGED <<Waiting, pipe>>
  BY <1>6 DEF ManagerOnly, threadVars, Waiting
<1>7. CASE TestStop \/ TestWork \/ Park \/ StopAccept \/ NextThread
  BY <1>3, <1>6, <1>7 DEF TestStop, TestWork, Park, StopAccept, NextThread, allocVars
<1>8. CASE FillThread \/ Spill \/ AllocTaskReturns \/ SpuriousWake \/ HandleSignal \/ SignalStop
  BY <1>3, <1>6, <1>8 DEF FillThread, Spill, AllocTaskReturns, SpuriousWake, HandleSignal,
                         SignalStop, allocVars
<1>9. CASE JoinAcceptors
  BY <1>3, <1>9 DEF JoinAcceptors, threadVars, allocVars, Waiting
<1>. QED
  BY <1>2, <1>4, <1>5, <1>7, <1>8, <1>9 DEF ManagerStep

(* The dispatcher implements Lines: every step of an accept thread, of the  *)
(* manager or of a client thread is an arrival, a move to the end of a line *)
(* or off its front, an end, or changes no line (add_task, alloc_task,      *)
(* write_socketPair, read_clientSocket, finished_connection).               *)
THEOREM LinesImplemented == Spec => ImplementsLines
<1>1. Init => Promise!Init
  <2>1. SUFFICES ASSUME Init PROVE Promise!Init
    OBVIOUS
  <2>2. Held = {} /\ Waiting = <<>> /\ closed = {} /\ connectList = [t \in Threads |-> {}]
    BY <2>1 DEF Init, Held, Waiting
  <2>3. ASSUME NEW t \in Threads PROVE Line(t) = <<>>
    <3>1. batch[t] = <<>> /\ pipe[t] = <<>>
      BY <2>1 DEF Init
    <3>2. <<>> \in Seq(Items) /\ Len(<<>>) = 0 /\ <<>> \o <<>> = <<>>
      OBVIOUS
    <3>3. Names(<<>>) \in Seq(Clients) /\ Len(Names(<<>>)) = 0
      BY <3>2, NamesLemma
    <3>4. Names(<<>>) = <<>>
      BY <3>3, EmptySeq
    <3>. QED
      BY <3>1, <3>2, <3>4 DEF Line
  <2>4. [t \in Threads |-> Line(t)] = [t \in Threads |-> <<>>]
    BY <2>3
  <2>. QED
    BY <2>2, <2>4 DEF Promise!Init
<1>2. Inv /\ [Next]_vars => [Promise!Next]_LinesVars
  <2>1. SUFFICES ASSUME Inv, [Next]_vars PROVE Promise!Next \/ LinesVars' = LinesVars
    OBVIOUS
  <2>2. TypeOK /\ HandsOK /\ PoppedOK /\ BatchOK /\ ClosingOK /\ OnePlace
    BY <2>1 DEF Inv
  <2>3. Unique
    BY <2>2, OnePlaceLemma DEF Unique, At
  <2>4. CASE \E a \in Acceptors : Accept(a) \/ AcceptorStep(a)
    BY <2>2, <2>3, <2>4, AcceptorLines
  <2>5. CASE \E t \in Threads : ThreadStep(t) \/ ConnectionEvent(t)
    BY <2>2, <2>5, ThreadLines
  <2>6. CASE ManagerStep \/ SpuriousWake \/ HandleSignal \/ SignalStop
    BY <2>2, <2>6, ManagerLines
  <2>7. CASE UNCHANGED vars
    <3>1. UNCHANGED <<hand, Waiting, pipe, batch, connectList, closed>>
      BY <2>7 DEF vars, acceptVars, threadVars, connections, managerVars, allocVars, Waiting
    <3>. QED
      BY <3>1, LinesStutter
  <2>. QED
    BY <2>1, <2>4, <2>5, <2>6, <2>7 DEF Next
<1>3. Inv /\ [Next]_vars => [Promise!Next]_Promise!vars
  BY <1>2 DEF LinesVars, Promise!vars, AllLines
<1>. QED
  BY <1>1, <1>3, InvHolds, PTL DEF Spec, ImplementsLines, Promise!Spec
=============================================================================
