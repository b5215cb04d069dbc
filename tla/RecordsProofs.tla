---------------------------- MODULE RecordsProofs ----------------------------
(***************************************************************************)
(* Proofs about Records, for any number of connections and any width of    *)
(* the counters that can count them.                                       *)
(***************************************************************************)
EXTENDS Records, FiniteSetTheorems, TLAPS

Counted == {c \in Conns : conn[c] \in {"open", "close", "discount"}}

\* clientConnLock is held by the thread between its load and its store, and
\* until a reset nobody else stores.
CurrentOK ==
  /\ \A c \in Conns : conn[c] \in {"count", "discount"} <=> connLock = c
  /\ hpc \in {"start", "sums", "rows"} => ~clean
  /\ clean => /\ current = Cardinality(Counted)
              /\ \A c \in Conns : conn[c] \in {"count", "discount"} => register[c] = current

\* bakRecordMutex is held by the assist thread while it copies, and by the
\* page while it subtracts; the page, which alone deletes the backup, has one
\* from its look at it to the subtraction.
BakOK ==
  /\ bakLock = "assist" <=> apc \in {"copy", "unlock"}
  /\ bakLock = "http" <=> hpc = "diff"
  /\ hpc \in {"read", "diff"} => bak # NULL

\* What came since the copy is the difference, up to whole turns of the counter.
ChangeOK ==
  (bak # NULL /\ ~torn /\ apc # "copy") => \E k \in Nat : bak + since = connects + k * Word

Inv == TypeOK /\ CurrentOK /\ BakOK /\ ChangeOK
-----------------------------------------------------------------------------
(* Unsigned arithmetic.                                                     *)

(* A number below the width is its own remainder. *)
LEMMA ModSmall ==
  ASSUME NEW M \in Nat, NEW a \in Nat, a < M
  PROVE  a % M = a
OBVIOUS

(* Adding the width once does not change the remainder. *)
LEMMA ModOnce ==
  ASSUME NEW M \in Nat, NEW a \in Nat, a < M
  PROVE  (M + a) % M = a
OBVIOUS

(* Whole turns do not change the remainder. *)
LEMMA ModTurns ==
  ASSUME NEW M \in Nat \ {0}, NEW a \in Nat, NEW b \in Nat, NEW k \in Int, a = b + k * M
  PROVE  a % M = b % M
<1>. DEFINE r == a % M  p == a \div M  s == b % M  q == b \div M
<1>1. /\ r \in Int /\ p \in Int /\ a = M * p + r /\ 0 <= r /\ r < M
      /\ s \in Int /\ q \in Int /\ b = M * q + s /\ 0 <= s /\ s < M
  OBVIOUS
<1>. HIDE DEF r, p, s, q
<1>2. PICK t \in Int : t = q + k - p
  BY <1>1
<1>3. r - s = M * t
  BY <1>1, <1>2
<1>4. t = 0
  <2>1. t >= 1 => M * t >= M
    OBVIOUS
  <2>2. t <= -1 => M * t <= -M
    OBVIOUS
  <2>. QED
    BY <1>1, <1>3, <2>1, <2>2
<1>. QED
  BY <1>1, <1>3, <1>4 DEF r, s

(* A remainder is a value of a counter.                                     *)
LEMMA ModRange ==
  ASSUME NEW M \in Nat \ {0}, NEW a \in Int
  PROVE  a % M \in 0..(M - 1)
OBVIOUS
-----------------------------------------------------------------------------
(* One step of the program.                                                 *)

WordFacts == Word \in Nat \ {0} /\ IsFiniteSet(Conns) /\ Cardinality(Conns) \in Nat
             /\ Cardinality(Conns) < Word

(* A counter can hold the number of all connections.                        *)
LEMMA WordLemma == WordFacts
BY RecordsAssumption, FS_CardinalityType DEF WordFacts

(* The numbers stay within the width of the counters. *)
LEMMA TypeStep ==
  ASSUME TypeOK, [Next]_vars
  PROVE  TypeOK'
<1>. USE DEF TypeOK
<1>w. Word \in Nat \ {0} /\ 0 \in 0..(Word - 1)
  BY WordLemma DEF WordFacts
<1>1. CASE UNCHANGED vars
  BY <1>1 DEF vars, threads, page, ghosts
<1>2. ASSUME NEW c \in Conns, AddNewClient(c) PROVE TypeOK'
  <2>1. (connects + 1) % Word \in 0..(Word - 1)
    BY <1>w, ModRange
  <2>. QED
    BY <1>2, <2>1 DEF AddNewClient, page
<1>3. ASSUME NEW c \in Conns, FinishedConnection(c) PROVE TypeOK'
  BY <1>3 DEF FinishedConnection, page, ghosts
<1>4. ASSUME NEW c \in Conns, LockAndLoad(c) PROVE TypeOK'
  BY <1>4 DEF LockAndLoad, page, ghosts
<1>5. ASSUME NEW c \in Conns, StoreAndUnlock(c) PROVE TypeOK'
  <2>1. register[c] \in Int
    BY <1>w
  <2>2. (register[c] + 1) % Word \in 0..(Word - 1) /\ Minus(register[c], 1) \in 0..(Word - 1)
    BY <1>w, <2>1, ModRange DEF Minus
  <2>3. current' \in 0..(Word - 1)
    BY <1>5, <2>2 DEF StoreAndUnlock
  <2>. QED
    BY <1>5, <1>w, <2>3 DEF StoreAndUnlock, page, ghosts
<1>6. CASE AssistStep \/ Clock
  <2>1. CASE TestDue \/ UnlockBak \/ Clock
    BY <2>1 DEF TestDue, UnlockBak, Clock, Assist, AssistOnly, threads, page, ghosts
  <2>2. CASE NewBak
    BY <1>w, <2>2 DEF NewBak, Assist, AssistOnly, threads, page, ghosts
  <2>3. CASE CopyBak
    BY <1>w, <2>3 DEF CopyBak, Assist, AssistOnly, threads, page
  <2>. QED
    BY <1>6, <2>1, <2>2, <2>3 DEF AssistStep
<1>7. CASE TestBak \/ DeleteBak \/ HttpStep
  <2>1. CASE TestBak \/ DeleteBak \/ LockDiff
    BY <1>7, <2>1 DEF TestBak, DeleteBak, LockDiff, Http, HttpOnly, threads, ghosts
  <2>2. CASE Diff
    BY <1>7, <2>2 DEF Diff, Http, HttpOnly, threads
  <2>3. CASE ClearStart \/ ClearSums
    BY <1>7, <1>w, <2>3 DEF ClearStart, ClearSums, Http, HttpOnly, threads, ghosts
  <2>4. CASE ClearRows
    BY <1>7, <1>w, <2>4 DEF ClearRows, Http, HttpOnly, threads
  <2>. QED
    BY <1>7, <2>1, <2>2, <2>3, <2>4 DEF HttpStep
<1>. QED
  BY <1>1, <1>2, <1>3, <1>4, <1>5, <1>6, <1>7 DEF Next

(* Every step keeps the total equal to the number of clients counted, until *)
(* the first reset: between a thread's load and its store no other stores.  *)
LEMMA CurrentStep ==
  ASSUME TypeOK, CurrentOK, [Next]_vars
  PROVE  CurrentOK'
<1>. USE DEF TypeOK, CurrentOK
<1>n. NULL \notin Conns
  BY RecordsAssumption
<1>w. WordFacts
  BY WordLemma
<1>f. IsFiniteSet(Counted) /\ Cardinality(Counted) \in Nat
  <2>1. Counted \in SUBSET Conns
    BY DEF Counted
  <2>. QED
    BY <1>w, <2>1, FS_Subset, FS_CardinalityType DEF WordFacts
<1>1. CASE UNCHANGED <<threads, current, hpc, clean>>
  BY <1>1 DEF threads, Counted
<1>2. ASSUME NEW c \in Conns, AddNewClient(c) \/ FinishedConnection(c) PROVE CurrentOK'
  <2>1. \A e \in Conns : /\ conn'[e] \in {"count", "discount"} <=> conn[e] \in {"count", "discount"}
                         /\ e \in Counted' <=> e \in Counted
    BY <1>2 DEF AddNewClient, FinishedConnection, Counted
  <2>2. Counted' = Counted
    BY <2>1 DEF Counted
  <2>. QED
    BY <1>2, <2>1, <2>2 DEF AddNewClient, FinishedConnection, page, ghosts
<1>3. ASSUME NEW c \in Conns, LockAndLoad(c) PROVE CurrentOK'
  <2>1. /\ connLock = NULL /\ connLock' = c
        /\ conn[c] \in {"accept", "close"}
        /\ conn'[c] = IF conn[c] = "accept" THEN "count" ELSE "discount"
        /\ \A e \in Conns \ {c} : conn'[e] = conn[e] /\ register'[e] = register[e]
        /\ register'[c] = current
        /\ UNCHANGED <<current, hpc, clean>>
    BY <1>3 DEF LockAndLoad, page, ghosts
  <2>2. \A e \in Conns : e \in Counted' <=> e \in Counted
    BY <2>1 DEF Counted
  <2>3. Counted' = Counted
    BY <2>2 DEF Counted
  <2>. QED
    BY <1>n, <2>1, <2>3
<1>4. ASSUME NEW c \in Conns, StoreAndUnlock(c) PROVE CurrentOK'
  <2>1. /\ conn[c] \in {"count", "discount"} /\ connLock = c /\ connLock' = NULL
        /\ conn'[c] = IF conn[c] = "count" THEN "open" ELSE "gone"
        /\ \A e \in Conns \ {c} : conn'[e] = conn[e] /\ conn'[e] \notin {"count", "discount"}
        /\ current' = IF conn[c] = "count" THEN (register[c] + 1) % Word ELSE Minus(register[c], 1)
        /\ UNCHANGED <<hpc, clean>>
    BY <1>4 DEF StoreAndUnlock, page, ghosts
  <2>2. ASSUME clean, conn[c] = "count" PROVE current' = Cardinality(Counted')
    <3>1. Counted' = Counted \cup {c} /\ c \notin Counted
      BY <2>1, <2>2 DEF Counted
    <3>2. Cardinality(Counted') = Cardinality(Counted) + 1
      BY <1>f, <3>1, FS_AddElement
    <3>3. Counted' \in SUBSET Conns
      BY DEF Counted
    <3>4. Cardinality(Counted) + 1 <= Cardinality(Conns)
      BY <1>w, <3>2, <3>3, FS_Subset DEF WordFacts
    <3>5. register[c] = Cardinality(Counted)
      BY <2>1, <2>2
    <3>6. (Cardinality(Counted) + 1) % Word = Cardinality(Counted) + 1
      BY <1>f, <1>w, <3>4, ModSmall DEF WordFacts
    <3>. QED
      BY <2>1, <2>2, <3>2, <3>5, <3>6
  <2>3. ASSUME clean, conn[c] = "discount" PROVE current' = Cardinality(Counted')
    <3>1. Counted' = Counted \ {c} /\ c \in Counted
      BY <2>1, <2>3 DEF Counted
    <3>2. Cardinality(Counted') = Cardinality(Counted) - 1
      BY <1>f, <3>1, FS_RemoveElement
    <3>3. Counted \in SUBSET Conns /\ Counted # {}
      BY <3>1 DEF Counted
    <3>4. Cardinality(Counted) <= Cardinality(Conns) /\ Cardinality(Counted) # 0
      BY <1>f, <1>w, <3>3, FS_Subset, FS_EmptySet DEF WordFacts
    <3>5. register[c] = Cardinality(Counted)
      BY <2>1, <2>3
    <3>. DEFINE n == Cardinality(Counted)
    <3>6. (Word + (n - 1)) % Word = n - 1
      <4>1. n - 1 \in Nat /\ n - 1 < Word
        BY <1>f, <1>w, <3>4 DEF WordFacts
      <4>. HIDE DEF n
      <4>. QED
        BY <1>w, <4>1, ModOnce DEF WordFacts
    <3>7. Word + n - 1 = Word + (n - 1)
      BY <1>f, <1>w DEF WordFacts
    <3>8. Minus(n, 1) = n - 1
      BY <3>6, <3>7 DEF Minus
    <3>. QED
      BY <2>1, <2>3, <3>2, <3>5, <3>8
  <2>. QED
    BY <1>n, <2>1, <2>2, <2>3
<1>5. CASE DeleteBak \/ HttpStep
  BY <1>5 DEF HttpStep, DeleteBak, LockDiff, Diff, ClearStart, ClearSums, ClearRows,
              Http, HttpOnly, threads, ghosts, Counted
<1>6. \/ UNCHANGED <<threads, current, hpc, clean>>
      \/ \E c \in Conns :
           AddNewClient(c) \/ FinishedConnection(c) \/ LockAndLoad(c) \/ StoreAndUnlock(c)
      \/ TestBak \/ DeleteBak \/ HttpStep
  BY DEF Next, vars, page, ghosts, AssistStep, TestDue, NewBak, CopyBak, UnlockBak, Clock,
         AssistOnly
<1>7. CASE TestBak
  BY <1>7 DEF TestBak, Http, HttpOnly, threads, ghosts, Counted
<1>. QED
  BY <1>1, <1>2, <1>3, <1>4, <1>5, <1>6, <1>7

(* Every step keeps the two threads that touch the backup apart, and the    *)
(* page that has looked for it keeps it.                                    *)
LEMMA BakStep ==
  ASSUME TypeOK, BakOK, [Next]_vars
  PROVE  BakOK'
<1>. USE DEF TypeOK, BakOK
<1>n. NULL \notin {"assist", "http"} /\ NULL \notin 0..(Word - 1) /\ 0 \in 0..(Word - 1)
  BY RecordsAssumption, WordLemma DEF WordFacts
<1>1. CASE UNCHANGED <<bak, bakLock, apc, hpc>>
  BY <1>1
<1>2. CASE AssistStep
  BY <1>n, <1>2 DEF AssistStep, TestDue, NewBak, CopyBak, UnlockBak, Assist, AssistOnly, page
<1>3. CASE TestBak \/ DeleteBak \/ HttpStep
  BY <1>n, <1>3 DEF TestBak, DeleteBak, HttpStep, LockDiff, Diff, ClearStart, ClearSums, ClearRows,
                    Http, HttpOnly
<1>4. UNCHANGED <<bak, bakLock, apc, hpc>> \/ AssistStep \/ TestBak \/ DeleteBak \/ HttpStep
  BY DEF Next, vars, page, AddNewClient, FinishedConnection, LockAndLoad, StoreAndUnlock, Clock,
         AssistOnly
<1>. QED
  BY <1>1, <1>2, <1>3, <1>4

(* Every step keeps the difference equal to what came since the copy.       *)
LEMMA ChangeStep ==
  ASSUME TypeOK, BakOK, ChangeOK, [Next]_vars
  PROVE  ChangeOK'
<1>. USE DEF TypeOK, BakOK, ChangeOK
<1>w. Word \in Nat \ {0}
  BY WordLemma DEF WordFacts
<1>1. CASE UNCHANGED <<connects, bak, since, torn, apc>>
  BY <1>1
<1>2. ASSUME NEW c \in Conns, AddNewClient(c) PROVE ChangeOK'
  <2>1. connects' = (connects + 1) % Word /\ since' = since + 1 /\ UNCHANGED <<bak, torn, apc>>
    BY <1>2 DEF AddNewClient
  <2>. SUFFICES ASSUME bak # NULL, ~torn, apc # "copy"
                PROVE  \E k \in Nat : bak + since' = connects' + k * Word
    BY <2>1
  <2>2. PICK k \in Nat : bak + since = connects + k * Word
    OBVIOUS
  <2>3. bak \in Nat /\ connects \in Nat /\ connects < Word /\ since \in Nat
    BY <1>w
  <2>4. CASE connects + 1 < Word
    <3>1. connects' = connects + 1
      BY <1>w, <2>1, <2>3, <2>4, ModSmall
    <3>2. bak + since' = connects' + k * Word
      <4>1. k * Word \in Int
        BY <1>w
      <4>. QED
        BY <2>1, <2>2, <2>3, <3>1, <4>1
    <3>. QED
      BY <3>2
  <2>5. CASE connects + 1 = Word
    <3>1. (Word + 0) % Word = 0
      BY <1>w, ModOnce
    <3>2. connects' = 0
      BY <1>w, <2>1, <2>5, <3>1
    <3>3. (k + 1) * Word = k * Word + Word /\ k * Word \in Int /\ k + 1 \in Nat
      BY <1>w
    <3>4. bak + since' = connects' + (k + 1) * Word
      BY <1>w, <2>1, <2>2, <2>3, <2>5, <3>2, <3>3
    <3>. QED
      BY <3>3, <3>4
  <2>. QED
    BY <1>w, <2>3, <2>4, <2>5
<1>3. CASE CopyBak
  <2>1. bak' = connects /\ since' = 0 /\ connects' = connects
    BY <1>3 DEF CopyBak, AssistOnly
  <2>2. bak' + since' = connects' + 0 * Word
    BY <1>w, <2>1
  <2>. QED
    BY <2>2
<1>4. CASE TestDue \/ NewBak \/ UnlockBak
  BY <1>4 DEF TestDue, NewBak, UnlockBak, Assist, AssistOnly, ghosts
<1>5. CASE TestBak \/ DeleteBak \/ HttpStep
  BY <1>5 DEF TestBak, DeleteBak, HttpStep, LockDiff, Diff, ClearStart, ClearSums, ClearRows,
              Http, HttpOnly, ghosts
<1>6. \/ UNCHANGED <<connects, bak, since, torn, apc>>
      \/ \E c \in Conns : AddNewClient(c)
      \/ AssistStep \/ TestBak \/ DeleteBak \/ HttpStep
  BY DEF Next, vars, ghosts, FinishedConnection, LockAndLoad, StoreAndUnlock, Clock, AssistOnly
<1>. QED
  BY <1>1, <1>2, <1>3, <1>4, <1>5, <1>6 DEF AssistStep

-----------------------------------------------------------------------------
(* The invariant holds in every state of every behaviour. *)
THEOREM InvHolds == Spec => []Inv
<1>1. Init => Inv
  <2>. SUFFICES ASSUME Init PROVE Inv
    OBVIOUS
  <2>0. /\ NULL \notin Conns /\ NULL \notin 0..(Word - 1) /\ NULL \notin {"assist", "http"}
        /\ 0 \in 0..(Word - 1)
    BY RecordsAssumption, WordLemma DEF WordFacts
  <2>1. TypeOK
    BY <2>0 DEF Init, TypeOK
  <2>2. Cardinality(Counted) = 0
    <3>1. Counted = {}
      BY DEF Init, Counted
    <3>. QED
      BY <3>1, FS_EmptySet
  <2>3. CurrentOK
    BY <2>0, <2>2 DEF Init, CurrentOK
  <2>4. BakOK /\ ChangeOK
    BY <2>0 DEF Init, BakOK, ChangeOK
  <2>. QED
    BY <2>1, <2>3, <2>4 DEF Inv
<1>2. Inv /\ [Next]_vars => Inv'
  BY TypeStep, CurrentStep, BakStep, ChangeStep DEF Inv
<1>. QED
  BY <1>1, <1>2, PTL DEF Spec

(* The totals stay within their unsigned type. *)
THEOREM TypeCorrect == Spec => []TypeOK
BY InvHolds, PTL DEF Inv

(* sum_currentClientConn is right until the first reset, with any number of *)
(* threads reporting at once.                                               *)
THEOREM CurrentIsRight == Spec => []CurrentUntilReset
<1>1. Inv => CurrentUntilReset
  BY DEF Inv, CurrentOK, CurrentUntilReset, Counted
<1>. QED
  BY <1>1, InvHolds, PTL

(* The page shows what came since the copy, also when the counter has gone  *)
(* round, unless a reset fell in between.                                   *)
THEOREM PageIsRight == Spec => []ShowsTheChange
<1>1. Inv => ShowsTheChange
  <2>. SUFFICES ASSUME Inv, hpc = "diff", ~torn
                PROVE  bak # NULL /\ Difference = since % Word
    BY DEF ShowsTheChange
  <2>. USE DEF Inv, TypeOK
  <2>w. Word \in Nat \ {0}
    BY WordLemma DEF WordFacts
  <2>1. bak # NULL /\ apc # "copy"
    BY DEF BakOK
  <2>2. PICK k \in Nat : bak + since = connects + k * Word
    BY <2>1 DEF ChangeOK
  <2>3. bak \in 0..(Word - 1) /\ connects \in 0..(Word - 1)
    BY <2>1
  <2>4. bak \in Nat /\ bak < Word /\ connects \in Nat /\ since \in Nat
    BY <2>w, <2>3
  <2>. DEFINE a == Word + connects - bak
  <2>5. a \in Nat
    BY <2>w, <2>4
  <2>6. a = since + (1 - k) * Word /\ 1 - k \in Int
    <3>1. (1 - k) * Word = Word - k * Word /\ k * Word \in Int
      BY <2>w
    <3>. QED
      BY <2>w, <2>2, <2>4, <3>1
  <2>. HIDE DEF a
  <2>7. a % Word = since % Word
    BY <2>w, <2>4, <2>5, <2>6, ModTurns
  <2>. QED
    BY <2>1, <2>7 DEF Difference, Minus, a
<1>. QED
  BY <1>1, InvHolds, PTL
=============================================================================
