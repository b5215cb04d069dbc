------------------------------ MODULE Records ------------------------------
(* stats/record.cpp: the totals, the backup against which the real-time     *)
(* pages show what has changed, and the reset.  Accept and client threads   *)
(* report to the totals; the assist thread (assistthread.cpp) takes the     *)
(* backup; the one thread of the statistics page (httpserver/) reads the    *)
(* difference and resets.                                                   *)
(*                                                                          *)
(* Two totals stand for the rest: sum_currentClientConn, which the threads  *)
(* change under clientConnLock and the reset stores to without it, and the  *)
(* connectNum of one client's row in clientQueryMap, which everybody        *)
(* touches under clientQueryMapLock.  A change of the first is a load and a *)
(* store, so that the reset may fall between them.                          *)
EXTENDS Integers, FiniteSets

CONSTANTS Conns,  \* connections, all of one client address
          NULL,   \* no holder of a lock; no backup
          Word    \* numbers of an unsigned integer

ASSUME RecordsAssumption ==
  /\ IsFiniteSet(Conns)
  /\ Word \in Nat /\ Cardinality(Conns) < Word
  /\ NULL \notin Conns /\ NULL \notin 0..(Word - 1) /\ NULL \notin {"assist", "http"}

VARIABLES conn,      \* where the thread of a connection is
          register,  \* what it has loaded of sum_currentClientConn
          connLock,  \* holder of clientConnLock
          current,   \* sum_currentClientConn
          connects,  \* connectNum of the client's row
          bak,       \* connectNum in bakRecord's row; NULL if bakRecord is
          start,     \* bakRecordStartTime: 0, or realRecordTime ago, or later
          bakLock,   \* bakRecordMutex: held by "assist", by "http" or NULL
          apc,       \* the assist thread
          hpc,       \* the thread of the statistics page
          first,     \* get_diffRecord has not constructed its static Record
          since,     \* clients that came since the backup was copied
          torn,      \* the backup holds what a reset has cleared since
          clean      \* no reset so far

threads == <<conn, register, connLock>>
page == <<hpc, first>>
ghosts == <<since, torn, clean>>
vars == <<threads, current, connects, bak, start, bakLock, apc, page, ghosts>>

Init ==
  /\ conn = [c \in Conns |-> "away"]
  /\ register = [c \in Conns |-> 0]
  /\ connLock = NULL
  /\ current = 0 /\ connects = 0
  /\ bak = NULL /\ start = "zero" /\ bakLock = NULL
  /\ apc = "sleep" /\ hpc = "idle"
  /\ first = TRUE
  /\ since = 0 /\ torn = FALSE /\ clean = TRUE

\* A mutant of Minus: counters that go below zero.
MinusSigned(a, b) == a - b

Minus(a, b) == (Word + a - b) % Word
-----------------------------------------------------------------------------
(* Accept and client threads.                                               *)

\* The accept thread enters the client and goes on to the totals.
AddNewClient(c) ==
  /\ conn[c] = "away"
  /\ conn' = [conn EXCEPT ![c] = "accept"]
  /\ connects' = (connects + 1) % Word
  /\ since' = since + 1
  /\ UNCHANGED <<register, connLock, current, bak, start, bakLock, apc, page, torn, clean>>

\* The client goes away, or its connection is ended for another reason.
FinishedConnection(c) ==
  /\ conn[c] = "open"
  /\ conn' = [conn EXCEPT ![c] = "close"]
  /\ UNCHANGED <<register, connLock, current, connects, bak, start, bakLock, apc, page, ghosts>>

\* A mutant of LockAndLoad: without clientConnLock.
LoadUnlocked(c) ==
  /\ conn[c] \in {"accept", "close"}
  /\ connLock' = c
  /\ register' = [register EXCEPT ![c] = current]
  /\ conn' = [conn EXCEPT ![c] = IF @ = "accept" THEN "count" ELSE "discount"]
  /\ UNCHANGED <<current, connects, bak, start, bakLock, apc, page, ghosts>>

\* record_acceptClientConn and record_closeClientConn take the lock and load ...
LockAndLoad(c) ==
  /\ conn[c] \in {"accept", "close"}
  /\ connLock = NULL
  /\ connLock' = c
  /\ register' = [register EXCEPT ![c] = current]
  /\ conn' = [conn EXCEPT ![c] = IF @ = "accept" THEN "count" ELSE "discount"]
  /\ UNCHANGED <<current, connects, bak, start, bakLock, apc, page, ghosts>>

\* ... and store one more or one less.
StoreAndUnlock(c) ==
  /\ conn[c] \in {"count", "discount"}
  /\ current' = IF conn[c] = "count" THEN (register[c] + 1) % Word ELSE Minus(register[c], 1)
  /\ conn' = [conn EXCEPT ![c] = IF @ = "count" THEN "open" ELSE "gone"]
  /\ register' = [register EXCEPT ![c] = 0]
  /\ connLock' = NULL
  /\ UNCHANGED <<connects, bak, start, bakLock, apc, page, ghosts>>
-----------------------------------------------------------------------------
(* The assist thread.                                                       *)

Assist(from, to) == apc = from /\ apc' = to
AssistOnly == UNCHANGED <<threads, current, connects, page>>

\* A mutant of TestDue: a start time of zero is taken for one that is not due.
TestDueOnceStarted ==
  /\ Assist("sleep", "due")
  /\ start = "old"
  /\ UNCHANGED <<bak, start, bakLock, ghosts>> /\ AssistOnly

\* The backup is older than realRecordTime, or there is none.
TestDue ==
  /\ Assist("sleep", "due")
  /\ start # "now"
  /\ UNCHANGED <<bak, start, bakLock, ghosts>> /\ AssistOnly

\* bak_record takes the lock, and with no backup makes one, still empty.
NewBak ==
  /\ Assist("due", "copy")
  /\ bakLock = NULL /\ bakLock' = "assist"
  /\ start' = "now"
  /\ bak' = IF bak = NULL THEN 0 ELSE bak
  /\ UNCHANGED ghosts /\ AssistOnly

CopyBak ==
  /\ Assist("copy", "unlock")
  /\ bak' = connects
  /\ since' = 0 /\ torn' = FALSE
  /\ UNCHANGED <<start, bakLock, clean>> /\ AssistOnly

UnlockBak ==
  /\ Assist("unlock", "sleep")
  /\ bakLock' = NULL
  /\ UNCHANGED <<bak, start, ghosts>> /\ AssistOnly

\* realRecordTime passes.
Clock ==
  /\ start = "now"
  /\ start' = "old"
  /\ UNCHANGED <<bak, bakLock, apc, ghosts>> /\ AssistOnly
-----------------------------------------------------------------------------
(* The statistics page.                                                     *)

Http(from, to) == hpc = from /\ hpc' = to
HttpOnly == UNCHANGED <<threads, apc>>

\* get_realTimeRecord looks for a backup without the lock: with none, the page
\* shows the totals and nothing is left to do.
TestBak ==
  /\ Http("idle", "read")
  /\ bak # NULL
  /\ UNCHANGED <<current, connects, bak, start, bakLock, first, ghosts>> /\ HttpOnly

\* A mutant of LockDiff: reads the backup without its lock.
ReadUnlocked ==
  /\ Http("read", "diff")
  /\ UNCHANGED <<current, connects, bak, start, bakLock, first, ghosts>> /\ HttpOnly

LockDiff ==
  /\ Http("read", "diff")
  /\ bakLock = NULL /\ bakLock' = "http"
  /\ UNCHANGED <<current, connects, bak, start, first, ghosts>> /\ HttpOnly

Difference == Minus(connects, bak)

\* get_diffRecord.  The constructor of its static Record, at the first call,
\* sets the static member bakRecord to NULL; oldRecord still points to it.
Diff ==
  /\ Http("diff", "idle")
  /\ first' = FALSE
  /\ bak' = IF first THEN NULL ELSE bak
  /\ torn' = (torn /\ ~first)
  /\ bakLock' = NULL
  /\ UNCHANGED <<current, connects, start, since, clean>> /\ HttpOnly

\* record_clear: the backup first, under its lock ...
DeleteBak ==
  /\ Http("idle", "start")
  /\ bakLock = NULL
  /\ bak' = NULL
  /\ torn' = FALSE /\ clean' = FALSE
  /\ UNCHANGED <<current, connects, start, bakLock, first, since>> /\ HttpOnly

ClearStart ==
  /\ Http("start", "sums")
  /\ start' = "zero"
  /\ UNCHANGED <<current, connects, bak, bakLock, first, ghosts>> /\ HttpOnly

\* ... then the sums, without clientConnLock ...
ClearSums ==
  /\ Http("sums", "rows")
  /\ current' = 0
  /\ UNCHANGED <<connects, bak, start, bakLock, first, ghosts>> /\ HttpOnly

\* ... and the rows, under clientQueryMapLock.
ClearRows ==
  /\ Http("rows", "idle")
  /\ connects' = 0
  /\ torn' = (bak # NULL)
  /\ UNCHANGED <<current, bak, start, bakLock, first, since, clean>> /\ HttpOnly
-----------------------------------------------------------------------------
AssistStep == TestDue \/ NewBak \/ CopyBak \/ UnlockBak
HttpStep == LockDiff \/ Diff \/ ClearStart \/ ClearSums \/ ClearRows

Next ==
  \/ \E c \in Conns :
       AddNewClient(c) \/ FinishedConnection(c) \/ LockAndLoad(c) \/ StoreAndUnlock(c)
  \/ AssistStep \/ Clock
  \/ TestBak \/ DeleteBak \/ HttpStep

Spec == Init /\ [][Next]_vars

(* The assist thread and the page's thread go on with what they have begun, *)
(* and time passes.  Strong fairness where a mutex has to be had.  Nobody   *)
(* has to come or to look at a page.                                        *)
FairSpec ==
  /\ Spec
  /\ WF_vars(AssistStep) /\ WF_vars(HttpStep) /\ WF_vars(Clock)
  /\ SF_vars(NewBak) /\ SF_vars(LockDiff)
-----------------------------------------------------------------------------
(* Type invariant of the totals, the backup and the three kinds of threads. *)
TypeOK ==
  /\ conn \in [Conns -> {"away", "accept", "count", "open", "close", "discount", "gone"}]
  /\ register \in [Conns -> 0..(Word - 1)]
  /\ connLock \in Conns \cup {NULL}
  /\ current \in 0..(Word - 1) /\ connects \in 0..(Word - 1)
  /\ bak \in 0..(Word - 1) \cup {NULL}
  /\ start \in {"zero", "now", "old"}
  /\ bakLock \in {"assist", "http", NULL}
  /\ apc \in {"sleep", "due", "copy", "unlock"}
  /\ hpc \in {"idle", "read", "diff", "start", "sums", "rows"}
  /\ first \in BOOLEAN /\ since \in Nat /\ torn \in BOOLEAN /\ clean \in BOOLEAN

(* What a real-time page is about to show is exactly what has come since    *)
(* the backup was copied, although the page looks for the backup without    *)
(* its lock, unless a reset has cleared in between what was copied.         *)
(* (get_realTimeRecord, bak_record, get_diffRecord.)                        *)
ShowsTheChange ==
  (hpc = "diff" /\ ~torn) => (bak # NULL /\ Difference = since % Word)

(* Until the first reset sum_currentClientConn is the number of clients     *)
(* that were counted in and not yet out, with any number of threads         *)
(* reporting at once.  (record_acceptClientConn, record_closeClientConn.)   *)
CurrentUntilReset ==
  clean => current = Cardinality({c \in Conns : conn[c] \in {"open", "close", "discount"}})

(* A missing backup, be it after a reset or because the first difference    *)
(* forgot it, and one that holds what a reset has cleared, are replaced.    *)
(* (AssistThread::start, record_clear, get_diffRecord.)                     *)
BakComesBack ==
  (bak = NULL \/ torn) ~> ((bak # NULL /\ ~torn) \/ hpc \in {"start", "sums", "rows"})
=============================================================================
