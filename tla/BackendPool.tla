----------------------------- MODULE BackendPool -----------------------------
(***************************************************************************)
(* Backend sockets: how a connection gets one (protocolbase.cpp), the      *)
(* ConnectionPool it comes from and goes back to (connectionpool.cpp), the *)
(* count DataBase::connectNum keeps of them (config.h) and the sweep that  *)
(* the assist thread makes over the idle ones.                             *)
(*                                                                         *)
(* A connection runs in a client thread; the connections modelled here are *)
(* in threads of their own, since only those interleave.  A connection     *)
(* that has ended starts again as a new one.  Every critical section of    *)
(* the pool is one step; the test of the limit, which is outside, another. *)
(***************************************************************************)
EXTENDS Integers, Sequences, FiniteSets

CONSTANTS
  Conns,        \* client connections
  DataBases,    \* backends; each is one key of idle_sock
  Sockets,      \* file descriptors of backend sockets
  NULL,
  Pooled,       \* databases whose DataBaseGroup has useConnectionPool
  Limit,        \* connectNumLimit of every database
  IdleCheck,    \* idle_timeout_check
  IdleRelease,  \* idle_timeout_release
  MaxBack,      \* bound: how far the clock is set back, once
  ClockMod      \* 2^64: times are unsigned

ASSUME BackendPoolAssumption ==
  /\ NULL \notin Sockets \cup DataBases
  /\ IsFiniteSet(Sockets)
  /\ Conns \cap {"nobody", "closed"} = {}
  /\ Pooled \subseteq DataBases
  /\ Limit \in Nat
  /\ IdleCheck \in Nat /\ IdleRelease \in Nat
  /\ MaxBack \in Nat
  /\ ClockMod \in Nat /\ ClockMod > IdleCheck + IdleRelease + 1 + MaxBack

VARIABLES
  pc,          \* where each connection is between its start and its end
  db,          \* curdb(): the database it chose
  sock,        \* its masters or slavers socket
  idle_sock,   \* per database, the deque of idle SockInfo, front first
  used_sock,   \* the keys of used_sock
  openTo,      \* the database each open socket is connected to
  connectNum,  \* DataBase::connectNum
  lag,         \* the global time minus the pool's current_time
  sweeper,     \* where the assist thread is in check_connectActive
  setBack      \* history: the clock has been set back

timeVars == <<lag, sweeper, setBack>>
vars == <<pc, db, sock, idle_sock, used_sock, openTo, connectNum, lag, sweeper, setBack>>

-----------------------------------------------------------------------------
(* Times are kept as ages: current_time - start_use_time.  All ages beyond  *)
(* both of the configured times are one.                                    *)

Longest == IF IdleCheck > IdleRelease THEN IdleCheck ELSE IdleRelease
Old == Longest + 1
Ages == (-MaxBack)..Old

Shift(age, by) ==
  IF age = Old \/ age + by > Old THEN Old
  ELSE IF age + by < -MaxBack THEN -MaxBack
  ELSE age + by

\* The difference as the code computes it.
Elapsed(age) == age % ClockMod

Open == {s \in Sockets : openTo[s] # NULL}
IdleSockets(d) == {idle_sock[d][i].socket : i \in 1..Len(idle_sock[d])}

Init ==
  /\ pc = [c \in Conns |-> "start"]
  /\ db = [c \in Conns |-> NULL]
  /\ sock = [c \in Conns |-> NULL]
  /\ idle_sock = [d \in DataBases |-> <<>>]
  /\ used_sock = {}
  /\ openTo = [s \in Sockets |-> NULL]
  /\ connectNum = [d \in DataBases |-> 0]
  /\ lag = 0
  /\ sweeper = "before"
  /\ setBack = FALSE

-----------------------------------------------------------------------------
(* std::deque: back(), pop_back(), and erase() at all positions but those   *)
(* of K, which keep their order.  i is the n-th of K if n of K are up to i. *)

Back(q) == q[Len(q)]

PopBack(q) == SubSeq(q, 1, Len(q) - 1)

Rank(K, i) == Cardinality({j \in K : j <= i})

Keep(q, K) == [n \in 1..Cardinality(K) |-> q[CHOOSE i \in K : Rank(K, i) = n]]

-----------------------------------------------------------------------------
(* protocol_getBackendConnect *)

GoTo(c, from, to) == pc[c] = from /\ pc' = [pc EXCEPT ![c] = to]

\* Mutant: the socket is not taken out of the deque.
GetWithoutPop(c, d) ==
  /\ d \in Pooled /\ idle_sock[d] # <<>>
  /\ GoTo(c, "start", "using")
  /\ db' = [db EXCEPT ![c] = d]
  /\ sock' = [sock EXCEPT ![c] = Back(idle_sock[d]).socket]
  /\ used_sock' = used_sock \cup {Back(idle_sock[d]).socket}
  /\ UNCHANGED <<idle_sock, openTo, connectNum, timeVars>>

\* chooseDatabase, then ConnectionPool::get_backendConnect finds one: the
\* socket that was used last.
GetBackendConnect(c, d) ==
  /\ d \in Pooled /\ idle_sock[d] # <<>>
  /\ GoTo(c, "start", "using")
  /\ db' = [db EXCEPT ![c] = d]
  /\ sock' = [sock EXCEPT ![c] = Back(idle_sock[d]).socket]
  /\ idle_sock' = [idle_sock EXCEPT ![d] = PopBack(@)]
  /\ used_sock' = used_sock \cup {Back(idle_sock[d]).socket}
  /\ UNCHANGED <<openTo, connectNum, timeVars>>

\* There is none, or no pool.
NoneIdle(c, d) ==
  /\ d \in Pooled => idle_sock[d] = <<>>
  /\ GoTo(c, "start", "create")
  /\ db' = [db EXCEPT ![c] = d]
  /\ UNCHANGED <<sock, idle_sock, used_sock, openTo, connectNum, timeVars>>

\* The test of connectNumLimit, without a lock.
TestLimit(c) ==
  /\ GoTo(c, "create", IF connectNum[db[c]] >= Limit THEN "failed" ELSE "connect")
  /\ UNCHANGED <<db, sock, idle_sock, used_sock, openTo, connectNum, timeVars>>

\* Mutant: inc_connectionNum is forgotten.
ConnectUncounted(c) ==
  /\ GoTo(c, "connect", IF db[c] \in Pooled THEN "save" ELSE "using")
  /\ \E s \in Sockets \ Open :
       /\ sock' = [sock EXCEPT ![c] = s]
       /\ openTo' = [openTo EXCEPT ![s] = db[c]]
  /\ UNCHANGED <<db, idle_sock, used_sock, connectNum, timeVars>>

\* connect() succeeds, set_dataBase, inc_connectionNum.
Connect(c) ==
  /\ GoTo(c, "connect", IF db[c] \in Pooled THEN "save" ELSE "using")
  /\ \E s \in Sockets \ Open :
       /\ sock' = [sock EXCEPT ![c] = s]
       /\ openTo' = [openTo EXCEPT ![s] = db[c]]
  /\ connectNum' = [connectNum EXCEPT ![db[c]] = @ + 1]
  /\ UNCHANGED <<db, idle_sock, used_sock, timeVars>>

ConnectFails(c) ==
  /\ GoTo(c, "connect", "failed")
  /\ UNCHANGED <<db, sock, idle_sock, used_sock, openTo, connectNum, timeVars>>

\* add_socketToPool: save_backendConnect with is_using.
AddSocketToPool(c) ==
  /\ GoTo(c, "save", "using")
  /\ used_sock' = used_sock \cup {sock[c]}
  /\ UNCHANGED <<db, sock, idle_sock, openTo, connectNum, timeVars>>

-----------------------------------------------------------------------------
(* protocol_releaseBackendConnect *)

Ends(c) ==
  /\ GoTo(c, "using", "start")
  /\ db' = [db EXCEPT ![c] = NULL]
  /\ sock' = [sock EXCEPT ![c] = NULL]

\* Mutant: counted out by the pool and by ~NetworkSocket, without the floor.
CloseCountedTwice(S) ==
  /\ openTo' = [s \in Sockets |-> IF s \in S THEN NULL ELSE openTo[s]]
  /\ connectNum' = [d \in DataBases |->
       connectNum[d] - 2 * Cardinality({s \in S : openTo[s] = d})]

\* ~NetworkSocket closes the descriptor and counts it out.
Close(S) ==
  /\ openTo' = [s \in Sockets |-> IF s \in S THEN NULL ELSE openTo[s]]
  /\ connectNum' = [d \in DataBases |->
       LET n == Cardinality({s \in S : openTo[s] = d})
       IN IF connectNum[d] > n THEN connectNum[d] - n ELSE 0]

\* Mutants: the socket goes to the front of its deque ...
SetAtFront(c) ==
  /\ db[c] \in Pooled /\ sock[c] \in used_sock
  /\ Ends(c)
  /\ idle_sock' = [idle_sock EXCEPT ![openTo[sock[c]]] =
                     <<[socket |-> sock[c], age |-> 0]>> \o @]
  /\ used_sock' = used_sock \ {sock[c]}
  /\ UNCHANGED <<openTo, connectNum, timeVars>>

\* ... or stays with the connection, too.
SetButKeep(c) ==
  /\ db[c] \in Pooled /\ sock[c] \in used_sock
  /\ GoTo(c, "using", "start")
  /\ idle_sock' = [idle_sock EXCEPT ![openTo[sock[c]]] =
                     Append(@, [socket |-> sock[c], age |-> 0])]
  /\ used_sock' = used_sock \ {sock[c]}
  /\ UNCHANGED <<db, sock, openTo, connectNum, timeVars>>

\* set_backendConnect: the socket goes to the back of its deque.
SetBackendConnect(c) ==
  /\ db[c] \in Pooled /\ sock[c] \in used_sock
  /\ Ends(c)
  /\ idle_sock' = [idle_sock EXCEPT ![openTo[sock[c]]] =
                     Append(@, [socket |-> sock[c], age |-> 0])]
  /\ used_sock' = used_sock \ {sock[c]}
  /\ UNCHANGED <<openTo, connectNum, timeVars>>

\* The connection ended in an error: release_backendSocket.
ReleaseBackendSocket(c) ==
  /\ db[c] \in Pooled /\ sock[c] \in used_sock
  /\ Ends(c)
  /\ used_sock' = used_sock \ {sock[c]}
  /\ Close({sock[c]})
  /\ UNCHANGED <<idle_sock, timeVars>>

\* Mutant: the socket is closed but not counted out.
DeleteUncounted(c) ==
  /\ pc[c] = "using" /\ db[c] \notin Pooled
  /\ Ends(c)
  /\ openTo' = [openTo EXCEPT ![sock[c]] = NULL]
  /\ UNCHANGED <<connectNum, idle_sock, used_sock, timeVars>>

\* No pool: the socket is deleted however the connection ended.
DeleteSocket(c) ==
  /\ pc[c] = "using" /\ db[c] \notin Pooled
  /\ Ends(c)
  /\ Close({sock[c]})
  /\ UNCHANGED <<idle_sock, used_sock, timeVars>>

\* A connection that got no socket ends with none to release.
EndWithout(c) ==
  /\ GoTo(c, "failed", "start")
  /\ db' = [db EXCEPT ![c] = NULL]
  /\ UNCHANGED <<sock, idle_sock, used_sock, openTo, connectNum, timeVars>>

-----------------------------------------------------------------------------
(* check_connectActive, once a second; the clock is the wall clock. *)

Clock ==
  /\ \/ lag' = Shift(lag, 1) /\ UNCHANGED setBack
     \/ MaxBack > 0 /\ ~setBack /\ setBack' = TRUE /\ lag' = Shift(lag, -MaxBack)
  /\ UNCHANGED <<pc, db, sock, idle_sock, used_sock, openTo, connectNum, sweeper>>

\* Mutant: current_time is never refreshed.
KeepCurrentTime ==
  /\ \/ sweeper = "before" /\ sweeper' = "sweep"
     \/ sweeper = "after" /\ sweeper' = "before"
  /\ UNCHANGED <<pc, db, sock, idle_sock, used_sock, openTo, connectNum, lag, setBack>>

\* current_time = config()->get_globalMillisecondTime(), before and after.
SetCurrentTime ==
  /\ \/ sweeper = "before" /\ sweeper' = "sweep"
     \/ sweeper = "after" /\ sweeper' = "before"
  /\ idle_sock' = [d \in DataBases |->
       [i \in 1..Len(idle_sock[d]) |->
          [idle_sock[d][i] EXCEPT !.age = Shift(@, lag)]]]
  /\ lag' = 0
  /\ UNCHANGED <<pc, db, sock, used_sock, openTo, connectNum, setBack>>

\* The positions of a deque that are deleted: of the sockets up to the first
\* one used recently, where the loop leaves it, those idle for too long.
Expired(d) ==
  {i \in 1..Len(idle_sock[d]) :
     /\ \A j \in 1..i : Elapsed(idle_sock[d][j].age) > IdleCheck
     /\ Elapsed(idle_sock[d][i].age) > IdleRelease}

ExpiredSockets == UNION {{idle_sock[d][i].socket : i \in Expired(d)} : d \in DataBases}

Sweep ==
  /\ sweeper = "sweep" /\ sweeper' = "after"
  /\ idle_sock' = [d \in DataBases |->
       Keep(idle_sock[d], 1..Len(idle_sock[d]) \ Expired(d))]
  /\ Close(ExpiredSockets)
  /\ UNCHANGED <<pc, db, sock, used_sock, lag, setBack>>

-----------------------------------------------------------------------------
Next ==
  \/ \E c \in Conns :
       \/ TestLimit(c) \/ Connect(c) \/ ConnectFails(c) \/ AddSocketToPool(c)
       \/ SetBackendConnect(c) \/ ReleaseBackendSocket(c) \/ DeleteSocket(c)
       \/ EndWithout(c)
       \/ \E d \in DataBases : GetBackendConnect(c, d) \/ NoneIdle(c, d)
  \/ Clock \/ SetCurrentTime \/ Sweep

Spec == Init /\ [][Next]_vars

(***************************************************************************)
(* The assist thread goes round and the clock goes on; nothing is assumed  *)
(* of the connections.                                                     *)
(***************************************************************************)
Fairness == WF_vars(SetCurrentTime) /\ WF_vars(Sweep) /\ WF_vars(Clock)

FairSpec == Spec /\ Fairness
-----------------------------------------------------------------------------
(* Type invariant of the pool, the connections and the times. *)
TypeOK ==
  /\ pc \in [Conns -> {"start", "create", "connect", "save", "using", "failed"}]
  /\ db \in [Conns -> DataBases \cup {NULL}]
  /\ sock \in [Conns -> Sockets \cup {NULL}]
  /\ idle_sock \in [DataBases -> Seq([socket : Sockets, age : Ages])]
  /\ used_sock \in SUBSET Sockets
  /\ openTo \in [Sockets -> DataBases \cup {NULL}]
  /\ connectNum \in [DataBases -> Nat]
  /\ lag \in Ages
  /\ sweeper \in {"before", "sweep", "after"}
  /\ setBack \in BOOLEAN

(* Every open socket is in one place: once in the deque of its database, or *)
(* with one connection, which asked for that database; and the pool lists   *)
(* as used exactly the sockets connections use, so that the look-up of      *)
(* set_backendConnect and release_backendSocket never fails.                *)
OneOwner ==
  /\ \A d \in DataBases : Cardinality(IdleSockets(d)) = Len(idle_sock[d])
  /\ \A s \in Sockets :
       LET owners == {c \in Conns : sock[c] = s}
       IN IF owners = {}
          THEN \A d \in DataBases : s \in IdleSockets(d) <=> openTo[s] = d
          ELSE \E c \in Conns :
                 /\ owners = {c} /\ openTo[s] = db[c]
                 /\ s \notin UNION {IdleSockets(d) : d \in DataBases}
                 /\ s \in used_sock <=> pc[c] = "using" /\ db[c] \in Pooled
  /\ \A s \in used_sock : \E c \in Conns : sock[c] = s

(* connectNum counts the open sockets of its database, those that idle in   *)
(* the pool included.  (inc_connectionNum after connect, dec_connectionNum  *)
(* in ~NetworkSocket, by whichever thread deletes the socket.)              *)
CountsOpenSockets ==
  \A d \in DataBases : connectNum[d] = Cardinality({s \in Sockets : openTo[s] = d})

(* A sweep closes a socket only if it was idle for longer than the release  *)
(* time or seems to come from the future, which the clock must have been    *)
(* set back for; and until then it leaves none that was idle for longer     *)
(* than both times, although it stops at the first one used recently: the   *)
(* deque is in the order of last use.  (check_connectActive; released when  *)
(* not used for long, connectionpool.h:128)                                 *)
SweepClosesIdle ==
  [][Sweep => \A d \in DataBases : \A i \in 1..Len(idle_sock[d]) :
       LET e == idle_sock[d][i]
           closes == openTo'[e.socket] = NULL
       IN /\ closes => e.age > IdleRelease \/ (e.age < 0 /\ setBack)
          /\ e.age > Longest /\ ~setBack => closes]_vars

(* An idle socket does not stay in the pool for ever: connections take it   *)
(* or the sweep closes it, although connections prefer those at the back.   *)
IdleLeaves ==
  \A s \in Sockets, d \in DataBases :
    s \in IdleSockets(d) ~> s \notin IdleSockets(d)

(* Each socket's holder, as the pool's promise sees it.                     *)
Holder(s) ==
  IF openTo[s] = NULL THEN "closed"
  ELSE IF \E c \in Conns : sock[c] = s THEN CHOOSE c \in Conns : sock[c] = s
  ELSE "nobody"

Promise == INSTANCE Leases WITH
  Nobody <- "nobody", Closed <- "closed",
  holder <- [s \in Sockets |-> Holder(s)]

(* The pool leases each socket to one connection at a time.                 *)
ImplementsLeases == Promise!Spec
=============================================================================
