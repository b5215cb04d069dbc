------------------------------- MODULE Leases --------------------------------
(***************************************************************************)
(* What the connection pool promises about backend sockets: a socket is    *)
(* leased to at most one client connection, and passes to another one only *)
(* after it was given back or closed and opened anew.                      *)
(***************************************************************************)
CONSTANTS Sockets,  \* backend sockets, named by their file descriptors
          Conns,    \* client connections
          Nobody,   \* open, and free to be leased
          Closed

VARIABLE holder  \* who has each socket

TypeOK == holder \in [Sockets -> Conns \cup {Nobody, Closed}]

Init == holder = [s \in Sockets |-> Closed]

\* Connection c opens a socket of its own, or leases one that is free.
Take(c, s) ==
  /\ holder[s] \in {Nobody, Closed}
  /\ \A t \in Sockets : holder[t] # c
  /\ holder' = [holder EXCEPT ![s] = c]

\* A connection gives its socket back.
GiveBack(s) ==
  /\ holder[s] \in Conns
  /\ holder' = [holder EXCEPT ![s] = Nobody]

\* A connection closes its socket.
Drop(s) ==
  /\ holder[s] \in Conns
  /\ holder' = [holder EXCEPT ![s] = Closed]

\* Some free sockets are closed.
Expire(S) ==
  /\ S # {} /\ \A s \in S : holder[s] = Nobody
  /\ holder' = [s \in Sockets |-> IF s \in S THEN Closed ELSE holder[s]]

Next ==
  \/ \E s \in Sockets : GiveBack(s) \/ Drop(s) \/ \E c \in Conns : Take(c, s)
  \/ \E S \in SUBSET Sockets : Expire(S)

Spec == Init /\ [][Next]_holder
=============================================================================
