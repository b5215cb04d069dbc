------------------------------- MODULE Streams -------------------------------
(***************************************************************************)
(* What a relayed connection promises its two peers: two byte streams, one *)
(* per direction, each delivered in order, without loss or duplication,    *)
(* until the connection is closed.  Bytes are named by what was sent; a    *)
(* stream is identified by the side that receives it.                      *)
(***************************************************************************)
EXTENDS Naturals, Sequences

CONSTANTS Receivers,  \* the two ends of the connection
          Bytes  \* the values that travel

VARIABLES pending,    \* per receiving end: sent to it, not yet delivered
          delivered,  \* per receiving end: everything delivered to it
          up          \* FALSE once the connection is closed

vars == <<pending, delivered, up>>

TypeOK ==
  /\ pending \in [Receivers -> Seq(Bytes)]
  /\ delivered \in [Receivers -> Seq(Bytes)]
  /\ up \in BOOLEAN

Init ==
  /\ pending = [e \in Receivers |-> <<>>]
  /\ delivered = [e \in Receivers |-> <<>>]
  /\ up = TRUE

\* A peer sends one byte towards end e.
Send(e) ==
  /\ up
  /\ \E b \in Bytes : pending' = [pending EXCEPT ![e] = Append(@, b)]
  /\ UNCHANGED <<delivered, up>>

\* A non-empty front part of the stream towards e reaches it.
Deliver(e) ==
  /\ up
  /\ \E n \in 1..Len(pending[e]) :
       /\ delivered' = [delivered EXCEPT ![e] = @ \o SubSeq(pending[e], 1, n)]
       /\ pending' = [pending EXCEPT ![e] = SubSeq(@, n + 1, Len(@))]
  /\ UNCHANGED up

\* The connection ends; what is still pending is dropped.
Close ==
  /\ up
  /\ up' = FALSE
  /\ pending' = [e \in Receivers |-> <<>>]
  /\ UNCHANGED delivered

Next == Close \/ \E e \in Receivers : Send(e) \/ Deliver(e)

Spec == Init /\ [][Next]_vars
=============================================================================
