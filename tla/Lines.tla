-------------------------------- MODULE Lines --------------------------------
(***************************************************************************)
(* What the dispatcher promises its clients: whoever is accepted stands in *)
(* one line at a time, first the common one or at once that of a client    *)
(* thread; every line is served from its front, and nobody comes back.     *)
(***************************************************************************)
EXTENDS Naturals, Sequences

CONSTANTS Clients,
          Threads  \* those who serve

VARIABLES held,    \* accepted, and in no line yet
          queue,   \* the common line
          line,    \* per thread: those it will serve
          served,  \* per thread: those it serves
          ended

vars == <<held, queue, line, served, ended>>

Standing(s) == {s[i] : i \in 1..Len(s)}
Present == held \cup Standing(queue) \cup ended
             \cup UNION {Standing(line[t]) \cup served[t] : t \in Threads}

TypeOK ==
  /\ held \subseteq Clients /\ ended \subseteq Clients
  /\ queue \in Seq(Clients)
  /\ line \in [Threads -> Seq(Clients)]
  /\ served \in [Threads -> SUBSET Clients]

Init ==
  /\ held = {} /\ ended = {} /\ queue = <<>>
  /\ line = [t \in Threads |-> <<>>]
  /\ served = [t \in Threads |-> {}]

Arrive(c) ==
  /\ c \notin Present
  /\ held' = held \cup {c}
  /\ UNCHANGED <<queue, line, served, ended>>

\* No thread has room.
Queue(c) ==
  /\ c \in held
  /\ held' = held \ {c}
  /\ queue' = Append(queue, c)
  /\ UNCHANGED <<line, served, ended>>

Join(c, t) ==
  /\ c \in held
  /\ held' = held \ {c}
  /\ line' = [line EXCEPT ![t] = Append(@, c)]
  /\ UNCHANGED <<queue, served, ended>>

\* Whoever has stood in the common line longest goes to a thread.
Call(t) ==
  /\ queue # <<>>
  /\ queue' = Tail(queue)
  /\ line' = [line EXCEPT ![t] = Append(@, Head(queue))]
  /\ UNCHANGED <<held, served, ended>>

\* A thread takes over the first of its line.
Serve(t) ==
  /\ line[t] # <<>>
  /\ line' = [line EXCEPT ![t] = Tail(@)]
  /\ served' = [served EXCEPT ![t] = @ \cup {Head(line[t])}]
  /\ UNCHANGED <<held, queue, ended>>

End(c, t) ==
  /\ c \in served[t]
  /\ served' = [served EXCEPT ![t] = @ \ {c}]
  /\ ended' = ended \cup {c}
  /\ UNCHANGED <<held, queue, line>>

Next ==
  \/ \E c \in Clients : Arrive(c) \/ Queue(c) \/ \E t \in Threads : Join(c, t) \/ End(c, t)
  \/ \E t \in Threads : Call(t) \/ Serve(t)

Spec == Init /\ [][Next]_vars
=============================================================================
