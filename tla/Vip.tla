--------------------------------- MODULE Vip ----------------------------------
(***************************************************************************)
(* The virtual address (util/vip.cpp): hosts on one network run a thread   *)
(* each that moves an IP address to its own interface when nobody answers  *)
(* a ping to it, and gives it up when it hears another host claim it.      *)
(*                                                                         *)
(* A claim is a broadcast of the claimant's MAC.  A host hears its own     *)
(* claim at once and those of others later, in the order of each sender    *)
(* only; claims may be lost.  The address stays on an interface when the   *)
(* process that put it there ends.  The ioctl calls succeed.               *)
(***************************************************************************)
EXTENDS Naturals, Sequences, FiniteSets

CONSTANTS
  Hosts,     \* the hosts; a host stands for its MAC too
  NoMac,     \* the empty gvipmac
  MaxQueue,  \* claims that the socket of a host holds
  MaxFlight  \* claims of one host on their way to another

ASSUME VipAssumption ==
  /\ NoMac \notin Hosts
  /\ MaxQueue \in Nat \ {0}
  /\ MaxFlight \in Nat \ {0}

VARIABLES
  pc,       \* a host's thread: off, look, ping, set or broadcast
  holds,    \* whether the address is on a host's interface
  gvipmac,  \* the claimant a host heard last
  claims,   \* claims in the socket of a host
  flight,   \* flight[g][h]: number of g's claims on their way to h
  lost      \* history: some claim was not received by a running host

vars == <<pc, holds, gvipmac, claims, flight, lost>>

Running(h) == pc[h] # "off"
Holders == {h \in Hosts : holds[h]}
GoTo(h, from, to) == pc[h] = from /\ pc' = [pc EXCEPT ![h] = to]

Init ==
  /\ pc = [h \in Hosts |-> "off"]
  /\ holds = [h \in Hosts |-> FALSE]
  /\ gvipmac = [h \in Hosts |-> NoMac]
  /\ claims = [h \in Hosts |-> <<>>]
  /\ flight = [g \in Hosts |-> [h \in Hosts |-> 0]]
  /\ lost = FALSE

-----------------------------------------------------------------------------
(* Vip::start *)

\* down_vipAddress and a new socket.
Start(h) ==
  /\ GoTo(h, "off", "look")
  /\ holds' = [holds EXCEPT ![h] = FALSE]
  /\ gvipmac' = [gvipmac EXCEPT ![h] = NoMac]
  /\ UNCHANGED <<claims, flight, lost>>

\* Mutant: only the first claim that is heard counts.
HeardFirst(h) == IF claims[h] = <<>> \/ gvipmac[h] # NoMac THEN gvipmac[h] ELSE Head(claims[h])

\* get_vipMacAddress: at most one claim is read per round.
Heard(h) == IF claims[h] = <<>> THEN gvipmac[h] ELSE Head(claims[h])

\* The address is given up unless the last claim heard is the host's own.
Look(h) ==
  /\ GoTo(h, "look", "ping")
  /\ gvipmac' = [gvipmac EXCEPT ![h] = Heard(h)]
  /\ claims' = [claims EXCEPT ![h] = IF @ = <<>> THEN @ ELSE Tail(@)]
  /\ holds' = [holds EXCEPT ![h] = @ /\ gvipmac'[h] = h]
  /\ UNCHANGED <<flight, lost>>

\* Any interface with the address answers, whatever became of its process.
PingAnswered(h) ==
  /\ Holders # {}
  /\ GoTo(h, "ping", "look")
  /\ UNCHANGED <<holds, gvipmac, claims, flight, lost>>

\* Four packets may be lost, or the socket not be created.
PingFails(h) ==
  /\ GoTo(h, "ping", "set")
  /\ UNCHANGED <<holds, gvipmac, claims, flight, lost>>

\* Mutant: a host that has heard of another claimant leaves the address to it.
SetUnlessClaimed(h) ==
  /\ GoTo(h, "set", "broadcast")
  /\ holds' = [holds EXCEPT ![h] = gvipmac[h] \in {NoMac, h}]
  /\ UNCHANGED <<gvipmac, claims, flight, lost>>

SetVipAddress(h) ==
  /\ GoTo(h, "set", "broadcast")
  /\ holds' = [holds EXCEPT ![h] = TRUE]
  /\ UNCHANGED <<gvipmac, claims, flight, lost>>

\* Mutant: one place more than the queue has.
ReceivesBeyond(h) == Running(h) /\ Len(claims[h]) <= MaxQueue

\* A claim reaches the socket of a running host if it has room for it.
Receives(h) == Running(h) /\ Len(claims[h]) < MaxQueue

(***************************************************************************)
(* send_broadcast: the sender's own socket gets the claim at once.         *)
(***************************************************************************)
SendBroadcast(h) ==
  /\ GoTo(h, "broadcast", "look")
  /\ claims' = [claims EXCEPT ![h] = IF Receives(h) THEN Append(@, h) ELSE @]
  /\ flight' = [flight EXCEPT ![h] =
                  [g \in Hosts |-> IF g # h /\ @[g] < MaxFlight THEN @[g] + 1 ELSE @[g]]]
  /\ lost' = (lost \/ ~Receives(h) \/ \E g \in Hosts \ {h} : flight[h][g] = MaxFlight)
  /\ UNCHANGED <<holds, gvipmac>>

\* The socket could not be created or the packet not be sent: only logged.
SendFails(h) ==
  /\ GoTo(h, "broadcast", "look")
  /\ lost' = TRUE
  /\ UNCHANGED <<holds, gvipmac, claims, flight>>

-----------------------------------------------------------------------------
(* The network and the hosts *)

Deliver(g, h) ==
  /\ flight[g][h] > 0
  /\ flight' = [flight EXCEPT ![g][h] = @ - 1]
  /\ claims' = [claims EXCEPT ![h] = IF Receives(h) THEN Append(@, g) ELSE @]
  /\ lost' = (lost \/ (Running(h) /\ ~Receives(h)))
  /\ UNCHANGED <<pc, holds, gvipmac>>

Lose(g, h) ==
  /\ flight[g][h] > 0
  /\ flight' = [flight EXCEPT ![g][h] = @ - 1]
  /\ lost' = TRUE
  /\ UNCHANGED <<pc, holds, gvipmac, claims>>

(***************************************************************************)
(* The process ends, asked to or not: ~ManagerBase sets m_isStop and does  *)
(* not wait for the thread, and the thread does not give up the address.   *)
(***************************************************************************)
ProcessEnds(h) ==
  /\ Running(h)
  /\ pc' = [pc EXCEPT ![h] = "off"]
  /\ claims' = [claims EXCEPT ![h] = <<>>]
  /\ UNCHANGED <<holds, gvipmac, flight, lost>>

\* The machine goes down, and the address with it.
HostDies(h) ==
  /\ Running(h)
  /\ pc' = [pc EXCEPT ![h] = "off"]
  /\ claims' = [claims EXCEPT ![h] = <<>>]
  /\ holds' = [holds EXCEPT ![h] = FALSE]
  /\ UNCHANGED <<gvipmac, flight, lost>>

Round(h) ==
  \/ Look(h)
  \/ PingAnswered(h)
  \/ PingFails(h)
  \/ SetVipAddress(h)
  \/ SendBroadcast(h)
  \/ SendFails(h)

Next ==
  \/ \E h \in Hosts : Start(h) \/ Round(h) \/ ProcessEnds(h) \/ HostDies(h)
  \/ \E g, h \in Hosts : Deliver(g, h) \/ Lose(g, h)

Spec == Init /\ [][Next]_vars

(* A running thread is scheduled.  Nothing is promised of claims, or that a  *)
(* process is started or ends.                                               *)
FairSpec == Spec /\ \A h \in Hosts : WF_vars(Round(h))
-----------------------------------------------------------------------------
(* Type invariant of the hosts and the network. *)
TypeOK ==
  /\ pc \in [Hosts -> {"off", "look", "ping", "set", "broadcast"}]
  /\ holds \in [Hosts -> BOOLEAN]
  /\ gvipmac \in [Hosts -> Hosts \cup {NoMac}]
  /\ claims \in [Hosts -> Seq(Hosts)]
  /\ \A h \in Hosts : Len(claims[h]) <= MaxQueue
  /\ flight \in [Hosts -> [Hosts -> 0..MaxFlight]]
  /\ lost \in BOOLEAN

\* No thread is in the middle of a round and no claim is left to be heard.
Quiet ==
  /\ \A h \in Hosts : pc[h] \in {"off", "look", "ping"} /\ claims[h] = <<>>
  /\ \A g, h \in Hosts : flight[g][h] = 0

(* Whatever pings went unanswered and however claims crossed, once all of    *)
(* them were heard at most one running host has the address: the host that   *)
(* took it last was heard by all that had taken it before.  (Vip::start      *)
(* reads one claim per round, and may act on one that is out of date.)       *)
OneHolderWhenQuiet ==
  Quiet /\ ~lost => Cardinality({h \in Holders : Running(h)}) <= 1

(* As long as some host's thread keeps running, the address is on some       *)
(* interface again and again: giving it up on an outdated claim, lost        *)
(* claims and hosts that die only interrupt it.  (Vip::start: ping, then     *)
(* set_vip_address.)                                                         *)
AddressAnswers ==
  (\E h \in Hosts : <>[]Running(h)) => []<>(Holders # {})

=============================================================================
