----------------------------- MODULE RelayProofs -----------------------------
(***************************************************************************)
(* Invariance proofs for the relay, for any number of bytes, any kernel    *)
(* buffer and any number of connection attempts.                           *)
(***************************************************************************)
EXTENDS Relay, SequenceTheorems, TLAPS

(***************************************************************************)
(* A retry timer is only armed after a failed attempt, which leaves a      *)
(* socket behind; the handler writes once a server socket is stored; only  *)
(* the first of its writes is for what was read, so that once a side is    *)
(* blocked there are left-overs to write and nothing else.                 *)
(***************************************************************************)
ServerInv ==
  /\ timers > 0 /\ Live => server = "unconnected"
  /\ todo # <<>> => Live /\ server # "none"
  /\ recvData["back"] # <<>> => server = "connected"

TodoInv ==
  \A i \in 1..Len(todo) :
    i > 1 \/ (\E s \in Sides : Blocked(s)) => todo[i].what = "sendData"

IInv == TypeOK /\ StreamIntact /\ NeverDeaf /\ ServerInv /\ TodoInv

-----------------------------------------------------------------------------
(* Sequences. *)

(* Taking n elements off a sequence loses and reorders nothing.             *)
LEMMA SplitAt ==
  ASSUME NEW S, NEW all \in Seq(S), NEW n \in 0..Len(all)
  PROVE  /\ SubSeq(all, 1, n) \in Seq(S)
         /\ SubSeq(all, n + 1, Len(all)) \in Seq(S)
         /\ SubSeq(all, 1, n) \o SubSeq(all, n + 1, Len(all)) = all
<1>1. Len(all) \in Nat /\ \A i \in 1..Len(all) : all[i] \in S
  BY LenProperties, ElementOfSeq
<1>2. SubSeq(all, 1, n) \in Seq(S)
  <2>1. n \in Int /\ 1 \in Int /\ \A i \in 1..n : all[i] \in S
    BY <1>1
  <2> QED
    BY <2>1, SubSeqProperties
<1>3. SubSeq(all, n + 1, Len(all)) \in Seq(S)
  <2>1. n + 1 \in Int /\ Len(all) \in Int /\ \A i \in (n + 1)..Len(all) : all[i] \in S
    BY <1>1
  <2> QED
    BY <2>1, SubSeqProperties
<1>4. SubSeq(all, 1, n) \o SubSeq(all, n + 1, Len(all)) = SubSeq(all, 1, Len(all))
  <2>1. 1 \in 1..(Len(all) + 1) /\ n \in (1 - 1)..Len(all) /\ Len(all) \in n..Len(all)
    BY <1>1
  <2> QED
    BY <2>1, ConcatAdjacentSubSeq, Zenon
<1> QED
  BY <1>2, <1>3, <1>4, SubSeqFull

(* Three sequences in a row.                                                *)
LEMMA Assoc ==
  \A S : \A p, q, r \in Seq(S) : (p \o q) \o r \in Seq(S) /\ (p \o q) \o r = p \o (q \o r)
<1> SUFFICES ASSUME NEW S, NEW p \in Seq(S), NEW q \in Seq(S), NEW r \in Seq(S)
             PROVE  (p \o q) \o r \in Seq(S) /\ (p \o q) \o r = p \o (q \o r)
  OBVIOUS
<1>1. p \o q \in Seq(S)
  BY ConcatProperties
<1>2. (p \o q) \o r \in Seq(S)
  BY <1>1, ConcatProperties
<1>3. (p \o q) \o r = p \o (q \o r)
  BY ConcatAssociative, SMTT(30)
<1> QED
  BY <1>2, <1>3

(* A byte that is added at the end of the last of them.                     *)
LEMMA AppendToConcat ==
  ASSUME NEW S, NEW u \in Seq(S), NEW v \in Seq(S), NEW e \in S
  PROVE  u \o Append(v, e) = Append(u \o v, e)
<1>1. Append(v, e) = v \o <<e>> /\ <<e>> \in Seq(S)
  BY AppendIsConcat
<1>2. u \o v \in Seq(S)
  BY ConcatProperties
<1>3. Append(u \o v, e) = (u \o v) \o <<e>>
  BY <1>2, AppendIsConcat
<1>4. (u \o v) \o <<e>> = u \o (v \o <<e>>)
  BY <1>1, ConcatAssociative
<1> QED
  BY <1>1, <1>3, <1>4

(* The next byte of a peer.                                                 *)
LEMMA StreamGrows ==
  ASSUME NEW n \in Nat, n < MaxBytes
  PROVE  /\ Stream(n) \in Seq(Bytes)
         /\ Stream(n + 1) = Append(Stream(n), n + 1)
         /\ n + 1 \in Bytes
<1>1. n + 1 \in Bytes
  BY RelayAssumption DEF Bytes
<1>2. \A m \in 0..MaxBytes : Stream(m) \in Seq(Bytes) /\ Len(Stream(m)) = m
  BY RelayAssumption DEF Stream, Bytes
<1>3. Stream(n) \in Seq(Bytes) /\ Len(Stream(n)) = n
  BY <1>2, RelayAssumption
<1>4. Stream(n + 1) \in Seq(Bytes) /\ Len(Stream(n + 1)) = n + 1
  BY <1>2, RelayAssumption
<1>5. /\ Append(Stream(n), n + 1) \in Seq(Bytes)
      /\ Len(Append(Stream(n), n + 1)) = n + 1
      /\ \A i \in 1..n : Append(Stream(n), n + 1)[i] = Stream(n)[i]
      /\ Append(Stream(n), n + 1)[n + 1] = n + 1
  BY <1>1, <1>3, AppendProperties
<1>6. \A i \in 1..(n + 1) : Stream(n + 1)[i] = Append(Stream(n), n + 1)[i]
  BY <1>5 DEF Stream
<1> QED
  BY <1>1, <1>3, <1>4, <1>5, <1>6, SeqEqual

-----------------------------------------------------------------------------
(* Writes. *)

\* Direction s of the stream: StreamIntact says this of both.
Intact(s) ==
  delivered[s] \o sendData[s] \o recvData[Other(s)] \o inbox[Other(s)]
    = Stream(sent[Other(s)])

(* A connection has two sides.                                              *)
LEMMA OtherSide ==
  \A s \in Sides : Other(s) \in Sides /\ Other(s) # s /\ Other(Other(s)) = s
BY DEF Sides, Other

(* What one write takes and what it leaves make what was to be written.     *)
LEMMA WriteSplits ==
  ASSUME TypeOK, NEW dst \in Sides
  PROVE  /\ Accepts(dst) \in Nat
         /\ Accepts(dst) <= room[dst]
         /\ Taken(dst) \in Seq(Bytes)
         /\ Rest(dst) \in Seq(Bytes)
         /\ Taken(dst) \o Rest(dst) = sendData[dst] \o recvData[Other(dst)]
<1>1. sendData[dst] \in Seq(Bytes) /\ recvData[Other(dst)] \in Seq(Bytes)
  BY OtherSide DEF TypeOK
<1>2. ToWrite(dst) \in Seq(Bytes)
  BY <1>1, ConcatProperties DEF ToWrite
<1>3. Len(ToWrite(dst)) \in Nat
  BY <1>2, LenProperties
<1>4. room[dst] \in Nat
  BY RelayAssumption DEF TypeOK
<1>5. Accepts(dst) \in 0..Len(ToWrite(dst)) /\ Accepts(dst) <= room[dst]
  BY <1>3, <1>4 DEF Accepts
<1>6. /\ Taken(dst) \in Seq(Bytes)
      /\ Rest(dst) \in Seq(Bytes)
      /\ Taken(dst) \o Rest(dst) = ToWrite(dst)
  BY <1>2, <1>5, SplitAt DEF Taken, Rest
<1> QED
  BY <1>3, <1>5, <1>6 DEF ToWrite

(* A write keeps the types (write_data).                                    *)
LEMMA WriteOutTypes ==
  ASSUME TypeOK, NEW dst \in Sides, WriteOut(dst)
  PROVE  /\ reg' \in [Sides -> {"none", "read", "write"}]
         /\ recvData' \in [Sides -> Seq(Bytes)]
         /\ sendData' \in [Sides -> Seq(Bytes)]
         /\ room' \in [Sides -> 0..SndBuf]
         /\ delivered' \in [Sides -> Seq(Bytes)]
<1>1. reg' \in [Sides -> {"none", "read", "write"}]
  BY DEF WriteOut, Moved, TypeOK
<1>2. recvData' \in [Sides -> Seq(Bytes)]
  BY EmptySeq DEF WriteOut, Moved, TypeOK
<1>3. sendData' \in [Sides -> Seq(Bytes)]
  BY WriteSplits DEF WriteOut, Moved, TypeOK
<1>4. room' \in [Sides -> 0..SndBuf]
  <2>1. room[dst] - Accepts(dst) \in 0..SndBuf
    BY WriteSplits, RelayAssumption DEF TypeOK
  <2> QED
    BY <2>1 DEF WriteOut, Moved, TypeOK
<1>5. delivered' \in [Sides -> Seq(Bytes)]
  <2>1. delivered[dst] \o Taken(dst) \in Seq(Bytes)
    BY WriteSplits, ConcatProperties DEF TypeOK
  <2> QED
    BY <2>1 DEF WriteOut, Moved, TypeOK
<1> QED
  BY <1>1, <1>2, <1>3, <1>4, <1>5

\* A write moves bytes from the left-over and from what was read to the peer,
\* and leaves the other direction alone.
LEMMA WriteOutIntact ==
  ASSUME TypeOK, NEW dst \in Sides, WriteOut(dst), UNCHANGED <<inbox, sent>>,
         \A s \in Sides : Intact(s)
  PROVE  \A s \in Sides : Intact(s)'
<1>1. Intact(dst)'
  <2> DEFINE src == Other(dst)
  <2>1. /\ delivered[dst] \in Seq(Bytes) /\ sendData[dst] \in Seq(Bytes)
        /\ recvData[src] \in Seq(Bytes)
    BY OtherSide DEF TypeOK
  <2>2. /\ delivered'[dst] = delivered[dst] \o Taken(dst)
        /\ sendData'[dst] = Rest(dst)
        /\ recvData'[src] = <<>>
    BY OtherSide DEF WriteOut, Moved, TypeOK
  <2>3. ((delivered[dst] \o Taken(dst)) \o Rest(dst)) \o <<>>
          = (delivered[dst] \o sendData[dst]) \o recvData[src]
    <3> DEFINE d == delivered[dst]  x == sendData[dst]  y == recvData[src]
               a == Taken(dst)      b == Rest(dst)
    <3>1. /\ d \in Seq(Bytes) /\ a \in Seq(Bytes) /\ b \in Seq(Bytes)
          /\ x \in Seq(Bytes) /\ y \in Seq(Bytes)
      BY <2>1, WriteSplits
    <3>2. a \o b = x \o y
      BY WriteSplits
    <3> HIDE DEF d, a, b, x, y
    <3>3. (d \o a) \o b = d \o (a \o b)
      BY <3>1, ConcatAssociative, SMTT(30)
    <3>4. (d \o x) \o y = d \o (x \o y)
      BY <3>1, ConcatAssociative, SMTT(30)
    <3>5. (d \o a) \o b \in Seq(Bytes)
      <4>1. d \o a \in Seq(Bytes)
        BY <3>1, ConcatProperties
      <4> QED
        BY <3>1, <4>1, ConcatProperties
    <3>6. ((d \o a) \o b) \o <<>> = (d \o a) \o b
      BY <3>5, ConcatEmptySeq
    <3> QED
      BY <3>2, <3>3, <3>4, <3>6 DEF d, a, b, x, y
  <2>4. inbox'[src] = inbox[src] /\ sent'[src] = sent[src]
    OBVIOUS
  <2>5. Intact(dst)
    OBVIOUS
  <2> QED
    BY <2>2, <2>3, <2>4, <2>5 DEF Intact, Stream
<1>2. Intact(Other(dst))'
  <2> DEFINE src == Other(dst)
  <2>1. /\ delivered'[src] = delivered[src]
        /\ sendData'[src] = sendData[src]
        /\ recvData'[dst] = recvData[dst]
    BY OtherSide DEF WriteOut, Moved, TypeOK
  <2>2. inbox'[dst] = inbox[dst] /\ sent'[dst] = sent[dst] /\ Other(src) = dst
    BY OtherSide
  <2>3. Intact(src)
    BY OtherSide
  <2> QED
    BY <2>1, <2>2, <2>3 DEF Intact, Stream
<1> QED
  BY <1>1, <1>2 DEF Sides, Other

\* From the flowing state a write leads to the flowing state or blocks dst;
\* once dst is blocked, a write to it unblocks it or leaves it blocked.
LEMMA WriteOutWatches ==
  ASSUME TypeOK, NEW dst \in Sides, WriteOut(dst), server = "connected", server' = server,
         Flowing \/ Blocked(dst)
  PROVE  (Flowing \/ Blocked(dst))'
<1>1. /\ sendData'[dst] = Rest(dst)
      /\ sendData'[Other(dst)] = sendData[Other(dst)]
      /\ sendData[Other(dst)] = <<>>
  BY OtherSide DEF WriteOut, Moved, TypeOK, Flowing, Blocked
<1>2. CASE Rest(dst) # <<>>
  <2>1. reg'[dst] = "write" /\ reg'[Other(dst)] = "none"
    BY <1>2, OtherSide DEF WriteOut, Moved, TypeOK
  <2> QED
    BY <1>1, <1>2, <2>1 DEF Blocked
<1>3. CASE Rest(dst) = <<>>
  <2>1. reg'[dst] = "read"
    BY <1>3, OtherSide DEF WriteOut, Moved, TypeOK
  <2>2. reg'[Other(dst)] = "read"
    BY <1>3, OtherSide DEF WriteOut, Moved, TypeOK, Flowing, Blocked, Sides, Other
  <2> QED
    BY <1>1, <1>3, <2>1, <2>2 DEF Flowing, Sides, Other
<1> QED
  BY <1>2, <1>3

-----------------------------------------------------------------------------
(* Reads and endings. *)

Statuses == {"live", "front_eof", "normal", "sigpipe"} \cup ErrorEnds
Writes == [what : {"recvData", "sendData"}, to : Sides]

(* A read keeps the types (read_data).                                      *)
LEMMA ReadTypes ==
  ASSUME TypeOK, NEW s \in Sides, NEW ret \in ReadRets(s), Read(s, ret)
  PROVE  /\ Received(s, ret) \in [Sides -> Seq(Bytes)]
         /\ Received(s, ret)[Other(s)] = recvData[Other(s)]
         /\ inbox' \in [Sides -> Seq(Bytes)]
<1>1. recvData[s] \o inbox[s] \in Seq(Bytes)
  BY ConcatProperties DEF TypeOK
<1>2. Received(s, ret) \in [Sides -> Seq(Bytes)]
  BY <1>1 DEF Received, TypeOK
<1>3. Received(s, ret)[Other(s)] = recvData[Other(s)]
  BY OtherSide DEF Received, TypeOK
<1>4. inbox' \in [Sides -> Seq(Bytes)]
  BY EmptySeq DEF Read, TypeOK
<1> QED
  BY <1>2, <1>3, <1>4

\* A read moves bytes from what has arrived to what was read.
LEMMA ReadIntact ==
  ASSUME TypeOK, NEW s \in Sides, NEW ret \in ReadRets(s), Read(s, ret),
         recvData' = Received(s, ret), UNCHANGED <<delivered, sendData, sent>>,
         \A t \in Sides : Intact(t)
  PROVE  \A t \in Sides : Intact(t)'
<1>1. CASE ret # 0
  BY <1>1 DEF Read, Received, Intact, Stream
<1>2. CASE ret = 0
  <2> DEFINE dst == Other(s)
  <2>1. Intact(dst)'
    <3> DEFINE u == delivered[dst] \o sendData[dst]  r == recvData[s]  i == inbox[s]
    <3>1. u \in Seq(Bytes) /\ r \in Seq(Bytes) /\ i \in Seq(Bytes)
      BY OtherSide, ConcatProperties DEF TypeOK
    <3>2. recvData'[s] = recvData[s] \o inbox[s] /\ inbox'[s] = <<>>
      BY <1>2 DEF Read, Received, TypeOK
    <3>3. (u \o (r \o i)) \o <<>> = (u \o r) \o i
      <4> HIDE DEF u, r, i
      <4>1. (u \o r) \o i = u \o (r \o i) /\ (u \o r) \o i \in Seq(Bytes)
        BY <3>1, Assoc
      <4> QED
        BY <4>1, ConcatEmptySeq
    <3>4. Other(dst) = s /\ Intact(dst) /\ sent' = sent
      BY OtherSide
    <3> QED
      BY <3>2, <3>3, <3>4 DEF Intact, Stream
  <2>2. Intact(s)'
    <3>1. recvData'[dst] = recvData[dst] /\ inbox'[dst] = inbox[dst] /\ sent' = sent
      BY <1>2, OtherSide DEF Read, Received, TypeOK
    <3>2. Intact(s)
      OBVIOUS
    <3> QED
      BY <3>1, <3>2 DEF Intact, Stream
  <2> QED
    BY <2>1, <2>2 DEF Sides, Other
<1> QED
  BY <1>1, <1>2

(* The end of a connection keeps the types (finished_connection).           *)
LEMMA FinishTypes ==
  ASSUME TypeOK, NEW why \in Statuses, NEW recv \in [Sides -> Seq(Bytes)],
         Finish(why, recv)
  PROVE  /\ reg' \in [Sides -> {"none", "read", "write"}]
         /\ recvData' \in [Sides -> Seq(Bytes)]
         /\ recvData'["back"] = recv["back"]
         /\ sendData' \in [Sides -> Seq(Bytes)]
         /\ status' = why
         /\ pooled' \in BOOLEAN
<1>1. reg' \in [Sides -> {"none", "read", "write"}]
  BY DEF Finish
<1>2. recvData' \in [Sides -> Seq(Bytes)] /\ recvData'["back"] = recv["back"]
  BY EmptySeq DEF Finish, Sides
<1>3. sendData' \in [Sides -> Seq(Bytes)]
  BY EmptySeq DEF Finish, TypeOK
<1>4. pooled' \in BOOLEAN
  <2>1. PICK keep \in BOOLEAN :
          pooled' = (keep /\ UsePool /\ server = "connected" /\ why \notin ErrorEnds)
    BY DEF Finish
  <2> QED
    BY <2>1, Zenon
<1> QED
  BY <1>1, <1>2, <1>3, <1>4 DEF Finish

-----------------------------------------------------------------------------
(* The actions. *)

\* Once the connection has ended only the types are left to show.
LEMMA EndedInv ==
  ASSUME TypeOK', ~Live', todo' = <<>>, recvData'["back"] # <<>> => server' = "connected"
  PROVE  IInv'
<1>1. StreamIntact' /\ NeverDeaf'
  BY DEF StreamIntact, NeverDeaf
<1>2. ServerInv'
  BY DEF ServerInv
<1>3. TodoInv'
  <2>1. Len(todo') = 0
    BY EmptySeq
  <2> QED
    BY <2>1 DEF TodoInv
<1> QED
  BY <1>1, <1>2, <1>3 DEF IInv

\* A write of a handler or of a write event, when there is something to write
\* and no other side is blocked.
LEMMA WriteDataInv ==
  ASSUME IInv, Live, NEW dst \in Sides, NEW next \in Seq(Writes), WriteData(dst, next),
         server # "none",
         \A s \in Sides : Blocked(s) => s = dst,
         sendData[dst] # <<>> \/ recvData[Other(dst)] # <<>>,
         \A i \in 1..Len(next) : next[i].what = "sendData"
  PROVE  IInv'
<1> USE DEF IInv
<1>1. /\ UNCHANGED <<server, protocolBase, failNum, timers, staleTimer, peer, inbox, sent>>
      /\ next \in Seq([what : {"recvData", "sendData"}, to : Sides])
      /\ <<>> \in Seq([what : {"recvData", "sendData"}, to : Sides])
  BY EmptySeq DEF WriteData, Writes
<1>2. CASE CanWrite(dst) /\ WriteOut(dst) /\ todo' = next /\ UNCHANGED <<status, pooled>>
  <2>1. TypeOK'
    BY <1>1, <1>2, WriteOutTypes DEF TypeOK
  <2>2. StreamIntact'
    <3>1. \A s \in Sides : Intact(s)
      BY DEF StreamIntact, Intact
    <3>2. \A s \in Sides : Intact(s)'
      BY <1>1, <1>2, <3>1, WriteOutIntact
    <3> QED
      BY <3>2 DEF StreamIntact, Intact, Stream
  <2>3. NeverDeaf'
    <3>1. Flowing \/ Blocked(dst)
      BY DEF NeverDeaf
    <3>2. server = "connected"
      BY <1>2, <3>1 DEF CanWrite, Unconnected, Flowing, Blocked, ServerInv, TypeOK, Sides, Other
    <3>3. (Flowing \/ Blocked(dst))'
      BY <1>1, <1>2, <3>1, <3>2, WriteOutWatches
    <3> QED
      BY <3>3 DEF NeverDeaf
  <2>4. ServerInv'
    <3>1. recvData'["back"] # <<>> => recvData["back"] # <<>>
      BY <1>2 DEF WriteOut, Moved, TypeOK, Sides, Other
    <3> QED
      BY <1>1, <1>2, <3>1 DEF ServerInv, Live
  <2>5. TodoInv'
    BY <1>2 DEF TodoInv
  <2> QED
    BY <2>1, <2>2, <2>3, <2>4, <2>5
<1>3. CASE WriteFails(dst) /\ Finish("write_error", recvData) /\ todo' = <<>>
           /\ UNCHANGED <<room, delivered>>
  <2>1. /\ "write_error" \in Statuses
        /\ recvData \in [Sides -> Seq(Bytes)]
    BY DEF Statuses, ErrorEnds, TypeOK
  <2>2. /\ reg' \in [Sides -> {"none", "read", "write"}]
        /\ recvData' \in [Sides -> Seq(Bytes)]
        /\ recvData'["back"] = recvData["back"]
        /\ sendData' \in [Sides -> Seq(Bytes)]
        /\ status' = "write_error"
        /\ pooled' \in BOOLEAN
    BY <1>3, <2>1, FinishTypes
  <2>3. TypeOK'
    BY <1>1, <1>3, <2>2 DEF TypeOK, ErrorEnds
  <2>4. ~Live'
    BY <2>2 DEF Live
  <2> QED
    BY <1>1, <1>3, <2>2, <2>3, <2>4, EndedInv DEF ServerInv
<1>4. CASE peer[dst] = "broken" /\ Killed /\ todo' = <<>> /\ UNCHANGED <<room, delivered>>
  <2>1. TypeOK'
    BY <1>1, <1>4, EmptySeq DEF Killed, TypeOK
  <2>2. ~Live' /\ recvData'["back"] = <<>>
    BY <1>4 DEF Killed, Live, Sides
  <2> QED
    BY <1>4, <2>1, <2>2, EndedInv
<1> QED
  BY <1>2, <1>3, <1>4 DEF WriteData

\* An action that neither reads nor writes nor ends anything.
LEMMA QuietInv ==
  ASSUME IInv, TypeOK',
         UNCHANGED <<reg, recvData, sendData, server, timers, todo, status, inbox, sent, delivered>>
  PROVE  IInv'
<1>1. StreamIntact'
  BY DEF IInv, StreamIntact, Live, Stream
<1>2. NeverDeaf'
  BY DEF IInv, NeverDeaf, Live, Flowing, Blocked
<1>3. ServerInv' /\ TodoInv'
  BY DEF IInv, ServerInv, TodoInv, Live, Blocked
<1> QED
  BY <1>1, <1>2, <1>3 DEF IInv

(* The peers keep the invariant.                                            *)
LEMMA PeersInv ==
  ASSUME IInv, Peers
  PROVE  IInv'
<1> USE DEF IInv, connVars, peerVars
<1>1. ASSUME NEW s \in Sides, PeerSend(s)
      PROVE  IInv'
  <2> USE <1>1
  <2> DEFINE e == sent[s] + 1
  <2>1. /\ sent[s] \in Nat /\ sent[s] < MaxBytes
        /\ e \in Bytes /\ Stream(e) = Append(Stream(sent[s]), e)
    <3>1. sent[s] \in 0..MaxBytes /\ sent[s] < MaxBytes /\ MaxBytes \in Nat
      BY RelayAssumption DEF PeerSend, TypeOK
    <3>2. sent[s] \in Nat
      BY <3>1
    <3>3. e \in Bytes /\ Stream(e) = Append(Stream(sent[s]), e)
      BY <3>1, <3>2, StreamGrows
    <3> QED
      BY <3>1, <3>2, <3>3
  <2>2. inbox[s] \in Seq(Bytes) /\ Append(inbox[s], e) \in Seq(Bytes)
    BY <2>1, AppendProperties DEF TypeOK
  <2>3. /\ inbox'[s] = Append(inbox[s], e) /\ sent'[s] = e
        /\ UNCHANGED <<recvData, sendData, delivered, reg, status, server, timers, todo>>
    BY DEF PeerSend, TypeOK
  <2>4. TypeOK'
    <3>1. e \in 0..MaxBytes
      BY <2>1 DEF Bytes
    <3>2. sent' \in [Sides -> 0..MaxBytes] /\ inbox' \in [Sides -> Seq(Bytes)]
      BY <2>2, <3>1 DEF PeerSend, TypeOK
    <3>3. UNCHANGED <<connVars, peer, room, delivered>>
      BY DEF PeerSend
    <3> HIDE DEF e
    <3> QED
      BY <3>2, <3>3 DEF TypeOK
  <2>5. StreamIntact'
    <3> SUFFICES ASSUME Live PROVE \A t \in Sides : Intact(t)'
      BY <2>3 DEF StreamIntact, Intact, Live, Stream
    <3>1. Intact(Other(s))'
      <4> DEFINE u == delivered[Other(s)] \o sendData[Other(s)] \o recvData[s]
                 v == inbox[s]
      <4>1. u \in Seq(Bytes)
        <5>1. /\ delivered[Other(s)] \in Seq(Bytes) /\ sendData[Other(s)] \in Seq(Bytes)
              /\ recvData[s] \in Seq(Bytes)
          BY OtherSide DEF TypeOK
        <5>2. delivered[Other(s)] \o sendData[Other(s)] \in Seq(Bytes)
          BY <5>1, ConcatProperties
        <5> QED
          BY <5>1, <5>2, ConcatProperties
      <4>2. u \o Append(v, e) = Append(u \o v, e)
        <5> HIDE DEF u, v, e
        <5> QED
          BY <2>1, <2>2, <4>1, AppendToConcat DEF v
      <4>3. u \o v = Stream(sent[s])
        BY OtherSide DEF StreamIntact
      <4> QED
        BY <2>1, <2>3, <4>2, <4>3, OtherSide DEF Intact, Stream
    <3>2. Intact(s)'
      <4>1. inbox'[Other(s)] = inbox[Other(s)] /\ sent'[Other(s)] = sent[Other(s)]
        BY OtherSide DEF PeerSend, TypeOK
      <4>2. Intact(s)
        BY DEF StreamIntact, Intact
      <4> QED
        BY <2>3, <4>1, <4>2 DEF Intact, Stream
    <3> QED
      BY <3>1, <3>2 DEF Sides, Other
  <2>6. NeverDeaf' /\ ServerInv' /\ TodoInv'
    BY <2>3 DEF NeverDeaf, ServerInv, TodoInv, Live, Flowing, Blocked
  <2> QED
    BY <2>4, <2>5, <2>6
<1>2. ASSUME NEW s \in Sides, PeerRead(s)
      PROVE  IInv'
  <2>1. TypeOK'
    BY <1>2, RelayAssumption DEF PeerRead, TypeOK
  <2> QED
    BY <1>2, <2>1, QuietInv DEF PeerRead
<1>3. ASSUME NEW s \in Sides, PeerClose(s)
      PROVE  IInv'
  <2>1. TypeOK'
    BY <1>3 DEF PeerClose, TypeOK
  <2> QED
    BY <1>3, <2>1, QuietInv DEF PeerClose
<1>4. ASSUME NEW s \in Sides, PeerReset(s)
      PROVE  IInv'
  <2>1. TypeOK'
    BY <1>4 DEF PeerReset, TypeOK
  <2> QED
    BY <1>4, <2>1, QuietInv DEF PeerReset
<1> QED
  BY <1>1, <1>2, <1>3, <1>4 DEF Peers

(* What send_data writes.                                                   *)
LEMMA TodoOfSendData ==
  ASSUME NEW s \in Sides
  PROVE  /\ SendData(s) \in Seq(Writes)
         /\ Len(SendData(s)) = 3
         /\ \A i \in 2..3 : SendData(s)[i].what = "sendData"
BY OtherSide DEF SendData, Writes

\* Flowing, what has been read may be written.
LEMMA ForwardsInv ==
  ASSUME TypeOK', StreamIntact', Flowing', server' # "none", ServerInv',
         NEW s \in Sides, todo' = SendData(s)
  PROVE  IInv'
<1>1. NeverDeaf'
  BY DEF NeverDeaf
<1>2. TodoInv'
  <2>1. \A t \in Sides : ~Blocked(t)'
    BY DEF Flowing, Blocked
  <2>2. Len(todo') = 3 /\ \A i \in 2..3 : todo'[i].what = "sendData"
    BY TodoOfSendData
  <2> QED
    BY <2>1, <2>2 DEF TodoInv
<1> QED
  BY <1>1, <1>2 DEF IInv

(* handle_readFrontData keeps the invariant, from the loop and from the timer. *)
LEMMA HandleReadFrontDataInv ==
  ASSUME IInv, InLoop, Flowing, NEW t \in Nat, t > 0 => server = "unconnected",
         HandleReadFrontData(t)
  PROVE  IInv'
<1> USE DEF IInv
<1>1. PICK ret \in ReadRets("front"), verdict \in Verdicts :
        /\ Read("front", ret)
        /\ \/ FrontEnds(ret, verdict, Received("front", ret)) /\ timers' = t
           \/ FrontForwards(ret, verdict, Received("front", ret)) /\ timers' = t
           \/ ConnectFails(ret, verdict, Received("front", ret), t)
        /\ UNCHANGED <<staleTimer, peer, room, sent, delivered>>
  BY DEF HandleReadFrontData
<1> DEFINE recv == Received("front", ret)
<1>2. /\ recv \in [Sides -> Seq(Bytes)]
      /\ recv["back"] = recvData["back"]
      /\ inbox' \in [Sides -> Seq(Bytes)]
  BY <1>1, ReadTypes DEF Sides, Other
<1>3. todo = <<>> /\ Live
  BY DEF InLoop
<1>4. \A s \in Sides : Intact(s)
  BY <1>3 DEF StreamIntact, Intact
<1> HIDE DEF recv
<1>5. ASSUME FrontEnds(ret, verdict, recv), timers' = t
      PROVE  IInv'
  <2>1. PICK why \in Statuses \ {"live"} : Ends(why, recv)
    BY <1>5 DEF FrontEnds, Statuses, ErrorEnds
  <2>2. /\ reg' \in [Sides -> {"none", "read", "write"}]
        /\ recvData' \in [Sides -> Seq(Bytes)]
        /\ recvData'["back"] = recv["back"]
        /\ sendData' \in [Sides -> Seq(Bytes)]
        /\ status' = why
        /\ pooled' \in BOOLEAN
    BY <1>2, <2>1, FinishTypes DEF Ends
  <2>3. UNCHANGED <<todo, server, protocolBase, failNum>>
    BY <2>1 DEF Ends
  <2>4. TypeOK'
    BY <1>1, <1>2, <1>5, <2>2, <2>3 DEF TypeOK, Statuses
  <2> QED
    BY <1>2, <1>3, <2>1, <2>2, <2>3, <2>4, EndedInv DEF ServerInv, Live
<1>6. ASSUME FrontForwards(ret, verdict, recv), timers' = t
      PROVE  IInv'
  <2>1. /\ recvData' = recv /\ todo' = SendData("front") /\ protocolBase' = TRUE
        /\ UNCHANGED <<sendData, failNum, status, pooled>>
        /\ \/ server # "none" /\ UNCHANGED <<server, reg>>
           \/ /\ server = "none" /\ server' = "connected"
              /\ reg' = [reg EXCEPT !["back"] = "read"]
    BY <1>6 DEF FrontForwards
  <2>2. TypeOK'
    <3>1. todo' \in Seq([what : {"recvData", "sendData"}, to : Sides])
      BY <2>1, TodoOfSendData DEF Writes, Sides
    <3> QED
      BY <1>1, <1>2, <1>6, <2>1, <3>1 DEF TypeOK
  <2>3. StreamIntact'
    <3>1. \A s \in Sides : Intact(s)'
      BY <1>1, <1>4, <2>1, ReadIntact DEF Sides, recv
    <3> QED
      BY <3>1 DEF StreamIntact, Intact, Stream
  <2>4. Flowing' /\ server' # "none"
    BY <2>1 DEF Flowing, TypeOK, Sides
  <2>5. ServerInv'
    BY <1>2, <1>3, <1>6, <2>1, <2>4 DEF ServerInv, Live
  <2> QED
    BY <2>1, <2>2, <2>3, <2>4, <2>5, ForwardsInv DEF Sides
<1>7. ASSUME ConnectFails(ret, verdict, recv, t)
      PROVE  IInv'
  <2>1. /\ server = "none" /\ server' = "unconnected" /\ todo' = todo
        /\ failNum' \in Nat
    BY <1>7 DEF ConnectFails, TypeOK
  <2>2. recv["back"] = <<>>
    BY <1>2, <2>1 DEF ServerInv
  <2>3. CASE Finish("alloc_failed", recv) /\ timers' = t /\ protocolBase' = TRUE
    <3>1. /\ reg' \in [Sides -> {"none", "read", "write"}]
          /\ recvData' \in [Sides -> Seq(Bytes)]
          /\ recvData'["back"] = recv["back"]
          /\ sendData' \in [Sides -> Seq(Bytes)]
          /\ status' = "alloc_failed"
          /\ pooled' \in BOOLEAN
      BY <1>2, <2>3, FinishTypes DEF Statuses, ErrorEnds
    <3>2. TypeOK'
      <4>1. "alloc_failed" \in ErrorEnds
        BY DEF ErrorEnds
      <4> QED
        BY <1>1, <1>2, <2>1, <2>3, <3>1, <4>1 DEF TypeOK
    <3> QED
      BY <1>3, <2>1, <2>2, <3>1, <3>2, EndedInv DEF Live
  <2>4. CASE /\ protocolBase' = FALSE /\ timers' = t + 1 /\ recvData' = recv
             /\ UNCHANGED <<reg, sendData, status, pooled>>
    <3>1. TypeOK'
      <4>1. timers' \in Nat /\ server' \in {"none", "unconnected", "connected"}
        BY <2>1, <2>4
      <4>2. protocolBase' \in BOOLEAN
        BY <2>4
      <4> QED
        BY <1>1, <1>2, <2>1, <2>4, <4>1, <4>2 DEF TypeOK
    <3>2. StreamIntact'
      <4>1. \A s \in Sides : Intact(s)'
        BY <1>1, <1>4, <2>4, ReadIntact DEF Sides, recv
      <4> QED
        BY <4>1 DEF StreamIntact, Intact, Stream
    <3>3. NeverDeaf'
      BY <2>1, <2>4 DEF NeverDeaf, Flowing
    <3>4. ServerInv'
      BY <1>3, <2>1, <2>2, <2>4 DEF ServerInv
    <3>5. TodoInv'
      BY <1>3, <2>1, EmptySeq DEF TodoInv
    <3> QED
      BY <3>1, <3>2, <3>3, <3>4, <3>5
  <2> QED
    BY <1>7, <2>3, <2>4 DEF ConnectFails
<1> QED
  BY <1>1, <1>5, <1>6, <1>7 DEF recv

(* So it does in the event loop,                                            *)
LEMMA ReadFrontInv ==
  ASSUME IInv, ReadFront
  PROVE  IInv'
<1>1. InLoop /\ reg["front"] = "read" /\ HandleReadFrontData(timers)
  BY DEF ReadFront
<1>2. Flowing
  BY <1>1 DEF IInv, InLoop, NeverDeaf, Blocked, Sides, Other
<1>3. timers \in Nat /\ (timers > 0 => server = "unconnected")
  BY <1>1 DEF IInv, InLoop, ServerInv, TypeOK
<1> QED
  BY <1>1, <1>2, <1>3, HandleReadFrontDataInv

(* and in the timer of a retry.                                             *)
LEMMA RetryTimerInv ==
  ASSUME IInv, RetryTimer
  PROVE  IInv'
<1>1. InLoop /\ timers > 0 /\ HandleReadFrontData(timers - 1)
  BY DEF RetryTimer
<1>2. timers \in Nat /\ server = "unconnected"
  BY <1>1 DEF IInv, InLoop, ServerInv, TypeOK
<1>3. Flowing
  BY <1>1, <1>2 DEF IInv, InLoop, NeverDeaf, Blocked
<1>4. timers - 1 \in Nat
  BY <1>1, <1>2
<1> QED
  BY <1>1, <1>2, <1>3, <1>4, HandleReadFrontDataInv

(* A read from the server keeps it.                                         *)
LEMMA ReadBackInv ==
  ASSUME IInv, ReadBack
  PROVE  IInv'
<1> USE DEF IInv
<1>1. PICK ret \in ReadRets("back"), verdict \in Verdicts :
        /\ Read("back", ret)
        /\ \/ BackEnds(ret, verdict, Received("back", ret))
           \/ BackForwards(ret, verdict, Received("back", ret))
  BY DEF ReadBack
<1>2. /\ InLoop /\ reg["back"] = "read"
      /\ UNCHANGED <<timers, staleTimer, peer, room, sent, delivered>>
  BY DEF ReadBack
<1>3. todo = <<>> /\ Live
  BY <1>2 DEF InLoop
<1>4. Flowing /\ server = "connected"
  BY <1>2, <1>3 DEF NeverDeaf, Flowing, Blocked, Sides, Other
<1> DEFINE recv == Received("back", ret)
<1>5. recv \in [Sides -> Seq(Bytes)] /\ inbox' \in [Sides -> Seq(Bytes)]
  BY <1>1, ReadTypes DEF Sides
<1> HIDE DEF recv
<1>6. ASSUME BackEnds(ret, verdict, recv)
      PROVE  IInv'
  <2>1. PICK why \in Statuses \ {"live"} : Ends(why, recv)
    BY <1>6 DEF BackEnds, Statuses, ErrorEnds
  <2>2. /\ reg' \in [Sides -> {"none", "read", "write"}]
        /\ recvData' \in [Sides -> Seq(Bytes)]
        /\ sendData' \in [Sides -> Seq(Bytes)]
        /\ status' = why
        /\ pooled' \in BOOLEAN
    BY <1>5, <2>1, FinishTypes DEF Ends
  <2>3. UNCHANGED <<todo, server, protocolBase, failNum>>
    BY <2>1 DEF Ends
  <2>4. TypeOK'
    BY <1>2, <1>5, <2>2, <2>3 DEF TypeOK, Statuses
  <2> QED
    BY <1>3, <1>4, <2>1, <2>2, <2>3, <2>4, EndedInv DEF Live
<1>7. ASSUME BackForwards(ret, verdict, recv)
      PROVE  IInv'
  <2>1. /\ recvData' = recv /\ todo' = SendData("back")
        /\ UNCHANGED <<reg, sendData, server, protocolBase, failNum, status, pooled>>
    BY <1>7 DEF BackForwards
  <2>2. TypeOK'
    <3>1. todo' \in Seq([what : {"recvData", "sendData"}, to : Sides])
      BY <2>1, TodoOfSendData DEF Writes, Sides
    <3> QED
      BY <1>2, <1>5, <2>1, <3>1 DEF TypeOK
  <2>3. StreamIntact'
    <3>1. \A s \in Sides : Intact(s)
      BY <1>3 DEF StreamIntact, Intact
    <3>2. \A s \in Sides : Intact(s)'
      BY <1>1, <1>2, <2>1, <3>1, ReadIntact DEF Sides, recv
    <3> QED
      BY <3>2 DEF StreamIntact, Intact, Stream
  <2>4. Flowing' /\ ServerInv' /\ server' # "none"
    BY <1>2, <1>3, <1>4, <2>1 DEF Flowing, ServerInv, Live
  <2> QED
    BY <2>1, <2>2, <2>3, <2>4, ForwardsInv DEF Sides
<1> QED
  BY <1>1, <1>6, <1>7 DEF recv

(* The writes of send_data and of a writable side keep it.                  *)
LEMMA WritesInv ==
  ASSUME IInv, DoWrite \/ SkipWrite \/ (\E s \in Sides : Writable(s))
  PROVE  IInv'
<1> USE DEF IInv
<1>1. CASE DoWrite
  <2> DEFINE w == Head(todo)  next == Tail(todo)
  <2>1. /\ w \in Writes /\ next \in Seq(Writes)
        /\ todo # <<>> /\ Len(todo) \in Nat
        /\ w = todo[1]
        /\ Len(next) = Len(todo) - 1
        /\ \A i \in 1..Len(next) : next[i] = todo[i + 1]
    <3>1. todo \in Seq(Writes) /\ todo # <<>>
      BY <1>1 DEF DoWrite, TypeOK, Writes
    <3>2. Head(todo) = todo[1]
      BY <3>1
    <3> QED
      BY <3>1, <3>2, HeadTailProperties, LenProperties
  <2>2. w.to \in Sides /\ w.what \in {"recvData", "sendData"}
    BY <2>1 DEF Writes
  <2>3. Due(w) /\ WriteData(w.to, next)
    BY <1>1 DEF DoWrite
  <2>4. Live
    BY <2>1 DEF ServerInv
  <2>5. server # "none"
    BY <2>1 DEF ServerInv
  <2>6. \A s \in Sides : Blocked(s) => s = w.to
    BY <2>1, <2>2, <2>3 DEF TodoInv, Due, Blocked, Sides, Other
  <2>7. sendData[w.to] # <<>> \/ recvData[Other(w.to)] # <<>>
    BY <2>3 DEF Due
  <2>8. \A i \in 1..Len(next) : next[i].what = "sendData"
    BY <2>1 DEF TodoInv
  <2> QED
    BY <2>1, <2>2, <2>3, <2>4, <2>5, <2>6, <2>7, <2>8, WriteDataInv

<1>2. CASE SkipWrite
  <2>1. /\ todo # <<>> /\ todo' = Tail(todo)
        /\ UNCHANGED <<reg, recvData, sendData, server, protocolBase, failNum, timers,
                       status, pooled, staleTimer, peerVars>>
    BY <1>2 DEF SkipWrite
  <2>2. /\ Tail(todo) \in Seq(Writes)
        /\ Len(Tail(todo)) = Len(todo) - 1 /\ Len(todo) \in Nat
        /\ \A i \in 1..Len(Tail(todo)) : Tail(todo)[i] = todo[i + 1]
    <3>1. todo \in Seq(Writes)
      BY DEF TypeOK, Writes
    <3> QED
      BY <2>1, <3>1, HeadTailProperties, LenProperties
  <2>3. TypeOK'
    BY <2>1, <2>2 DEF TypeOK, Writes, peerVars
  <2>4. StreamIntact'
    BY <2>1 DEF StreamIntact, Live, Stream, peerVars
  <2>5. NeverDeaf'
    BY <2>1 DEF NeverDeaf, Live, Flowing, Blocked
  <2>6. ServerInv'
    BY <2>1 DEF ServerInv, Live
  <2>7. TodoInv'
    BY <2>1, <2>2 DEF TodoInv, Blocked
  <2> QED
    BY <2>3, <2>4, <2>5, <2>6, <2>7
<1>3. ASSUME NEW s \in Sides, Writable(s)
      PROVE  IInv'
  <2>1. InLoop /\ reg[s] = "write" /\ WriteData(s, <<>>)
    BY <1>3 DEF Writable
  <2>2. Blocked(s) /\ \A t \in Sides : Blocked(t) => t = s
    BY <2>1 DEF InLoop, NeverDeaf, Flowing, Blocked, Sides, Other
  <2>3. <<>> \in Seq(Writes) /\ \A i \in 1..Len(<<>>) : <<>>[i].what = "sendData"
    BY EmptySeq
  <2>4. Live /\ server # "none" /\ sendData[s] # <<>>
    BY <2>1, <2>2 DEF InLoop, Blocked
  <2> QED
    BY <2>1, <2>2, <2>3, <2>4, WriteDataInv
<1> QED
  BY <1>1, <1>2, <1>3

(* So do the ends of a connection by its age and by its timer.              *)
LEMMA EndingsInv ==
  ASSUME IInv, CheckConnectionTimeout \/ RetryTimerFreed
  PROVE  IInv'
<1> USE DEF IInv
<1>1. CASE CheckConnectionTimeout
  <2>1. /\ InLoop /\ Finish("timeout", recvData)
        /\ UNCHANGED <<todo, server, protocolBase, failNum, timers, staleTimer, peerVars>>
    BY <1>1 DEF CheckConnectionTimeout, Ends
  <2>2. "timeout" \in Statuses /\ recvData \in [Sides -> Seq(Bytes)]
    BY DEF Statuses, ErrorEnds, TypeOK
  <2>3. /\ reg' \in [Sides -> {"none", "read", "write"}]
        /\ recvData' \in [Sides -> Seq(Bytes)]
        /\ recvData'["back"] = recvData["back"]
        /\ sendData' \in [Sides -> Seq(Bytes)]
        /\ status' = "timeout"
        /\ pooled' \in BOOLEAN
    BY <2>1, <2>2, FinishTypes
  <2>4. TypeOK'
    <3>1. "timeout" \in ErrorEnds
      BY DEF ErrorEnds
    <3> QED
      BY <2>1, <2>3, <3>1 DEF TypeOK, peerVars
  <2> QED
    BY <2>1, <2>3, <2>4, EndedInv DEF InLoop, Live, ServerInv
<1>2. CASE RetryTimerFreed
  <2>1. /\ timers > 0 /\ ~Live /\ timers' = timers - 1 /\ staleTimer' = TRUE
        /\ UNCHANGED <<reg, recvData, sendData, server, protocolBase, failNum, todo,
                       status, pooled, peerVars>>
    BY <1>2 DEF RetryTimerFreed, Live
  <2>2. TypeOK'
    BY <2>1 DEF TypeOK, peerVars
  <2>3. ~Live' /\ todo' = <<>>
    BY <2>1 DEF Live, ServerInv
  <2> QED
    BY <2>1, <2>2, <2>3, EndedInv DEF ServerInv
<1> QED
  BY <1>1, <1>2

-----------------------------------------------------------------------------
(* A new connection satisfies it.                                           *)
LEMMA InitInv == Init => IInv
<1> SUFFICES ASSUME Init PROVE IInv
  OBVIOUS
<1> USE DEF Init
<1>1. TypeOK
  <2>1. \A S : <<>> \in Seq(S)
    BY EmptySeq
  <2>2. SndBuf \in 0..SndBuf /\ 0 \in 0..MaxBytes
    BY RelayAssumption
  <2>3. /\ recvData \in [Sides -> Seq(Bytes)] /\ sendData \in [Sides -> Seq(Bytes)]
        /\ inbox \in [Sides -> Seq(Bytes)] /\ delivered \in [Sides -> Seq(Bytes)]
        /\ todo \in Seq([what : {"recvData", "sendData"}, to : Sides])
    BY <2>1
  <2>4. room \in [Sides -> 0..SndBuf] /\ sent \in [Sides -> 0..MaxBytes]
    BY <2>2
  <2> QED
    BY <2>3, <2>4 DEF TypeOK
<1>2. StreamIntact
  <2>1. Stream(0) = <<>>
    BY DEF Stream
  <2>2. <<>> \o <<>> = <<>>
    BY EmptySeq, ConcatEmptySeq
  <2> QED
    BY <2>1, <2>2, OtherSide DEF StreamIntact
<1>3. NeverDeaf
  BY DEF NeverDeaf, Flowing, Sides
<1>4. ServerInv
  BY DEF ServerInv, Sides
<1>5. TodoInv
  BY EmptySeq DEF TodoInv
<1> QED
  BY <1>1, <1>2, <1>3, <1>4, <1>5 DEF IInv

(* Every step keeps it.                                                     *)
LEMMA StepInv == IInv /\ [Next]_vars => IInv'
<1> SUFFICES ASSUME IInv, [Next]_vars PROVE IInv'
  OBVIOUS
<1>1. CASE UNCHANGED vars
  <2>1. /\ UNCHANGED connVars /\ UNCHANGED peerVars
    BY <1>1 DEF vars
  <2>2. TypeOK'
    BY <2>1 DEF IInv, TypeOK, connVars, peerVars
  <2> QED
    BY <2>1, <2>2, QuietInv DEF connVars, peerVars
<1>2. CASE Next
  BY <1>2, ReadFrontInv, ReadBackInv, WritesInv, RetryTimerInv, EndingsInv, PeersInv
     DEF Next, Handlers
<1> QED
  BY <1>1, <1>2

(* The relay's inductive invariant holds in every reachable state.          *)
THEOREM Inductive == Spec => []IInv
BY InitInv, StepInv, PTL DEF Spec

(* Every variable of the connection keeps its type.                         *)
THEOREM TypeCorrect == Spec => []TypeOK
<1>1. IInv => TypeOK
  BY DEF IInv
<1> QED
  BY <1>1, Inductive, PTL

(* While the connection lives, what was delivered, left over, read and      *)
(* still unread is, in this order, exactly what the other peer sent:        *)
(* write_data and save_data lose, double and reorder nothing, for streams   *)
(* of any length and a kernel buffer of any size.                           *)
THEOREM StreamsStayIntact == Spec => []StreamIntact
<1>1. IInv => StreamIntact
  BY DEF IInv
<1> QED
  BY <1>1, Inductive, PTL

(* Between any two socket calls of a handler the live connection watches a  *)
(* socket that can wake it: write_data never leaves it registered for       *)
(* nothing, whatever is read, written or left over.                         *)
THEOREM AlwaysListening == Spec => []NeverDeaf
<1>1. IInv => NeverDeaf
  BY DEF IInv
<1> QED
  BY <1>1, Inductive, PTL
-----------------------------------------------------------------------------
(* Ends of connections.                                                     *)

(***************************************************************************)
(* What was read from the server is the first thing the running handler    *)
(* writes, so that nothing of it is kept when the thread is back in its    *)
(* loop; a live connection has not given its socket back.                  *)
(***************************************************************************)
BackDataFirst ==
  Live /\ recvData["back"] # <<>>
    => todo # <<>> /\ Head(todo) = [what |-> "recvData", to |-> "front"]
KeepsSocket == Live => ~pooled

EndInv == IInv /\ BackDataFirst /\ KeepsSocket /\ EofLosesNothing /\ PooledFlushed

(* A connection that lives on has nothing to show about its end.            *)
LEMMA LivesOn ==
  ASSUME Live', BackDataFirst', ~pooled'
  PROVE  BackDataFirst' /\ KeepsSocket' /\ EofLosesNothing' /\ PooledFlushed'
BY DEF Live, KeepsSocket, EofLosesNothing, PooledFlushed

(* An error gives no socket back, and is no end of file.                    *)
LEMMA EndsInError ==
  ASSUME status' \in ErrorEnds \ {"back_eof"}, ~pooled'
  PROVE  BackDataFirst' /\ KeepsSocket' /\ EofLosesNothing' /\ PooledFlushed'
BY DEF Live, ErrorEnds, BackDataFirst, KeepsSocket, EofLosesNothing, PooledFlushed

(* When the loop runs a read handler, nothing is left over and nothing that *)
(* was read from the server is kept.                                        *)
LEMMA QuietLoop ==
  ASSUME EndInv, InLoop, Flowing
  PROVE  /\ sendData["front"] = <<>> /\ sendData["back"] = <<>> /\ recvData["back"] = <<>>
         /\ recvData["front"] = <<>> /\ inbox["front"] = <<>>
              => delivered["back"] = Stream(sent["front"])
         /\ inbox["back"] = <<>> => delivered["front"] = Stream(sent["back"])
<1>1. sendData["front"] = <<>> /\ sendData["back"] = <<>> /\ recvData["back"] = <<>>
  BY DEF EndInv, InLoop, Flowing, BackDataFirst, Sides
<1>2. /\ delivered["back"] \o sendData["back"] \o recvData["front"] \o inbox["front"]
           = Stream(sent["front"])
      /\ delivered["front"] \o sendData["front"] \o recvData["back"] \o inbox["back"]
           = Stream(sent["back"])
  BY DEF EndInv, IInv, InLoop, StreamIntact, Sides, Other
<1>3. delivered["front"] \in Seq(Bytes) /\ delivered["back"] \in Seq(Bytes)
  BY DEF EndInv, IInv, TypeOK, Sides
<1>4. \A q \in Seq(Bytes) : q \o <<>> = q
  OBVIOUS
<1>. QED
  BY <1>1, <1>2, <1>3, <1>4

(* The end of a connection whose handler has found nothing left over.       *)
LEMMA FinishQuietly ==
  ASSUME EndInv, InLoop, Flowing, NEW why \in Statuses \ {"live"}, NEW recv,
         recv["back"] = recvData["back"] \/ why # "front_eof", DOMAIN recv = Sides,
         Finish(why, recv), UNCHANGED <<peer, sent, delivered>>,
         why = "front_eof" => recvData["front"] = <<>> /\ inbox["front"] = <<>>,
         why = "back_eof" => inbox["back"] = <<>>
  PROVE  BackDataFirst' /\ KeepsSocket' /\ EofLosesNothing' /\ PooledFlushed'
<1>1. /\ status' = why /\ pooled' \in BOOLEAN
      /\ recvData' = [recv EXCEPT !["front"] = <<>>]
      /\ sendData' = [sendData EXCEPT !["front"] = <<>>]
  BY DEF Finish
<1>2. sendData \in [Sides -> Seq(Bytes)]
  BY DEF EndInv, IInv, TypeOK
<1>3. sendData'["back"] = <<>>
  BY <1>1, <1>2, QuietLoop DEF Sides
<1>4. why = "front_eof" => recvData'["back"] = <<>>
  BY <1>1, QuietLoop DEF Sides
<1>5. PooledFlushed'
  BY <1>1, <1>3, <1>4 DEF PooledFlushed
<1>6. EofLosesNothing'
  <2>1. why = "front_eof" => delivered["back"] = Stream(sent["front"])
    BY QuietLoop
  <2>2. why = "back_eof" => delivered["front"] = Stream(sent["back"])
    BY QuietLoop
  <2>. QED
    BY <1>1, <2>1, <2>2 DEF EofLosesNothing, Stream
<1>7. ~Live'
  BY <1>1 DEF Live
<1>. QED
  BY <1>5, <1>6, <1>7 DEF BackDataFirst, KeepsSocket

(* handle_readFrontData ends a connection as it should.                     *)
LEMMA FrontReadEnds ==
  ASSUME EndInv, InLoop, Flowing, NEW t \in Nat, HandleReadFrontData(t)
  PROVE  BackDataFirst' /\ KeepsSocket' /\ EofLosesNothing' /\ PooledFlushed'
<1>1. PICK ret \in ReadRets("front"), verdict \in Verdicts :
        /\ \/ FrontEnds(ret, verdict, Received("front", ret))
           \/ FrontForwards(ret, verdict, Received("front", ret))
           \/ ConnectFails(ret, verdict, Received("front", ret), t)
        /\ UNCHANGED <<staleTimer, peer, room, sent, delivered>>
  BY DEF HandleReadFrontData
<1>. DEFINE recv == Received("front", ret)
<1>2. /\ DOMAIN recv = Sides /\ recv["back"] = recvData["back"]
      /\ ret = 2 => recv["front"] = recvData["front"] /\ inbox["front"] = <<>>
      /\ recvData["back"] = <<>> /\ Live /\ ~pooled
  <2>1. recvData \in [Sides -> Seq(Bytes)]
    BY DEF EndInv, IInv, TypeOK
  <2>2. DOMAIN recv = Sides /\ recv["back"] = recvData["back"]
    BY <2>1 DEF Received, Sides
  <2>3. ret = 2 => recv["front"] = recvData["front"] /\ inbox["front"] = <<>>
    BY DEF Received, ReadRets
  <2>4. recvData["back"] = <<>> /\ Live /\ ~pooled
    BY QuietLoop DEF InLoop, EndInv, KeepsSocket
  <2>. QED
    BY <2>2, <2>3, <2>4
<1>. HIDE DEF recv
<1>3. CASE FrontEnds(ret, verdict, recv)
  <2>1. PICK why \in {"front_error", "front_eof", "parse_error", "normal"} :
          /\ Finish(why, recv)
          /\ why = "front_eof" => ret = 2 /\ recv["front"] = <<>>
    BY <1>3 DEF FrontEnds, Ends
  <2>2. why \in Statuses \ {"live"} /\ why # "back_eof"
    BY <2>1 DEF Statuses, ErrorEnds
  <2>. QED
    BY <1>1, <1>2, <2>1, <2>2, FinishQuietly
<1>4. CASE FrontForwards(ret, verdict, recv)
  <2>1. recvData' = recv /\ status' = status /\ pooled' = pooled
    BY <1>4 DEF FrontForwards
  <2>2. Live' /\ BackDataFirst' /\ ~pooled'
    BY <1>2, <2>1 DEF Live, BackDataFirst
  <2>. QED
    BY <2>2, LivesOn
<1>5. CASE ConnectFails(ret, verdict, recv, t)
  <2>1. CASE Finish("alloc_failed", recv)
    <3>1. "alloc_failed" \in Statuses \ {"live"}
      BY DEF Statuses, ErrorEnds
    <3>. QED
      BY <1>1, <1>2, <2>1, <3>1, FinishQuietly
  <2>2. CASE recvData' = recv /\ UNCHANGED <<reg, sendData, status, pooled>>
    <3>1. Live' /\ BackDataFirst' /\ ~pooled'
      BY <1>2, <2>2 DEF Live, BackDataFirst
    <3>. QED
      BY <3>1, LivesOn
  <2>. QED
    BY <1>5, <2>1, <2>2 DEF ConnectFails
<1>. QED
  BY <1>1, <1>3, <1>4, <1>5 DEF recv

(* So does handle_readBackendData.                                          *)
LEMMA BackReadEnds ==
  ASSUME EndInv, ReadBack
  PROVE  BackDataFirst' /\ KeepsSocket' /\ EofLosesNothing' /\ PooledFlushed'
<1>1. PICK ret \in ReadRets("back"), verdict \in Verdicts :
        \/ BackEnds(ret, verdict, Received("back", ret))
        \/ BackForwards(ret, verdict, Received("back", ret))
  BY DEF ReadBack
<1>2. InLoop /\ reg["back"] = "read" /\ UNCHANGED <<peer, sent, delivered>>
  BY DEF ReadBack
<1>3. Flowing
  BY <1>2 DEF EndInv, IInv, NeverDeaf, InLoop, Blocked, Sides, Other
<1>. DEFINE recv == Received("back", ret)
<1>4. DOMAIN recv = Sides /\ (ret = 2 => inbox["back"] = <<>>)
  <2>1. recvData \in [Sides -> Seq(Bytes)]
    BY DEF EndInv, IInv, TypeOK
  <2>. QED
    BY <2>1 DEF Received, ReadRets
<1>5. Live /\ ~pooled
  BY <1>2 DEF InLoop, EndInv, KeepsSocket
<1>. HIDE DEF recv
<1>6. CASE BackEnds(ret, verdict, recv)
  <2>1. PICK why \in {"back_error", "back_eof", "parse_error", "normal"} :
          Finish(why, recv) /\ (why = "back_eof" => ret = 2)
    BY <1>6 DEF BackEnds, Ends
  <2>2. why \in Statuses \ {"live"} /\ why # "front_eof"
    BY <2>1 DEF Statuses, ErrorEnds
  <2>. QED
    BY <1>2, <1>3, <1>4, <2>1, <2>2, FinishQuietly
<1>7. CASE BackForwards(ret, verdict, recv)
  <2>1. todo' = SendData("back") /\ status' = status /\ pooled' = pooled
    BY <1>7 DEF BackForwards
  <2>2. todo' # <<>> /\ Head(todo') = [what |-> "recvData", to |-> "front"]
    BY <2>1 DEF SendData, Other
  <2>3. Live' /\ BackDataFirst' /\ ~pooled'
    BY <1>5, <2>1, <2>2 DEF Live, BackDataFirst
  <2>. QED
    BY <2>3, LivesOn
<1>. QED
  BY <1>1, <1>6, <1>7 DEF recv

(* A write takes what was read from the server before anything else, and    *)
(* gives no socket back.                                                    *)
LEMMA WriteEnds ==
  ASSUME EndInv, Live, NEW dst \in Sides, NEW next, WriteData(dst, next),
         recvData["back"] = <<>> \/ dst = "front"
  PROVE  BackDataFirst' /\ KeepsSocket' /\ EofLosesNothing' /\ PooledFlushed'
<1>1. recvData \in [Sides -> Seq(Bytes)] /\ ~pooled
  BY DEF EndInv, IInv, TypeOK, KeepsSocket
<1>2. CASE WriteOut(dst) /\ UNCHANGED <<status, pooled>>
  <2>1. recvData' = [recvData EXCEPT ![Other(dst)] = <<>>]
    BY <1>2 DEF WriteOut, Moved
  <2>2. recvData'["back"] = <<>>
    BY <1>1, <2>1 DEF Sides, Other
  <2>3. Live' /\ BackDataFirst' /\ ~pooled'
    BY <1>1, <1>2, <2>2 DEF Live, BackDataFirst
  <2>. QED
    BY <2>3, LivesOn
<1>3. CASE Finish("write_error", recvData)
  <2>1. status' = "write_error" /\ ~pooled'
    BY <1>3 DEF Finish, ErrorEnds
  <2>. QED
    BY <2>1, EndsInError DEF ErrorEnds
<1>4. CASE Killed
  <2>1. status' = "sigpipe" /\ ~pooled'
    BY <1>1, <1>4 DEF Killed
  <2>. QED
    BY <2>1 DEF Live, BackDataFirst, KeepsSocket, EofLosesNothing, PooledFlushed
<1>. QED
  BY <1>2, <1>3, <1>4 DEF WriteData

(* A connection that is over stays as it is.                                *)
LEMMA EndStays ==
  ASSUME EndInv, UNCHANGED <<recvData, sendData, todo, status, pooled, peer, sent, delivered>>
  PROVE  BackDataFirst' /\ KeepsSocket' /\ EofLosesNothing' /\ PooledFlushed'
BY DEF EndInv, Live, BackDataFirst, KeepsSocket, EofLosesNothing, PooledFlushed, Stream

(* Every step ends a connection, if at all, as it should.                   *)
LEMMA EndStep == EndInv /\ [Next]_vars => EndInv'
<1>. SUFFICES ASSUME EndInv, [Next]_vars PROVE EndInv'
  OBVIOUS
<1>0. IInv /\ IInv'
  BY StepInv DEF EndInv
<1>. DEFINE Goal == BackDataFirst' /\ KeepsSocket' /\ EofLosesNothing' /\ PooledFlushed'
<1>1. ASSUME ReadFront PROVE Goal
  <2>1. InLoop /\ reg["front"] = "read" /\ HandleReadFrontData(timers) /\ timers \in Nat
    BY <1>0, <1>1 DEF ReadFront, IInv, TypeOK
  <2>2. Flowing
    BY <1>0, <2>1 DEF IInv, NeverDeaf, InLoop, Blocked, Sides, Other
  <2>. QED
    BY <2>1, <2>2, FrontReadEnds
<1>2. ASSUME RetryTimer PROVE Goal
  <2>1. InLoop /\ timers > 0 /\ HandleReadFrontData(timers - 1) /\ timers \in Nat
    BY <1>0, <1>2 DEF RetryTimer, IInv, TypeOK
  <2>2. Flowing
    BY <1>0, <2>1 DEF IInv, NeverDeaf, InLoop, Blocked, ServerInv
  <2>3. timers - 1 \in Nat
    BY <2>1
  <2>. QED
    BY <2>1, <2>2, <2>3, FrontReadEnds
<1>3. ASSUME ReadBack PROVE Goal
  BY <1>3, BackReadEnds
<1>4. ASSUME DoWrite PROVE Goal
  <2>1. todo # <<>> /\ WriteData(Head(todo).to, Tail(todo)) /\ Live
    BY <1>0, <1>4 DEF DoWrite, IInv, ServerInv
  <2>2. Head(todo).to \in Sides
    <3>1. todo \in Seq(Writes)
      BY <1>0 DEF IInv, TypeOK, Writes
    <3>2. Head(todo) \in Writes
      BY <2>1, <3>1, HeadTailProperties
    <3>. QED
      BY <3>2 DEF Writes
  <2>3. recvData["back"] = <<>> \/ Head(todo).to = "front"
    BY <2>1 DEF EndInv, BackDataFirst
  <2>. QED
    BY <2>1, <2>2, <2>3, WriteEnds
<1>5. ASSUME SkipWrite PROVE Goal
  <2>1. /\ todo # <<>> /\ ~Due(Head(todo)) /\ Live /\ ~pooled
        /\ UNCHANGED <<recvData, status, pooled>>
    BY <1>0, <1>5 DEF SkipWrite, IInv, ServerInv, EndInv, KeepsSocket
  <2>2. recvData["back"] = <<>>
    <3>1. SUFFICES ASSUME recvData["back"] # <<>> PROVE FALSE
      OBVIOUS
    <3>2. Head(todo) = [what |-> "recvData", to |-> "front"]
      BY <2>1, <3>1 DEF EndInv, BackDataFirst
    <3>. QED
      BY <2>1, <3>1, <3>2 DEF Due, Other
  <2>3. Live' /\ BackDataFirst' /\ ~pooled'
    BY <2>1, <2>2 DEF Live, BackDataFirst
  <2>. QED
    BY <2>3, LivesOn
<1>6. ASSUME NEW s \in Sides, Writable(s) PROVE Goal
  <2>1. InLoop /\ WriteData(s, <<>>)
    BY <1>6 DEF Writable
  <2>2. Live /\ recvData["back"] = <<>>
    BY <2>1 DEF InLoop, EndInv, BackDataFirst
  <2>. QED
    BY <2>1, <2>2, WriteEnds
<1>7. ASSUME RetryTimerFreed PROVE Goal
  BY <1>7, EndStays DEF RetryTimerFreed, peerVars
<1>8. ASSUME CheckConnectionTimeout PROVE Goal
  <2>1. status' = "timeout" /\ ~pooled'
    BY <1>8 DEF CheckConnectionTimeout, Ends, Finish, ErrorEnds
  <2>. QED
    BY <2>1, EndsInError DEF ErrorEnds
<1>9. ASSUME Peers PROVE Goal
  <2>1. Live /\ UNCHANGED connVars
    BY <1>9 DEF Peers, PeerSend, PeerRead, PeerClose, PeerReset, Present
  <2>2. Live' /\ BackDataFirst' /\ ~pooled'
    BY <2>1 DEF connVars, Live, EndInv, BackDataFirst, KeepsSocket
  <2>. QED
    BY <2>2, LivesOn
<1>10. ASSUME UNCHANGED vars PROVE Goal
  BY <1>10, EndStays DEF vars, connVars, peerVars
<1>11. Goal
  BY <1>1, <1>2, <1>3, <1>4, <1>5, <1>6, <1>7, <1>8, <1>9, <1>10 DEF Next, Handlers
<1>. QED
  BY <1>0, <1>11 DEF EndInv

(* How connections end, together with the relay's own invariant.            *)
THEOREM EndInvHolds == Spec => []EndInv
<1>1. Init => EndInv
  <2>1. ASSUME Init PROVE EndInv
    <3>1. IInv
      BY <2>1, InitInv
    <3>2. BackDataFirst /\ KeepsSocket /\ EofLosesNothing /\ PooledFlushed
      BY <2>1 DEF Init, Live, BackDataFirst, KeepsSocket, EofLosesNothing, PooledFlushed, Sides
    <3>. QED
      BY <3>1, <3>2 DEF EndInv
  <2>. QED
    BY <2>1
<1>. QED
  BY <1>1, EndStep, PTL DEF Spec

(* An end of file is acted upon only after the other side took all that the *)
(* peer had sent, for streams of any length (handle_readFrontData and       *)
(* handle_readBackendData, ret == 2).                                       *)
THEOREM EofIsLast == Spec => []EofLosesNothing
<1>1. EndInv => EofLosesNothing
  BY DEF EndInv
<1>. QED
  BY <1>1, EndInvHolds, PTL

(* The pool gets no socket with the rest of a request, nor, when the client *)
(* has left, with the rest of a response (protocol_releaseBackendConnect).  *)
THEOREM PoolGetsFlushed == Spec => []PooledFlushed
<1>1. EndInv => PooledFlushed
  BY DEF EndInv
<1>. QED
  BY <1>1, EndInvHolds, PTL
-----------------------------------------------------------------------------
(* The promise of the relay.                                                *)

Pendings == [s \in Sides |-> Pending(s)]

(* A front part of p is one of p \o q, and q follows the rest.              *)
LEMMA FrontOfConcat ==
  ASSUME NEW S, NEW p \in Seq(S), NEW q \in Seq(S), NEW n \in 0..Len(p)
  PROVE  /\ n <= Len(p \o q)
         /\ SubSeq(p \o q, 1, n) = SubSeq(p, 1, n)
         /\ SubSeq(p \o q, n + 1, Len(p \o q)) = SubSeq(p, n + 1, Len(p)) \o q
<1>. DEFINE r == p \o q
            a == SubSeq(p, 1, n)
            b == SubSeq(p, n + 1, Len(p))
            c == SubSeq(r, 1, n)
            e == SubSeq(r, n + 1, Len(r))
<1>1. /\ Len(p) \in Nat /\ Len(q) \in Nat /\ n \in Nat /\ n <= Len(p)
      /\ r \in Seq(S) /\ Len(r) = Len(p) + Len(q)
      /\ \A i \in 1..Len(r) : r[i] = IF i <= Len(p) THEN p[i] ELSE q[i - Len(p)]
  BY LenProperties, ConcatProperties
<1>2. /\ a \in Seq(S) /\ Len(a) = n /\ \A i \in 1..n : a[i] = p[i]
      /\ b \in Seq(S) /\ Len(b) = Len(p) - n /\ \A i \in 1..(Len(p) - n) : b[i] = p[n + i]
  BY <1>1
<1>. HIDE DEF r
<1>3. /\ c \in Seq(S) /\ Len(c) = n /\ \A i \in 1..n : c[i] = r[i]
      /\ e \in Seq(S) /\ Len(e) = Len(r) - n /\ \A i \in 1..(Len(r) - n) : e[i] = r[n + i]
  BY <1>1
<1>. DEFINE f == b \o q
<1>. HIDE DEF a, b, c, e
<1>4. /\ f \in Seq(S) /\ Len(f) = Len(p) - n + Len(q)
      /\ \A i \in 1..(Len(p) - n + Len(q)) : f[i] = IF i <= Len(p) - n THEN b[i] ELSE q[i - (Len(p) - n)]
  <2>1. /\ f \in Seq(S) /\ Len(f) = Len(b) + Len(q)
        /\ \A i \in 1..(Len(b) + Len(q)) : f[i] = IF i <= Len(b) THEN b[i] ELSE q[i - Len(b)]
    <3>1. b \in Seq(S)
      BY <1>2
    <3>. QED
      BY <3>1, ConcatProperties
  <2>. HIDE DEF f
  <2>. QED
    BY <1>2, <2>1
<1>. HIDE DEF f
<1>5. c = a
  <2>1. \A i \in 1..n : c[i] = a[i]
    BY <1>1, <1>2, <1>3
  <2>. QED
    BY <1>2, <1>3, <2>1, SeqEqual
<1>6. e = f
  <2>1. Len(e) = Len(f) /\ f \in Seq(S) /\ Len(f) = Len(p) - n + Len(q)
    BY <1>1, <1>3, <1>4
  <2>2. ASSUME NEW i \in 1..Len(e) PROVE e[i] = f[i]
    <3>1. i \in 1..(Len(r) - n) /\ n + i \in 1..Len(r) /\ i \in 1..(Len(p) - n + Len(q))
      BY <1>1, <1>3
    <3>2. e[i] = r[n + i]
      BY <1>3, <3>1
    <3>3. f[i] = IF i <= Len(p) - n THEN b[i] ELSE q[i - (Len(p) - n)]
      BY <1>4, <3>1
    <3>4. CASE i <= Len(p) - n
      <4>1. b[i] = p[n + i] /\ n + i <= Len(p)
        BY <1>1, <1>2, <3>1, <3>4
      <4>. QED
        BY <1>1, <3>1, <3>2, <3>3, <3>4, <4>1
    <3>5. CASE i > Len(p) - n
      <4>1. i - (Len(p) - n) = n + i - Len(p) /\ ~(n + i <= Len(p)) /\ ~(i <= Len(p) - n)
        BY <1>1, <3>1, <3>5
      <4>. QED
        BY <1>1, <3>1, <3>2, <3>3, <4>1
    <3>. QED
      BY <1>1, <3>1, <3>4, <3>5
  <2>. QED
    BY <1>3, <2>1, <2>2, SeqEqual
<1>7. n <= Len(r)
  BY <1>1
<1>. QED
  BY <1>5, <1>6, <1>7, Zenon DEF a, b, c, e, f, r

(* What is on its way to side s of a live connection.                       *)
LEMMA PendingLemma ==
  ASSUME TypeOK, Live, NEW s \in Sides
  PROVE  /\ Pending(s) = ToWrite(s) \o inbox[Other(s)]
         /\ ToWrite(s) \in Seq(Bytes) /\ inbox[Other(s)] \in Seq(Bytes)
<1>1. sendData[s] \in Seq(Bytes) /\ recvData[Other(s)] \in Seq(Bytes) /\ inbox[Other(s)] \in Seq(Bytes)
  BY OtherSide DEF TypeOK
<1>2. ToWrite(s) \in Seq(Bytes)
  BY <1>1, ConcatProperties DEF ToWrite
<1>. QED
  BY <1>1, <1>2 DEF Pending, ToWrite

(* A connection that ends closes its streams.                               *)
LEMMA EndsClose ==
  ASSUME Live, ~Live', delivered' = delivered
  PROVE  Promise!Close
BY DEF Promise!Close, Pending

(* A step that moves bytes inside the relay only is none of its streams.    *)
LEMMA StreamsStutter ==
  ASSUME Live' = Live, delivered' = delivered,
         Live => \A s \in Sides : Pending(s)' = Pending(s)
  PROVE  UNCHANGED <<Pendings, delivered, Live>>
BY DEF Pendings, Pending

(* A write delivers what the kernel took.                                   *)
LEMMA WriteDelivers ==
  ASSUME TypeOK, Live, Live', NEW dst \in Sides, WriteOut(dst), inbox' = inbox
  PROVE  Promise!Deliver(dst) \/ UNCHANGED <<Pendings, delivered, Live>>
<1>. DEFINE src == Other(dst)
            p == ToWrite(dst)
            q == inbox[src]
            n == Accepts(dst)
<1>1. p \in Seq(Bytes) /\ q \in Seq(Bytes) /\ Pending(dst) = p \o q
  BY PendingLemma
<1>2. n \in 0..Len(p) /\ Len(p) \in Nat
  <2>1. room[dst] \in Nat /\ Len(p) \in Nat
    BY <1>1, RelayAssumption, LenProperties DEF TypeOK
  <2>. QED
    BY <2>1 DEF Accepts
<1>3. src \in Sides /\ src # dst /\ Other(src) = dst
  BY OtherSide
<1>4. /\ delivered' = [delivered EXCEPT ![dst] = delivered[dst] \o SubSeq(p, 1, n)]
      /\ sendData' = [sendData EXCEPT ![dst] = SubSeq(p, n + 1, Len(p))]
      /\ recvData' = [recvData EXCEPT ![src] = <<>>]
  BY DEF WriteOut, Moved, Taken, Rest
<1>5. Pending(dst)' = SubSeq(p, n + 1, Len(p)) \o q
  <2>1. sendData'[dst] = SubSeq(p, n + 1, Len(p)) /\ recvData'[src] = <<>> /\ inbox'[src] = q
    BY <1>3, <1>4 DEF TypeOK
  <2>2. SubSeq(p, n + 1, Len(p)) \in Seq(Bytes)
    BY <1>1, <1>2, SplitAt
  <2>3. SubSeq(p, n + 1, Len(p)) \o <<>> = SubSeq(p, n + 1, Len(p))
    BY <2>2, ConcatEmptySeq
  <2>. QED
    BY <2>1, <2>3 DEF Pending
<1>6. Pending(src)' = Pending(src)
  <2>1. sendData'[src] = sendData[src] /\ recvData'[dst] = recvData[dst] /\ inbox'[dst] = inbox[dst]
    BY <1>3, <1>4 DEF TypeOK
  <2>. QED
    BY <1>3, <2>1 DEF Pending
<1>7. \A s \in Sides : s = dst \/ s = src
  BY DEF Sides, Other
<1>8. CASE n = 0
  <2>1. SubSeq(p, 1, n) = <<>> /\ SubSeq(p, n + 1, Len(p)) = p
    BY <1>1, <1>8, SubSeqEmpty, SubSeqFull
  <2>2. delivered' = delivered
    <3>1. delivered[dst] \in Seq(Bytes)
      BY DEF TypeOK
    <3>2. delivered[dst] \o <<>> = delivered[dst]
      BY <3>1, ConcatEmptySeq
    <3>. QED
      BY <1>4, <2>1, <3>2 DEF TypeOK
  <2>3. Pending(dst)' = Pending(dst)
    BY <1>1, <1>5, <2>1
  <2>4. \A s \in Sides : Pending(s)' = Pending(s)
    BY <1>6, <1>7, <2>3
  <2>. QED
    BY <2>2, <2>4, StreamsStutter
<1>9. CASE n > 0
  <2>1. /\ n <= Len(p \o q)
        /\ SubSeq(p \o q, 1, n) = SubSeq(p, 1, n)
        /\ SubSeq(p \o q, n + 1, Len(p \o q)) = SubSeq(p, n + 1, Len(p)) \o q
    BY <1>1, <1>2, FrontOfConcat
  <2>2. n \in 1..Len(Pendings[dst]) /\ Pendings[dst] = p \o q
    <3>1. Pendings[dst] = p \o q
      BY <1>1 DEF Pendings
    <3>2. Len(p \o q) \in Nat
      BY <1>1, ConcatProperties, LenProperties
    <3>. QED
      BY <1>2, <1>9, <2>1, <3>1, <3>2
  <2>3. delivered' = [delivered EXCEPT ![dst] = @ \o SubSeq(Pendings[dst], 1, n)]
    BY <1>4, <2>1, <2>2
  <2>4. Pendings' = [Pendings EXCEPT ![dst] = SubSeq(@, n + 1, Len(@))]
    <3>1. Pendings' = [s \in Sides |-> Pending(s)']
      BY DEF Pendings
    <3>2. Pendings'[dst] = SubSeq(Pendings[dst], n + 1, Len(Pendings[dst]))
      BY <1>5, <2>1, <2>2, <3>1
    <3>3. Pendings'[src] = Pendings[src]
      BY <1>3, <1>6, <3>1 DEF Pendings
    <3>. QED
      BY <1>3, <1>7, <3>1, <3>2, <3>3 DEF Pendings
  <2>5. \E k \in 1..Len(Pendings[dst]) :
          /\ delivered' = [delivered EXCEPT ![dst] = @ \o SubSeq(Pendings[dst], 1, k)]
          /\ Pendings' = [Pendings EXCEPT ![dst] = SubSeq(@, k + 1, Len(@))]
    BY <2>2, <2>3, <2>4
  <2>. QED
    BY <2>5 DEF Promise!Deliver, Pendings
<1>. QED
  BY <1>2, <1>8, <1>9

(* A read moves bytes from the kernel into m_recvData.                      *)
LEMMA ReadIsInside ==
  ASSUME TypeOK, Live, NEW s \in Sides, NEW ret, Read(s, ret),
         recvData' = Received(s, ret), UNCHANGED <<sendData, delivered, status>>
  PROVE  UNCHANGED <<Pendings, delivered, Live>>
<1>. DEFINE o == Other(s)
<1>1. o \in Sides /\ o # s /\ Other(o) = s /\ \A e \in Sides : e = s \/ e = o
  BY OtherSide DEF Sides, Other
<1>2. /\ recvData \in [Sides -> Seq(Bytes)] /\ inbox \in [Sides -> Seq(Bytes)]
      /\ sendData \in [Sides -> Seq(Bytes)]
  BY DEF TypeOK
<1>3. recvData'[o] = recvData[o] /\ inbox'[o] = inbox[o]
  BY <1>1, <1>2 DEF Read, Received
<1>4. Pending(s)' = Pending(s)
  BY <1>3 DEF Pending, Live
<1>5. Pending(o)' = Pending(o)
  <2>1. CASE ret = 0
    <3>1. recvData'[s] = recvData[s] \o inbox[s] /\ inbox'[s] = <<>>
      BY <1>2, <2>1 DEF Read, Received
    <3>. DEFINE a == sendData[o]
                b == recvData[s]
                c == inbox[s]
    <3>2. a \in Seq(Bytes) /\ b \in Seq(Bytes) /\ c \in Seq(Bytes)
      BY <1>1, <1>2
    <3>3. (a \o (b \o c)) \o <<>> = (a \o b) \o c
      <4>. HIDE DEF a, b, c
      <4>1. (a \o b) \o c \in Seq(Bytes) /\ (a \o b) \o c = a \o (b \o c)
        BY <3>2, Assoc
      <4>. QED
        BY <4>1, ConcatEmptySeq
    <3>. QED
      BY <1>1, <3>1, <3>3 DEF Pending, Live
  <2>2. CASE ret # 0
    BY <2>2 DEF Read, Received, Pending, Live
  <2>. QED
    BY <2>1, <2>2
<1>6. \A e \in Sides : Pending(e)' = Pending(e)
  BY <1>1, <1>4, <1>5
<1>. QED
  BY <1>6, StreamsStutter DEF Live

(* handle_readFrontData forwards inside the relay, or closes the streams.   *)
LEMMA FrontReadStreams ==
  ASSUME TypeOK, Live, NEW t, HandleReadFrontData(t)
  PROVE  Promise!Close \/ UNCHANGED <<Pendings, delivered, Live>>
<1>1. PICK ret \in ReadRets("front"), verdict \in Verdicts :
        /\ Read("front", ret)
        /\ \/ FrontEnds(ret, verdict, Received("front", ret))
           \/ FrontForwards(ret, verdict, Received("front", ret))
           \/ ConnectFails(ret, verdict, Received("front", ret), t)
        /\ UNCHANGED <<staleTimer, peer, room, sent, delivered>>
  BY DEF HandleReadFrontData
<1>. DEFINE recv == Received("front", ret)
<1>2. CASE \E why \in Statuses \ {"live"} : Finish(why, recv)
  <2>1. ~Live'
    BY <1>2 DEF Finish, Live
  <2>. QED
    BY <1>1, <2>1, EndsClose
<1>3. CASE recvData' = recv /\ UNCHANGED <<sendData, status>>
  <2>1. "front" \in Sides
    BY DEF Sides
  <2>. QED
    BY <1>1, <1>3, <2>1, ReadIsInside
<1>. HIDE DEF recv
<1>4. CASE FrontEnds(ret, verdict, recv)
  <2>1. \E why \in {"front_error", "front_eof", "parse_error", "normal"} : Finish(why, recv)
    BY <1>4 DEF FrontEnds, Ends
  <2>. QED
    BY <1>2, <2>1 DEF Statuses, ErrorEnds
<1>5. CASE FrontForwards(ret, verdict, recv)
  BY <1>3, <1>5 DEF FrontForwards
<1>6. CASE ConnectFails(ret, verdict, recv, t)
  BY <1>2, <1>3, <1>6 DEF ConnectFails, Statuses, ErrorEnds
<1>. QED
  BY <1>1, <1>4, <1>5, <1>6 DEF recv

(* So does handle_readBackendData.                                          *)
LEMMA BackReadStreams ==
  ASSUME TypeOK, ReadBack
  PROVE  Promise!Close \/ UNCHANGED <<Pendings, delivered, Live>>
<1>1. PICK ret \in ReadRets("back"), verdict \in Verdicts :
        /\ Read("back", ret)
        /\ \/ BackEnds(ret, verdict, Received("back", ret))
           \/ BackForwards(ret, verdict, Received("back", ret))
  BY DEF ReadBack
<1>2. Live /\ delivered' = delivered
  BY DEF ReadBack, InLoop
<1>. DEFINE recv == Received("back", ret)
<1>. HIDE DEF recv
<1>3. CASE BackEnds(ret, verdict, recv)
  <2>1. \E why \in {"back_error", "back_eof", "parse_error", "normal"} : Finish(why, recv)
    BY <1>3 DEF BackEnds, Ends
  <2>2. ~Live'
    BY <2>1 DEF Finish, Live
  <2>. QED
    BY <1>2, <2>2, EndsClose
<1>4. CASE BackForwards(ret, verdict, recv)
  <2>1. recvData' = Received("back", ret) /\ UNCHANGED <<sendData, status>> /\ "back" \in Sides
    BY <1>4 DEF BackForwards, recv, Sides
  <2>. QED
    BY <1>1, <1>2, <2>1, ReadIsInside
<1>. QED
  BY <1>1, <1>3, <1>4 DEF recv

(* A byte that a peer sends is the last one that is on its way.             *)
LEMMA PeerSendStreams ==
  ASSUME TypeOK, NEW s \in Sides, PeerSend(s)
  PROVE  Promise!Send(Other(s))
<1>. DEFINE o == Other(s)
            b == sent[s] + 1
<1>1. o \in Sides /\ o # s /\ Other(o) = s /\ \A e \in Sides : e = s \/ e = o
  BY OtherSide DEF Sides, Other
<1>2. /\ Live /\ sent[s] < MaxBytes /\ inbox' = [inbox EXCEPT ![s] = Append(inbox[s], b)]
      /\ UNCHANGED <<recvData, sendData, status, delivered>>
  BY DEF PeerSend, Present, connVars
<1>3. b \in Bytes
  BY <1>2, RelayAssumption DEF TypeOK, Bytes
<1>4. inbox \in [Sides -> Seq(Bytes)]
  BY DEF TypeOK
<1>. HIDE DEF b
<1>5. inbox'[s] = Append(inbox[s], b) /\ inbox'[o] = inbox[o]
  BY <1>1, <1>2, <1>4
<1>6. Pending(s)' = Pending(s)
  <2>1. inbox'[o] = inbox[o] /\ UNCHANGED <<recvData, sendData, status>>
    BY <1>2, <1>5
  <2>. QED
    BY <2>1 DEF Pending, Live
<1>7. Pending(o)' = Append(Pending(o), b)
  <2>1. Pending(o) = ToWrite(o) \o inbox[s] /\ ToWrite(o) \in Seq(Bytes) /\ inbox[s] \in Seq(Bytes)
    BY <1>1, <1>2, PendingLemma
  <2>2. ToWrite(o) \o Append(inbox[s], b) = Append(ToWrite(o) \o inbox[s], b)
    BY <1>3, <2>1, AppendToConcat
  <2>3. Pending(o)' = ToWrite(o) \o Append(inbox[s], b)
    BY <1>1, <1>2, <1>5 DEF Pending, Live, ToWrite
  <2>. QED
    BY <2>1, <2>2, <2>3
<1>8. Pendings' = [Pendings EXCEPT ![o] = Append(Pendings[o], b)]
  <2>1. Pendings' = [e \in Sides |-> Pending(e)']
    BY DEF Pendings
  <2>. QED
    BY <1>1, <1>6, <1>7, <2>1 DEF Pendings
<1>9. Live' = Live
  BY <1>2 DEF Live
<1>. QED
  BY <1>2, <1>3, <1>8, <1>9 DEF Promise!Send, Pendings

(* The relay implements two streams that may be closed: each step of it is  *)
(* a byte sent, some delivered, the close, or none of them, for streams of  *)
(* any length (write_data, read_data, finished_connection).                 *)
THEOREM StreamsImplemented == Spec => ImplementsStreams
<1>1. Init => Promise!Init
  <2>1. SUFFICES ASSUME Init PROVE Promise!Init
    OBVIOUS
  <2>2. Live /\ \A s \in Sides : Pending(s) = <<>>
    <3>1. \A s \in Sides : sendData[s] = <<>> /\ recvData[Other(s)] = <<>> /\ inbox[Other(s)] = <<>>
      BY <2>1, OtherSide DEF Init
    <3>2. <<>> \o <<>> \o <<>> = <<>>
      OBVIOUS
    <3>. QED
      BY <2>1, <3>1, <3>2 DEF Init, Live, Pending
  <2>. QED
    BY <2>1, <2>2 DEF Init, Promise!Init
<1>2. ASSUME IInv, [Next]_vars
      PROVE  [Promise!Next]_<<Pendings, delivered, Live>>
  <2>. DEFINE Goal == Promise!Next \/ UNCHANGED <<Pendings, delivered, Live>>
  <2>0. TypeOK
    BY <1>2 DEF IInv
  <2>1. ASSUME ReadFront \/ RetryTimer PROVE Goal
    <3>1. Live /\ \E t : HandleReadFrontData(t)
      BY <2>1 DEF ReadFront, RetryTimer, InLoop
    <3>. QED
      BY <2>0, <3>1, FrontReadStreams DEF Promise!Next
  <2>2. ASSUME ReadBack PROVE Goal
    BY <2>0, <2>2, BackReadStreams DEF Promise!Next
  <2>3. ASSUME NEW dst \in Sides, NEW next, Live, WriteData(dst, next) PROVE Goal
    <3>1. inbox' = inbox
      BY <2>3 DEF WriteData
    <3>2. CASE WriteOut(dst) /\ status' = status
      <4>1. Live'
        BY <2>3, <3>2 DEF Live
      <4>. QED
        BY <2>0, <2>3, <3>1, <3>2, <4>1, WriteDelivers DEF Promise!Next
    <3>3. CASE status' \in {"write_error", "sigpipe"} /\ delivered' = delivered
      <4>1. ~Live'
        BY <3>3 DEF Live
      <4>. QED
        BY <2>3, <3>3, <4>1, EndsClose DEF Promise!Next
    <3>. QED
      BY <2>3, <3>2, <3>3 DEF WriteData, Finish, Killed
  <2>4. ASSUME DoWrite PROVE Goal
    <3>1. todo # <<>> /\ WriteData(Head(todo).to, Tail(todo)) /\ Live
      BY <1>2, <2>4 DEF DoWrite, IInv, ServerInv
    <3>2. todo \in Seq(Writes)
      BY <2>0 DEF TypeOK, Writes
    <3>3. Head(todo) \in Writes
      BY <3>1, <3>2, HeadTailProperties
    <3>. QED
      BY <2>3, <3>1, <3>3 DEF Writes
  <2>5. ASSUME NEW s \in Sides, Writable(s) PROVE Goal
    BY <2>3, <2>5 DEF Writable, InLoop
  <2>6. ASSUME CheckConnectionTimeout PROVE Goal
    <3>1. Live /\ ~Live' /\ delivered' = delivered
      BY <2>6 DEF CheckConnectionTimeout, InLoop, Ends, Finish, Live, peerVars
    <3>. QED
      BY <3>1, EndsClose DEF Promise!Next
  <2>7. ASSUME UNCHANGED <<sendData, recvData, inbox, delivered, status>> PROVE Goal
    BY <2>7, StreamsStutter DEF Pending, Live
  <2>8. ASSUME SkipWrite \/ RetryTimerFreed PROVE Goal
    BY <2>7, <2>8 DEF SkipWrite, RetryTimerFreed, peerVars
  <2>9. ASSUME NEW s \in Sides, PeerSend(s) \/ PeerRead(s) \/ PeerClose(s) \/ PeerReset(s) PROVE Goal
    <3>1. CASE PeerSend(s)
      BY <2>0, <3>1, PeerSendStreams, OtherSide DEF Promise!Next
    <3>2. CASE PeerRead(s) \/ PeerClose(s) \/ PeerReset(s)
      BY <2>7, <3>2 DEF PeerRead, PeerClose, PeerReset, connVars
    <3>. QED
      BY <2>9, <3>1, <3>2
  <2>10. ASSUME UNCHANGED vars PROVE Goal
    BY <2>7, <2>10 DEF vars, connVars, peerVars
  <2>. QED
    BY <1>2, <2>1, <2>2, <2>4, <2>5, <2>6, <2>8, <2>9, <2>10 DEF Next, Handlers, Peers
<1>3. IInv /\ [Next]_vars => [Promise!Next]_<<Pendings, delivered, Live>>
  BY <1>2
<1>. QED
  BY <1>1, <1>3, Inductive, PTL DEF Spec, ImplementsStreams, Promise!Spec, Promise!vars, Pendings
=============================================================================
