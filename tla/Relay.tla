-------------------------------- MODULE Relay --------------------------------
(***************************************************************************)
(* One proxied connection inside its ClientThread (clientthread.cpp): the  *)
(* life of a Connection from the first registration of its front socket to *)
(* finished_connection, and the bytes it moves between front and back.     *)
(*                                                                         *)
(* The thread runs one event handler at a time; the two peers act between  *)
(* any two socket calls, so a handler that writes more than once is taken  *)
(* apart at its writes (todo).  The protocol plug-in is FakeProtocol,      *)
(* which forwards everything; the verdict of protocol_front/_backend is    *)
(* left open, since a plug-in may also end the connection.                 *)
(***************************************************************************)
EXTENDS Naturals, Sequences
LOCAL INSTANCE SequencesExt

CONSTANTS
  MaxBytes,  \* bound: bytes each peer sends
  SndBuf,    \* bytes the kernel takes for a peer that does not read
  TryTimes,  \* config tryConnServerTimes
  UsePool    \* DataBaseGroup::useConnectionPool

ASSUME RelayAssumption ==
  /\ MaxBytes \in Nat
  /\ SndBuf \in Nat \ {0}
  /\ TryTimes \in Nat \ {0}
  /\ UsePool \in BOOLEAN

Sides == {"front", "back"}
Other(s) == IF s = "front" THEN "back" ELSE "front"
Bytes == 1..MaxBytes

VARIABLES
  reg,           \* event the thread's loop watches for on each socket
  recvData,      \* NetworkSocket::m_recvData
  sendData,      \* NetworkSocket::m_sendData: what the last write left over
  server,        \* conn.sock.curservs: NULL, a socket never connected, connected
  protocolBase,  \* conn.protocolBase is set
  failNum,       \* request_conn_server_failNum of the front socket
  timers,        \* retry timers armed with this Connection's address
  todo,          \* writes the running handler still has to consider
  status,        \* the Connection is live, or what ended it
  pooled,        \* the backend socket went back to the ConnectionPool
  staleTimer,    \* a retry timer fired on the freed Connection
  \* the peers and the kernel
  peer,          \* what each peer did to its end
  inbox,         \* bytes the peer sent that the thread has not read
  room,          \* bytes the kernel would still take for the peer
  sent,          \* history: bytes each peer has sent, numbered 1, 2, ...
  delivered      \* history: bytes the kernel took for each peer

connVars == <<reg, recvData, sendData, server, protocolBase, failNum, timers,
              todo, status, pooled, staleTimer>>
peerVars == <<peer, inbox, room, sent, delivered>>
vars == <<connVars, peerVars>>

Live == status = "live"

(***************************************************************************)
(* add_task: the front socket is registered for reading, nothing else is   *)
(* known of the connection yet.                                            *)
(***************************************************************************)
Init ==
  /\ reg = [s \in Sides |-> IF s = "front" THEN "read" ELSE "none"]
  /\ recvData = [s \in Sides |-> <<>>]
  /\ sendData = [s \in Sides |-> <<>>]
  /\ server = "none"
  /\ protocolBase = FALSE
  /\ failNum = 0
  /\ timers = 0
  /\ todo = <<>>
  /\ status = "live"
  /\ pooled = FALSE
  /\ staleTimer = FALSE
  /\ peer = [s \in Sides |-> "open"]
  /\ inbox = [s \in Sides |-> <<>>]
  /\ room = [s \in Sides |-> SndBuf]
  /\ sent = [s \in Sides |-> 0]
  /\ delivered = [s \in Sides |-> <<>>]

-----------------------------------------------------------------------------
(* The peers: send, read, close after sending, abort. *)

Present(s) == Live /\ (s = "back" => server = "connected")

PeerSend(s) ==
  /\ Present(s) /\ peer[s] = "open" /\ sent[s] < MaxBytes
  /\ sent' = [sent EXCEPT ![s] = @ + 1]
  /\ inbox' = [inbox EXCEPT ![s] = Append(@, sent[s] + 1)]
  /\ UNCHANGED <<connVars, peer, room, delivered>>

PeerRead(s) ==
  /\ Present(s) /\ peer[s] \in {"open", "closed"} /\ room[s] < SndBuf
  /\ room' = [room EXCEPT ![s] = @ + 1]
  /\ UNCHANGED <<connVars, peer, inbox, sent, delivered>>

PeerClose(s) ==
  /\ Present(s) /\ peer[s] = "open"
  /\ peer' = [peer EXCEPT ![s] = "closed"]
  /\ UNCHANGED <<connVars, inbox, room, sent, delivered>>

\* The kernel reports a reset as ECONNRESET, or as EPIPE after a close.
PeerReset(s) ==
  /\ Present(s) /\ peer[s] \in {"open", "closed"}
  /\ peer' = [peer EXCEPT ![s] = IF @ = "open" THEN "reset" ELSE "broken"]
  /\ UNCHANGED <<connVars, inbox, room, sent, delivered>>

-----------------------------------------------------------------------------
(* finished_connection *)

\* The endings that are CONN_FINISHED_ERR.
ErrorEnds == {"front_error", "back_error", "back_eof", "write_error",
              "parse_error", "alloc_failed", "timeout"}

\* Mutant: a connection that ended in an error gives its socket back, too.
FinishAlwaysPools(why, recv) ==
  /\ status' = why
  /\ reg' = [s \in Sides |-> "none"]
  /\ pooled' = (UsePool /\ server = "connected")
  /\ recvData' = [recv EXCEPT !["front"] = <<>>]
  /\ sendData' = [sendData EXCEPT !["front"] = <<>>]

(***************************************************************************)
(* Both sockets leave the event loop and the Connection is deleted.        *)
(* protocol_releaseBackendConnect gives the backend socket to the pool,    *)
(* with its buffers as they are, unless the connection ended in an error   *)
(* or the plug-in left it in a transaction (keep).                         *)
(***************************************************************************)
Finish(why, recv) ==
  /\ status' = why
  /\ reg' = [s \in Sides |-> "none"]
  /\ \E keep \in BOOLEAN :
       pooled' = (keep /\ UsePool /\ server = "connected" /\ why \notin ErrorEnds)
  /\ recvData' = [recv EXCEPT !["front"] = <<>>]
  /\ sendData' = [sendData EXCEPT !["front"] = <<>>]

\* The process dies of SIGPIPE, which nothing in it ignores or catches.
Killed ==
  /\ status' = "sigpipe"
  /\ reg' = [s \in Sides |-> "none"]
  /\ recvData' = [s \in Sides |-> <<>>]
  /\ sendData' = [s \in Sides |-> <<>>]
  /\ UNCHANGED pooled

-----------------------------------------------------------------------------
(* write_data *)

Unconnected(dst) == dst = "back" /\ server = "unconnected"

\* send() returns an error: a reset, or the socket that never connected.
WriteFails(dst) == peer[dst] = "reset" \/ Unconnected(dst)

CanWrite(dst) == peer[dst] \in {"open", "closed"} /\ ~Unconnected(dst)

\* What there is to write to dst, how much of it send() accepts before EAGAIN.
ToWrite(dst) == sendData[dst] \o recvData[Other(dst)]

\* Mutant: EAGAIN counts as a full write.
AcceptsAll(dst) == Len(ToWrite(dst))

Accepts(dst) == IF Len(ToWrite(dst)) <= room[dst] THEN Len(ToWrite(dst)) ELSE room[dst]
Taken(dst) == SubSeq(ToWrite(dst), 1, Accepts(dst))

\* Mutant: the last byte the kernel took is kept, too.
RestAndOneMore(dst) ==
  SubSeq(ToWrite(dst), IF Accepts(dst) = 0 THEN 1 ELSE Accepts(dst), Len(ToWrite(dst)))

Rest(dst) == SubSeq(ToWrite(dst), Accepts(dst) + 1, Len(ToWrite(dst)))

\* The kernel took what it took, and what was read has left m_recvData.
Moved(dst) ==
  /\ delivered' = [delivered EXCEPT ![dst] = @ \o Taken(dst)]
  /\ room' = [room EXCEPT ![dst] = @ - Accepts(dst)]
  /\ recvData' = [recvData EXCEPT ![Other(dst)] = <<>>]

\* Mutants of what follows a write: the rest is not saved ...
WriteOutDropsRest(dst) ==
  /\ Moved(dst)
  /\ sendData' = [sendData EXCEPT ![dst] = <<>>]
  /\ reg' = [reg EXCEPT ![dst] = "read"]

\* ... the source is not watched again ...
WriteOutDeafens(dst) ==
  /\ Moved(dst)
  /\ sendData' = [sendData EXCEPT ![dst] = Rest(dst)]
  /\ reg' = IF Rest(dst) # <<>>
            THEN [reg EXCEPT ![dst] = "write", ![Other(dst)] = "none"]
            ELSE [reg EXCEPT ![dst] = "read"]

\* ... or the blocked side is not watched for writing.
WriteOutWaitsForRead(dst) ==
  /\ Moved(dst)
  /\ sendData' = [sendData EXCEPT ![dst] = Rest(dst)]
  /\ reg' = IF Rest(dst) # <<>>
            THEN [reg EXCEPT ![dst] = "read", ![Other(dst)] = "none"]
            ELSE [reg EXCEPT ![dst] = "read", ![Other(dst)] = "read"]

(***************************************************************************)
(* Write to dst what the last write left over and then what was read from  *)
(* the other side.  If the kernel takes it all, dst is watched for reading *)
(* and, when there was a left-over, so is the source; otherwise the rest   *)
(* becomes the left-over, dst is watched for writing and the source is not *)
(* watched at all.                                                         *)
(***************************************************************************)
WriteOut(dst) ==
  /\ Moved(dst)
  /\ sendData' = [sendData EXCEPT ![dst] = Rest(dst)]
  /\ reg' = IF Rest(dst) # <<>>
            THEN [reg EXCEPT ![dst] = "write", ![Other(dst)] = "none"]
            ELSE [reg EXCEPT ![dst] = "read",
                             ![Other(dst)] = IF sendData[dst] # <<>> THEN "read" ELSE @]

\* write_data(con, dst = front) with something to write; next is what the
\* handler does after it.
WriteData(dst, next) ==
  /\ \/ CanWrite(dst) /\ WriteOut(dst) /\ todo' = next /\ UNCHANGED <<status, pooled>>
     \/ WriteFails(dst) /\ Finish("write_error", recvData) /\ todo' = <<>>
        /\ UNCHANGED <<room, delivered>>
     \/ peer[dst] = "broken" /\ Killed /\ todo' = <<>> /\ UNCHANGED <<room, delivered>>
  /\ UNCHANGED <<server, protocolBase, failNum, timers, staleTimer, peer, inbox, sent>>

(***************************************************************************)
(* send_data: first what was read from the side that woke the handler,     *)
(* then the left-over for that side, then the left-over for the other.     *)
(***************************************************************************)
SendData(src) ==
  <<[what |-> "recvData", to |-> Other(src)],
    [what |-> "sendData", to |-> src],
    [what |-> "sendData", to |-> Other(src)]>>

Due(w) == IF w.what = "recvData" THEN recvData[Other(w.to)] # <<>> ELSE sendData[w.to] # <<>>

DoWrite ==
  /\ todo # <<>> /\ Due(Head(todo))
  /\ WriteData(Head(todo).to, Tail(todo))

SkipWrite ==
  /\ todo # <<>> /\ ~Due(Head(todo))
  /\ todo' = Tail(todo)
  /\ UNCHANGED <<reg, recvData, sendData, server, protocolBase, failNum, timers,
                 status, pooled, staleTimer, peerVars>>

\* The thread is back in its event loop.
InLoop == Live /\ todo = <<>>

\* A write event: rw_frontData and rw_backendData call write_data directly.
Writable(s) ==
  /\ InLoop /\ reg[s] = "write"
  /\ room[s] > 0 \/ peer[s] \in {"reset", "broken"}
  /\ WriteData(s, <<>>)

-----------------------------------------------------------------------------
(* read_data *)

Down(s) == peer[s] \in {"reset", "broken"}
Readable(s) == inbox[s] # <<>> \/ peer[s] # "open"

\* 0: read all that has arrived; 2: FIONREAD is 0; -1: ioctl or recv failed.
ReadRets(s) ==
  (IF inbox[s] # <<>> THEN {0} ELSE {2}) \cup (IF Down(s) THEN {-1} ELSE {})

Read(s, ret) ==
  inbox' = IF ret = 0 THEN [inbox EXCEPT ![s] = <<>>] ELSE inbox

Received(s, ret) ==
  IF ret = 0 THEN [recvData EXCEPT ![s] = @ \o inbox[s]] ELSE recvData

\* What a protocol plug-in answers: forward, close with an error, close.
Verdicts == {"forward", "fail", "close"}

\* A handler that ends the connection and leaves the rest as it was.
Ends(why, recv) ==
  Finish(why, recv) /\ UNCHANGED <<todo, server, protocolBase, failNum>>

-----------------------------------------------------------------------------
(* handle_readFrontData *)

\* Mutant: an end of file ends the connection, whatever is still to be handled.
FrontEndsAtEof(ret, verdict, recv) ==
  \/ ret = -1 /\ Ends("front_error", recv)
  \/ ret = 2 /\ Ends("front_eof", recv)
  \/ recv["front"] # <<>> /\ ret # -1 /\ verdict = "fail" /\ Ends("parse_error", recv)
  \/ recv["front"] # <<>> /\ ret # -1 /\ verdict = "close" /\ Ends("normal", recv)

\* The reads and verdicts that end the connection.
FrontEnds(ret, verdict, recv) ==
  \/ ret = -1 /\ Ends("front_error", recv)
  \/ ret = 2 /\ recv["front"] = <<>> /\ Ends("front_eof", recv)
  \/ recv["front"] # <<>> /\ ret # -1 /\ verdict = "fail" /\ Ends("parse_error", recv)
  \/ recv["front"] # <<>> /\ ret # -1 /\ verdict = "close" /\ Ends("normal", recv)

\* alloc_server finds curservs set, or connects; then send_data.
FrontForwards(ret, verdict, recv) ==
  /\ recv["front"] # <<>> /\ ret # -1 /\ verdict = "forward"
  /\ protocolBase' = TRUE
  /\ recvData' = recv
  /\ todo' = SendData("front")
  /\ \/ server # "none" /\ UNCHANGED <<server, reg>>
     \/ server = "none" /\ server' = "connected" /\ reg' = [reg EXCEPT !["back"] = "read"]
  /\ UNCHANGED <<sendData, failNum, status, pooled>>

(***************************************************************************)
(* alloc_server fails: protocol_createBackendConnect has already stored    *)
(* the new socket in curservs, and get_serverFailed, which closes masters  *)
(* and slavers only, leaves it there.  The connection ends after TryTimes  *)
(* failures; before that, a timer of 10 seconds is armed.                  *)
(***************************************************************************)
ConnectFails(ret, verdict, recv, t) ==
  /\ recv["front"] # <<>> /\ ret # -1 /\ verdict = "forward"
  /\ server = "none" /\ server' = "unconnected"
  /\ failNum' = failNum + 1
  /\ \/ /\ failNum + 1 >= TryTimes
        /\ Finish("alloc_failed", recv)
        /\ timers' = t
        /\ protocolBase' = TRUE
     \/ /\ failNum + 1 < TryTimes
        /\ protocolBase' = FALSE
        /\ timers' = t + 1
        /\ recvData' = recv
        /\ UNCHANGED <<reg, sendData, status, pooled>>
  /\ UNCHANGED todo

\* t: the retry timers armed besides the one that calls the handler.
HandleReadFrontData(t) ==
  \E ret \in ReadRets("front"), verdict \in Verdicts :
    LET recv == Received("front", ret)
    IN /\ Read("front", ret)
       /\ \/ FrontEnds(ret, verdict, recv) /\ timers' = t
          \/ FrontForwards(ret, verdict, recv) /\ timers' = t
          \/ ConnectFails(ret, verdict, recv, t)
       /\ UNCHANGED <<staleTimer, peer, room, sent, delivered>>

\* rw_frontData on a read event.
ReadFront ==
  /\ InLoop /\ reg["front"] = "read" /\ Readable("front")
  /\ HandleReadFrontData(timers)

\* retry_failedConnection: the timer holds the address of the Connection.
RetryTimer ==
  /\ timers > 0
  /\ InLoop /\ HandleReadFrontData(timers - 1)

\* The same, after the Connection was deleted: what it does is undefined.
RetryTimerFreed ==
  /\ timers > 0 /\ status \notin {"live", "sigpipe"}
  /\ timers' = timers - 1
  /\ staleTimer' = TRUE
  /\ UNCHANGED <<reg, recvData, sendData, server, protocolBase, failNum, todo,
                 status, pooled, peerVars>>

-----------------------------------------------------------------------------
(* handle_readBackendData *)

BackEnds(ret, verdict, recv) ==
  \/ ret = -1 /\ Ends("back_error", recv)
  \/ ret = 2 /\ Ends("back_eof", recv)
  \/ ret = 0 /\ verdict = "fail" /\ Ends("parse_error", recv)
  \/ ret = 0 /\ verdict = "close" /\ Ends("normal", recv)

BackForwards(ret, verdict, recv) ==
  /\ ret = 0 /\ verdict = "forward"
  /\ recvData' = recv
  /\ todo' = SendData("back")
  /\ UNCHANGED <<reg, sendData, server, protocolBase, failNum, status, pooled>>

ReadBack ==
  /\ InLoop /\ reg["back"] = "read" /\ Readable("back")
  /\ \E ret \in ReadRets("back"), verdict \in Verdicts :
       LET recv == Received("back", ret)
       IN /\ Read("back", ret)
          /\ BackEnds(ret, verdict, recv) \/ BackForwards(ret, verdict, recv)
  /\ UNCHANGED <<timers, staleTimer, peer, room, sent, delivered>>

\* check_connectionTimeout: closed after connectTimeOut without a read.
CheckConnectionTimeout ==
  /\ InLoop
  /\ Ends("timeout", recvData)
  /\ UNCHANGED <<timers, staleTimer, peerVars>>

-----------------------------------------------------------------------------
Handlers ==
  \/ ReadFront \/ ReadBack \/ DoWrite \/ SkipWrite \/ RetryTimer
  \/ \E s \in Sides : Writable(s)

Peers ==
  \E s \in Sides : PeerSend(s) \/ PeerRead(s) \/ PeerClose(s) \/ PeerReset(s)

Next == Handlers \/ RetryTimerFreed \/ CheckConnectionTimeout \/ Peers

Spec == Init /\ [][Next]_vars

(***************************************************************************)
(* The event loop is level-triggered and runs every handler that stays     *)
(* due, the timer included; a peer that is there goes on reading.  Nothing *)
(* says that a peer sends, closes, or that the idle timeout strikes.       *)
(***************************************************************************)
Fairness ==
  /\ WF_vars(ReadFront) /\ WF_vars(ReadBack)
  /\ WF_vars(DoWrite \/ SkipWrite)
  /\ WF_vars(RetryTimer)
  /\ \A s \in Sides : WF_vars(Writable(s)) /\ WF_vars(PeerRead(s))

FairSpec == Spec /\ Fairness
-----------------------------------------------------------------------------
Stream(n) == [i \in 1..n |-> i]

(* Type invariant of the connection, the peers and the histories. *)
TypeOK ==
  /\ reg \in [Sides -> {"none", "read", "write"}]
  /\ recvData \in [Sides -> Seq(Bytes)]
  /\ sendData \in [Sides -> Seq(Bytes)]
  /\ server \in {"none", "unconnected", "connected"}
  /\ protocolBase \in BOOLEAN
  /\ failNum \in Nat
  /\ timers \in Nat
  /\ todo \in Seq([what : {"recvData", "sendData"}, to : Sides])
  /\ status \in {"live", "front_eof", "normal", "sigpipe"} \cup ErrorEnds
  /\ pooled \in BOOLEAN
  /\ staleTimer \in BOOLEAN
  /\ peer \in [Sides -> {"open", "closed", "reset", "broken"}]
  /\ inbox \in [Sides -> Seq(Bytes)]
  /\ room \in [Sides -> 0..SndBuf]
  /\ sent \in [Sides -> 0..MaxBytes]
  /\ delivered \in [Sides -> Seq(Bytes)]

(* What the kernel took for a peer, what a blocked write left over, what    *)
(* was read and not yet written, and what has not been read are together    *)
(* exactly what the other peer sent, in order.  (write_data, save_data.)    *)
StreamIntact ==
  Live => \A s \in Sides :
    delivered[s] \o sendData[s] \o recvData[Other(s)] \o inbox[Other(s)]
      = Stream(sent[Other(s)])

\* Side s is blocked: it is watched for writing, the other side not at all.
Blocked(s) ==
  /\ reg[s] = "write" /\ reg[Other(s)] = "none"
  /\ sendData[s] # <<>> /\ sendData[Other(s)] = <<>>
  /\ server = "connected"

\* Every connected side is watched for reading and nothing is left over.
Flowing ==
  /\ reg["front"] = "read"
  /\ reg["back"] = IF server = "connected" THEN "read" ELSE "none"
  /\ \A s \in Sides : sendData[s] = <<>>

(* A live connection always watches a socket that can wake it: the blocked  *)
(* side for writing, or every connected side for reading with nothing left  *)
(* over.  (add_ioEventWrite replaces the read registration, del_ioEvent     *)
(* takes the source out, and only write_data puts it back.)                 *)
NeverDeaf == Live => Flowing \/ \E s \in Sides : Blocked(s)

(* An end of file is only acted upon when all the peer sent before it has   *)
(* been written to the other side.  (handle_readFrontData and -BackendData: *)
(* ret == 2.)                                                               *)
EofLosesNothing ==
  /\ status = "front_eof" /\ peer["front"] = "closed"
       => delivered["back"] = Stream(sent["front"])
  /\ status = "back_eof" /\ peer["back"] = "closed"
       => delivered["front"] = Stream(sent["back"])

(* A backend socket goes back to the pool without an unwritten rest of the  *)
(* request, and after a front close without an unread rest of a response in *)
(* its buffer.  (protocol_releaseBackendConnect keeps the buffers.)         *)
PooledFlushed ==
  pooled => /\ sendData["back"] = <<>>
            /\ status = "front_eof" => recvData["back"] = <<>>

(* Every byte a peer has sent is taken for the other peer, or the           *)
(* connection ends; backpressure never blocks it for ever.                  *)
EveryByteArrives ==
  \A s \in Sides, n \in Bytes :
    (Live /\ sent[Other(s)] >= n) ~> (Len(delivered[s]) >= n \/ ~Live)

(* The stream pair this connection implements.                              *)
Pending(s) ==
  IF Live THEN sendData[s] \o recvData[Other(s)] \o inbox[Other(s)] ELSE <<>>

Promise == INSTANCE Streams WITH
  Receivers <- Sides, up <- Live,
  pending <- [s \in Sides |-> Pending(s)]

(* The relay implements a pair of reliable streams that may be closed.      *)
ImplementsStreams == Promise!Spec

(* When the retry timer fires, the Connection still holds the data read     *)
(* last time, which is to be handled again.  (clientthread.cpp:135-139)     *)
RetryFindsConnection == ~staleTimer
=============================================================================
