------------------------------- MODULE Tunnel -------------------------------
(***************************************************************************)
(* The KNXnet/IP tunnel client of knx/tunnel.go: the goroutines that share *)
(* one Tunnel, and the frames they exchange with a gateway.                *)
(*                                                                         *)
(*   - the server goroutine: NewTunnel and requestConn, then serve with    *)
(*     process, reconnecting, and the deferred clean-up (variable srv);    *)
(*   - one goroutine per call of Send (Calls; pc, req), serialised by      *)
(*     seqMu;                                                              *)
(*   - the goroutines that handleTunnelRes and handleConnStateRes start to *)
(*     relay a response (acks, beatRes), the heartbeat workers (beats) and *)
(*     the goroutines that pushInbound starts (pushers), all held in bags  *)
(*     because only their number and their contents matter;                *)
(*   - the caller of Close (closer).                                       *)
(*                                                                         *)
(* Here the gateway is open: any frame of GatewayFrames may arrive at any  *)
(* time (OpenSpec).  TunnelSystem.tla closes the loop with a gateway.      *)
(***************************************************************************)
EXTENDS Naturals, Sequences, Bags, BagsExt

CONSTANTS
  Calls,        \* calls of Tunnel.Send, each made once and with its own message
  Channels,     \* communication channels a gateway hands out
  Telegrams,    \* payloads of tunnel requests that come from the gateway
  SeqSpace,     \* sequence numbers are counted modulo SeqSpace (256: uint8)
  UseTCP,       \* TunnelConfig.UseTCP
  Faults,       \* what may go wrong, see FaultKinds
  MaxConns,     \* bound: connections established in one behaviour
  MaxAcks,      \* bound: goroutines of handleTunnelRes alive at once
  MaxBeats,     \* bound: heartbeat workers alive at once
  MaxBeatRes,   \* bound: goroutines of handleConnStateRes alive at once
  MaxPushers,   \* bound: goroutines of pushInbound alive at once
  MaxDelivered, \* bound: payloads the application takes from Inbound()
  MaxNet        \* bound: frames on their way to the gateway

NoOne == "no one"   \* owner of the free mutex

(* send: a socket write returns an error; read: the socket's reader stops; *)
(* loss: a written frame is lost; resend, timeout: the resend ticker, the  *)
(* response timeout expire before the answer; transform: the configured    *)
(* transforms reject or drop a message.                                    *)
FaultKinds == {"send", "read", "loss", "resend", "timeout", "transform"}

ASSUME ConstAssumption ==
  /\ NoOne \notin Calls
  /\ SeqSpace \in Nat /\ SeqSpace > 1
  /\ UseTCP \in BOOLEAN
  /\ Faults \subseteq FaultKinds
  /\ MaxConns \in Nat \ {0}

VARIABLES
  channel,     \* Tunnel.channel
  seqNumber,   \* Tunnel.seqNumber, the number of the next request
  seqMu,       \* owner of Tunnel.seqMu
  pc,          \* pc[c]: where the call c of Send is, or how it returned
  req,         \* req[c]: channel and sequence number in the request of c
  acks,        \* bag of tunnel responses being relayed to Tunnel.ack
  srv,         \* where the server goroutine is
  epoch,       \* number of connections established so far
  recvSeq,     \* process's seqNumber: the next number expected from the gateway
  beats,       \* bag of heartbeat workers
  beatRes,     \* bag of statuses being relayed to process's heartbeat channel
  pushers,     \* bag of payloads blocked in pushInbound's goroutines
  delivered,   \* payloads received from Tunnel.Inbound(), in order
  closer,      \* where the caller of Close is
  sockUp,      \* the socket's inbound channel is open
  toGateway    \* frames written and not yet handled by the gateway

callVars == <<seqNumber, seqMu, pc, req, acks>>
srvVars  == <<channel, srv, epoch, recvSeq>>
beatVars == <<beats, beatRes>>
appVars  == <<pushers, delivered>>
endVars  == <<closer, sockUp>>
vars == <<callVars, srvVars, beatVars, appVars, endVars, toGateway>>

NoChannel == "no channel"
NoReq == [channel |-> NoChannel, seq |-> 0]

Waiting  == {"locking", "await"}
Returned == {"ok", "rejected", "timeout", "error", "terminated"}

(* The frames a client handles, those it receives and those it sends.      *)
GatewayFrames ==
     [type : {"ConnRes"}, channel : Channels, status : {"ok", "busy", "refused"}]
\cup [type : {"TunnelReq"}, channel : Channels, seq : 0..SeqSpace-1, payload : Telegrams]
\cup [type : {"TunnelRes"}, channel : Channels, seq : 0..SeqSpace-1, status : {"ok", "bad"}]
\cup [type : {"ConnStateRes"}, channel : Channels, status : {"ok", "bad"}]
\cup [type : {"DiscReq", "DiscRes"}, channel : Channels]

ClientFrames ==
     [type : {"ConnReq"}]
\cup [type : {"TunnelReq"}, channel : Channels \cup {NoChannel}, seq : 0..SeqSpace-1, payload : Calls]
\cup [type : {"TunnelRes"}, channel : Channels, seq : 0..SeqSpace-1, status : {"ok"}]
\cup [type : {"ConnStateReq", "DiscReq", "DiscRes"}, channel : Channels \cup {NoChannel}]

CallTypeOK ==
  /\ seqNumber \in 0..SeqSpace-1
  /\ seqMu \in Calls \cup {NoOne}
  /\ pc \in [Calls -> {"new"} \cup Waiting \cup Returned]
  /\ req \in [Calls -> [channel : Channels \cup {NoChannel}, seq : 0..SeqSpace-1]]
  /\ BagToSet(acks) \subseteq [seq : 0..SeqSpace-1, status : {"ok", "bad"}]

ServerTypeOK ==
  /\ channel \in Channels \cup {NoChannel}
  /\ srv \in {"dial", "connecting", "reset", "process", "return", "unwaited",
              "inboundClosed", "exited", "failed"}
  /\ epoch \in 0..MaxConns
  /\ recvSeq \in 0..SeqSpace-1

BeatTypeOK ==
  /\ BagToSet(beats) \subseteq [epoch : 1..MaxConns, at : {"start", "wait", "report"},
                                channel : Channels \cup {NoChannel}]
  /\ BagToSet(beatRes) \subseteq {"ok", "bad"}

AppTypeOK == BagToSet(pushers) \subseteq Telegrams /\ delivered \in Seq(Telegrams)

EndTypeOK ==
  closer \in {"open", "disconnected", "waiting", "closed"} /\ sockUp \in BOOLEAN

NetTypeOK == toGateway \in Seq(ClientFrames)

TypeOK ==
  CallTypeOK /\ ServerTypeOK /\ BeatTypeOK /\ AppTypeOK /\ EndTypeOK /\ NetTypeOK
-----------------------------------------------------------------------------
(* NewTunnel: the structure as it is when its requestConn starts.          *)
Init ==
  /\ channel = NoChannel /\ seqNumber = 0 /\ seqMu = NoOne
  /\ pc = [c \in Calls |-> "new"] /\ req = [c \in Calls |-> NoReq]
  /\ srv = "dial" /\ epoch = 0 /\ recvSeq = 0
  /\ acks = EmptyBag /\ beats = EmptyBag /\ beatRes = EmptyBag
  /\ pushers = EmptyBag /\ delivered = <<>>
  /\ closer = "open" /\ sockUp = TRUE /\ toGateway = <<>>

Done       == closer \in {"waiting", "closed"}       \* Tunnel.done is closed
SockClosed == closer = "closed" \/ srv = "failed"    \* Socket.Close was called

(* Mutant: a number counted up in a wider integer.                         *)
Inc_wide(n) == n + 1

Inc(n) == (n + 1) % SeqSpace                         \* n++ on a uint8
Dec(n) == (n + SeqSpace - 1) % SeqSpace              \* n - 1 on a uint8

(* sock.Send(f): the frame is written, and may be lost on its way ...      *)
Sent(f) ==
  /\ ~SockClosed
  /\ \/ Len(toGateway) < MaxNet /\ toGateway' = Append(toGateway, f)
     \/ "loss" \in Faults /\ UNCHANGED toGateway

(* ... or the write returns an error.                                      *)
SendFails == (SockClosed \/ "send" \in Faults) /\ UNCHANGED toGateway

(* A send whose error is ignored or only logged.                           *)
SentOrNot(f) == Sent(f) \/ SendFails
-----------------------------------------------------------------------------
(* requestConn, run by NewTunnel and again by serve to reconnect.          *)

Dial ==
  /\ srv = "dial" /\ Sent([type |-> "ConnReq"])
  /\ srv' = "connecting"
  /\ UNCHANGED <<callVars, channel, epoch, recvSeq, beatVars, appVars, endVars>>

ConnResend ==
  /\ srv = "connecting" /\ "resend" \in Faults /\ Sent([type |-> "ConnReq"])
  /\ UNCHANGED <<callVars, srvVars, beatVars, appVars, endVars>>

(* requestConn fails: NewTunnel closes the socket, serve returns.          *)
GiveUp == srv' = IF epoch = 0 THEN "failed" ELSE "return"

(* A send fails, the response timeout is over or the socket has closed.    *)
ConnFails ==
  /\ \/ srv = "dial" /\ SendFails
     \/ srv = "connecting" /\ "resend" \in Faults /\ SendFails
     \/ srv = "connecting" /\ "timeout" \in Faults /\ UNCHANGED toGateway
     \/ srv = "connecting" /\ ~sockUp /\ UNCHANGED toGateway
  /\ GiveUp
  /\ UNCHANGED <<callVars, channel, epoch, recvSeq, beatVars, appVars, endVars>>

(* A frame read by requestConn.  The channel is written before seqMu is    *)
(* requested; a busy gateway is asked again; other frames are dropped.     *)
ConnReceive(m) ==
  /\ srv = "connecting" /\ sockUp
  /\ IF m.type = "ConnRes" /\ m.status = "ok"
     THEN channel' = m.channel /\ srv' = "reset"
     ELSE /\ IF m.type = "ConnRes" /\ m.status = "refused" THEN GiveUp ELSE UNCHANGED srv
          /\ UNCHANGED channel
  /\ UNCHANGED <<callVars, epoch, recvSeq, beatVars, appVars, endVars, toGateway>>

(* Mutant: the sequence number is reset without taking seqMu.              *)
ResetLockFree_unlocked == TRUE

(* Tunnel.seqMu can be taken by requestConn.                               *)
ResetLockFree == seqMu = NoOne

(* Lock, seqNumber = 0, Unlock, and process starts on the new connection.  *)
ResetSeq ==
  /\ srv = "reset" /\ ResetLockFree
  /\ seqNumber' = 0 /\ recvSeq' = 0
  /\ epoch' = epoch + 1 /\ srv' = "process"
  /\ UNCHANGED <<channel, seqMu, pc, req, acks, beatVars, appVars, endVars, toGateway>>
-----------------------------------------------------------------------------
(* Send, that is requestTunnel.                                            *)

Call(c) ==
  /\ pc[c] = "new" /\ epoch > 0
  /\ pc' = [pc EXCEPT ![c] = "locking"]
  /\ UNCHANGED <<seqNumber, seqMu, req, acks, srvVars, beatVars, appVars, endVars, toGateway>>

(* The call returns and its deferred Unlock runs.                          *)
Return(c, result) == pc' = [pc EXCEPT ![c] = result] /\ seqMu' = NoOne

(* The lock is taken, the message transformed, the request built from the  *)
(* channel and the sequence number of this moment, and sent.  With TCP     *)
(* that is all; with UDP the call goes on to wait, holding the lock.       *)
Request(c) ==
  /\ pc[c] = "locking" /\ seqMu = NoOne
  /\ \/ /\ \/ "transform" \in Faults /\ UNCHANGED toGateway
           \/ SendFails
        /\ Return(c, "error") /\ UNCHANGED req
     \/ \E seq \in {IF UseTCP THEN 0 ELSE seqNumber} :
           /\ Sent([type |-> "TunnelReq", channel |-> channel, seq |-> seq, payload |-> c])
           /\ req' = [req EXCEPT ![c] = [channel |-> channel, seq |-> seq]]
           /\ IF UseTCP THEN Return(c, "ok")
              ELSE pc' = [pc EXCEPT ![c] = "await"] /\ seqMu' = c
  /\ UNCHANGED <<seqNumber, acks, srvVars, beatVars, appVars, endVars>>

(* Mutant: a repetition takes the next sequence number.                    *)
RepeatedSeq_next(c) == Inc(req[c].seq)

(* The ticker sends the same request again.                                *)
RepeatedSeq(c) == req[c].seq

Resend(c) ==
  /\ pc[c] = "await" /\ "resend" \in Faults
  /\ \/ /\ Sent([type |-> "TunnelReq", channel |-> req[c].channel, seq |-> RepeatedSeq(c),
                 payload |-> c])
        /\ UNCHANGED <<pc, seqMu>>
     \/ SendFails /\ Return(c, "error")
  /\ UNCHANGED <<seqNumber, req, acks, srvVars, beatVars, appVars, endVars>>

(* Mutant: the timeout returns without the deferred Unlock.                *)
SendTimeout_keepsLock(c) ==
  /\ pc[c] = "await" /\ "timeout" \in Faults
  /\ pc' = [pc EXCEPT ![c] = "timeout"]
  /\ UNCHANGED <<seqNumber, seqMu, req, acks, srvVars, beatVars, appVars, endVars, toGateway>>

SendTimeout(c) ==
  /\ pc[c] = "await" /\ "timeout" \in Faults
  /\ Return(c, "timeout")
  /\ UNCHANGED <<seqNumber, req, acks, srvVars, beatVars, appVars, endVars, toGateway>>

(* Mutant: every acknowledgement ends the call.                            *)
Matches_any(a) == TRUE

Matches(a) == a.seq = seqNumber

(* A relaying goroutine hands its response over on the channel ack.  Only  *)
(* one with the current sequence number ends the call.                     *)
Acknowledged(c) ==
  /\ pc[c] = "await"
  /\ \E a \in BagToSet(acks) :
        /\ acks' = BagRemove(acks, a)
        /\ IF Matches(a)
           THEN /\ seqNumber' = Inc(seqNumber)
                /\ Return(c, IF a.status = "ok" THEN "ok" ELSE "rejected")
           ELSE UNCHANGED <<seqNumber, pc, seqMu>>
  /\ UNCHANGED <<req, srvVars, beatVars, appVars, endVars, toGateway>>

(* The server has closed the channel ack.                                  *)
AckClosed(c) ==
  /\ pc[c] = "await" /\ srv = "exited"
  /\ Return(c, "terminated")
  /\ UNCHANGED <<seqNumber, req, acks, srvVars, beatVars, appVars, endVars, toGateway>>

(* A relaying goroutine gives up: done is closed, or ResendInterval over.  *)
AckExpires ==
  /\ \E a \in BagToSet(acks) : acks' = BagRemove(acks, a)
  /\ UNCHANGED <<seqNumber, seqMu, pc, req, srvVars, beatVars, appVars, endVars, toGateway>>
-----------------------------------------------------------------------------
(* Heartbeats: performHeartbeat with requestConnState.  A worker keeps the *)
(* channels heartbeat and timeout of the process that started it (epoch).  *)

Current(w) == srv = "process" /\ w.epoch = epoch    \* its process still runs

BeatMoves(w, at, ch) ==
  beats' = BagAdd(BagRemove(beats, w), [w EXCEPT !.at = at, !.channel = ch])

(* The first request is for the channel of the moment it is built.         *)
BeatStart(w) ==
  /\ w.at = "start"
  /\ \/ Sent([type |-> "ConnStateReq", channel |-> channel]) /\ BeatMoves(w, "wait", channel)
     \/ SendFails /\ BeatMoves(w, "report", channel)
  /\ UNCHANGED beatRes

BeatResend(w) ==
  /\ w.at = "wait" /\ "resend" \in Faults
  /\ \/ Sent([type |-> "ConnStateReq", channel |-> w.channel]) /\ UNCHANGED beats
     \/ SendFails /\ BeatMoves(w, "report", w.channel)
  /\ UNCHANGED beatRes

(* No answer in time, or the heartbeat channel has been closed.            *)
BeatFails(w) ==
  /\ w.at = "wait" /\ ("timeout" \in Faults \/ ~Current(w))
  /\ BeatMoves(w, "report", w.channel)
  /\ UNCHANGED <<beatRes, toGateway>>

(* Mutant: a worker ends whatever the status is.                           *)
BadState_never(s) == FALSE

BadState(s) == s # "ok"

(* The status is handed over; a bad one is reported.                       *)
BeatAnswered(w) ==
  /\ w.at = "wait" /\ Current(w)
  /\ \E s \in BagToSet(beatRes) :
        /\ beatRes' = BagRemove(beatRes, s)
        /\ IF BadState(s) THEN BeatMoves(w, "report", w.channel)
           ELSE beats' = BagRemove(beats, w)
  /\ UNCHANGED toGateway

(* Mutant: the worker waits for process only.                              *)
BeatEnds_never(w) == FALSE

(* A worker whose process no longer receives waits for done.               *)
BeatEnds(w) ==
  /\ w.at = "report" /\ Done
  /\ beats' = BagRemove(beats, w)
  /\ UNCHANGED <<beatRes, toGateway>>

BeatResExpires ==
  /\ \E s \in BagToSet(beatRes) : beatRes' = BagRemove(beatRes, s)
  /\ UNCHANGED <<beats, toGateway>>

Heartbeat ==
  /\ \/ \E w \in BagToSet(beats) : \/ BeatStart(w) \/ BeatResend(w) \/ BeatFails(w)
                                   \/ BeatAnswered(w) \/ BeatEnds(w)
     \/ BeatResExpires
  /\ UNCHANGED <<callVars, srvVars, appVars, endVars>>
-----------------------------------------------------------------------------
(* process, with the connection established last.                          *)

(* process returns: its heartbeat channel is closed, and the goroutines    *)
(* about to send on it recover from the panic and end.                     *)
LeaveProcess(to) == srv' = to /\ beatRes' = EmptyBag

(* Mutant: process does not look at done.                                  *)
ProcessDone_socketOnly ==
  /\ srv = "process" /\ ~sockUp
  /\ LeaveProcess("return")
  /\ UNCHANGED <<callVars, channel, epoch, recvSeq, beats, appVars, endVars, toGateway>>

ProcessDone ==
  /\ srv = "process" /\ (Done \/ ~sockUp)
  /\ LeaveProcess("return")
  /\ UNCHANGED <<callVars, channel, epoch, recvSeq, beats, appVars, endVars, toGateway>>

(* Mutant: the timeout channel is shared by all connections.               *)
Reports_anyEpoch(w) == w.at = "report"

(* The worker w sends on the timeout channel of the running process.       *)
Reports(w) == w.at = "report" /\ w.epoch = epoch

HeartbeatFailed ==
  /\ srv = "process" /\ epoch < MaxConns
  /\ \E w \in BagToSet(beats) : Reports(w) /\ beats' = BagRemove(beats, w)
  /\ LeaveProcess("dial")
  /\ UNCHANGED <<callVars, channel, epoch, recvSeq, appVars, endVars, toGateway>>

HeartbeatDue ==
  /\ srv = "process" /\ BagCardinality(beats) < MaxBeats
  /\ beats' = BagAdd(beats, [epoch |-> epoch, at |-> "start", channel |-> NoChannel])
  /\ UNCHANGED <<callVars, srvVars, beatRes, appVars, endVars, toGateway>>

(* Mutant: a payload is dropped when the application is not receiving.     *)
PushInbound_drops(p) ==
  \/ /\ Len(delivered) < MaxDelivered
     /\ delivered' = Append(delivered, p) /\ UNCHANGED pushers
  \/ UNCHANGED appVars

(* pushInbound: the application is receiving, or a goroutine waits for it. *)
PushInbound(p) ==
  \/ /\ Len(delivered) < MaxDelivered
     /\ delivered' = Append(delivered, p) /\ UNCHANGED pushers
  \/ /\ BagCardinality(pushers) < MaxPushers
     /\ pushers' = BagAdd(pushers, p) /\ UNCHANGED delivered

(* The payload is delivered, or dropped by InboundTransform.               *)
Deliver(p) == PushInbound(p) \/ ("transform" \in Faults /\ UNCHANGED appVars)

(* InboundTransform rejects: nothing is delivered, counted or answered.    *)
Refuse == "transform" \in Faults /\ UNCHANGED <<recvSeq, appVars, toGateway>>

Expected(m) == m.seq = recvSeq
Repeated(m) == m.seq = Dec(recvSeq)

(* Mutant: the expected number does not advance.                           *)
CountReceived_stuck == recvSeq' = recvSeq

CountReceived == recvSeq' = Inc(recvSeq)

HandleTunnelReq(m) ==
  /\ m.type = "TunnelReq"
  /\ \/ /\ m.channel # channel \/ (~UseTCP /\ ~Expected(m) /\ ~Repeated(m))
        /\ UNCHANGED <<recvSeq, appVars, toGateway>>
     \/ /\ m.channel = channel /\ UseTCP
        /\ \/ Refuse
           \/ Deliver(m.payload) /\ UNCHANGED <<recvSeq, toGateway>>
     \/ /\ m.channel = channel /\ ~UseTCP
        /\ \/ Expected(m) /\ Refuse
           \/ /\ \/ Expected(m) /\ CountReceived /\ Deliver(m.payload)
                 \/ ~Expected(m) /\ Repeated(m) /\ UNCHANGED <<recvSeq, appVars>>
              /\ SentOrNot([type |-> "TunnelRes", channel |-> channel, seq |-> m.seq,
                            status |-> "ok"])
  /\ UNCHANGED <<callVars, channel, srv, epoch, beatVars>>

(* The response is for the connection in use.                              *)
ResChannel(m) == m.channel = channel

HandleTunnelRes(m) ==
  /\ m.type = "TunnelRes"
  /\ IF ~ResChannel(m) THEN UNCHANGED acks
     ELSE /\ BagCardinality(acks) < MaxAcks
          /\ acks' = BagAdd(acks, [seq |-> m.seq, status |-> m.status])
  /\ UNCHANGED <<seqNumber, seqMu, pc, req, srvVars, beatVars, appVars, toGateway>>

HandleConnStateRes(m) ==
  /\ m.type = "ConnStateRes"
  /\ IF m.channel # channel THEN UNCHANGED beatRes
     ELSE BagCardinality(beatRes) < MaxBeatRes /\ beatRes' = BagAdd(beatRes, m.status)
  /\ UNCHANGED <<callVars, srvVars, beats, appVars, toGateway>>

(* A disconnect request is answered and leads to a reconnect, a disconnect *)
(* response ends the server; one for another channel is ignored.           *)
HandleDisc(m) ==
  /\ \/ /\ m.type = "DiscReq" /\ m.channel = channel /\ epoch < MaxConns
        /\ SentOrNot([type |-> "DiscRes", channel |-> m.channel])
        /\ LeaveProcess("dial")
     \/ /\ m.type = "DiscRes" /\ m.channel = channel
        /\ LeaveProcess("return") /\ UNCHANGED toGateway
     \/ /\ m.type \in {"DiscReq", "DiscRes"} /\ m.channel # channel
        /\ UNCHANGED <<srv, beatRes, toGateway>>
  /\ UNCHANGED <<callVars, channel, epoch, recvSeq, beats, appVars>>

(* A frame read by process; a connection response is ignored.              *)
ProcessReceive(m) ==
  /\ srv = "process" /\ sockUp /\ UNCHANGED endVars
  /\ \/ HandleTunnelReq(m) \/ HandleTunnelRes(m) \/ HandleConnStateRes(m) \/ HandleDisc(m)
     \/ /\ m.type = "ConnRes"
        /\ UNCHANGED <<callVars, srvVars, beatVars, appVars, toGateway>>

Receive(m) == ConnReceive(m) \/ ProcessReceive(m)
-----------------------------------------------------------------------------
(* The deferred calls of serve, last one first.                            *)

WaitDone ==
  /\ srv = "return" /\ srv' = "unwaited"
  /\ UNCHANGED <<callVars, channel, epoch, recvSeq, beatVars, appVars, endVars, toGateway>>

(* close(inbound): the blocked goroutines recover and their payloads go.   *)
CloseInbound ==
  /\ srv = "unwaited" /\ srv' = "inboundClosed" /\ pushers' = EmptyBag
  /\ UNCHANGED <<callVars, channel, epoch, recvSeq, beatVars, delivered, endVars, toGateway>>

CloseAck ==
  /\ srv = "inboundClosed" /\ srv' = "exited" /\ acks' = EmptyBag
  /\ UNCHANGED <<seqNumber, seqMu, pc, req, channel, epoch, recvSeq, beatVars, appVars, endVars,
                 toGateway>>

(* Close, once: requestDisc, then close(done), then wait and sock.Close.   *)
CloseRequest ==
  /\ closer = "open" /\ epoch > 0 /\ closer' = "disconnected"
  /\ SentOrNot([type |-> "DiscReq", channel |-> channel])
  /\ UNCHANGED <<callVars, srvVars, beatVars, appVars, sockUp>>

CloseDone ==
  /\ closer = "disconnected" /\ closer' = "waiting"
  /\ UNCHANGED <<callVars, srvVars, beatVars, appVars, sockUp, toGateway>>

(* Tunnel.wait lets Close go on.                                           *)
ServerLeft == srv \in {"unwaited", "inboundClosed", "exited"}

CloseSocket ==
  /\ closer = "waiting" /\ ServerLeft /\ closer' = "closed"
  /\ UNCHANGED <<callVars, srvVars, beatVars, appVars, sockUp, toGateway>>

(* The socket's reader ends, on Close or on an error, and closes inbound.  *)
SocketEnds ==
  /\ sockUp /\ (SockClosed \/ "read" \in Faults) /\ sockUp' = FALSE
  /\ UNCHANGED <<callVars, srvVars, beatVars, appVars, closer, toGateway>>

(* The application receives a payload that a goroutine holds for it.       *)
AppReceive ==
  /\ Len(delivered) < MaxDelivered
  /\ \E p \in BagToSet(pushers) : /\ pushers' = BagRemove(pushers, p)
                                  /\ delivered' = Append(delivered, p)
  /\ UNCHANGED <<callVars, srvVars, beatVars, endVars, toGateway>>
-----------------------------------------------------------------------------
Sending(c) == Request(c) \/ Resend(c) \/ SendTimeout(c) \/ Acknowledged(c) \/ AckClosed(c)
Serving    == WaitDone \/ CloseInbound \/ CloseAck
Closing    == CloseDone \/ CloseSocket

Client ==
  \/ Dial \/ ConnResend \/ ConnFails \/ ResetSeq
  \/ \E c \in Calls : Call(c) \/ Sending(c)
  \/ AckExpires \/ Heartbeat \/ ProcessDone \/ HeartbeatFailed \/ HeartbeatDue
  \/ Serving \/ CloseRequest \/ Closing \/ SocketEnds \/ AppReceive

Next == Client \/ \E m \in GatewayFrames : Receive(m)

(* The client with an open gateway: any frame may arrive at any time.      *)
OpenSpec == Init /\ [][Next]_vars
-----------------------------------------------------------------------------
(* Safety.                                                                 *)

(* A call waits for its acknowledgement exactly while it owns seqMu: no    *)
(* return of requestTunnel leaves the mutex locked, none unlocks it early. *)
SeqMuHeld == \A c \in Calls : pc[c] = "await" <=> seqMu = c

(* The number a waiting call compares responses with (Tunnel.seqNumber,    *)
(* line 317) is the one in its request, although requestConn resets it on  *)
(* every reconnect: a response to another number cannot end the call.      *)
AwaitsOwnNumber == \A c \in Calls : pc[c] = "await" => req[c].seq = seqNumber

(* While process serves a connection every waiting call has its request on *)
(* that connection: a call left over from before a reconnect has returned, *)
(* since the reconnect passes through seqMu, so an acknowledgement relayed *)
(* for this connection never meets a request made on an earlier one.       *)
AwaitsOnThisConnection ==
  \A c \in Calls : pc[c] = "await" /\ srv = "process" => req[c].channel = channel

(* Only a heartbeat worker of the connection in use, that asked for its    *)
(* channel, makes process give the connection up: one left over from an    *)
(* earlier connection never tears down the next.                           *)
HeartbeatOfThisConnection ==
  [][srv = "process" /\ srv' = "dial" /\ beats' # beats
       => \E w \in BagToSet(beats) : /\ beats' = BagRemove(beats, w)
                                     /\ w.epoch = epoch /\ w.channel = channel]_vars
-----------------------------------------------------------------------------
(* Fairness.  Goroutines that can run do run and timers expire (weak); a   *)
(* Go mutex hands over to a waiter and select picks among ready cases at   *)
(* random, so what is ready again and again is chosen in the end (strong). *)
(* Nothing is assumed of the gateway, the application, or tickers.         *)
Fairness ==
  /\ WF_vars(Dial \/ ConnFails) /\ SF_vars(ResetSeq) /\ SF_vars(ProcessDone)
  /\ \A c \in Calls : SF_vars(Request(c)) /\ WF_vars(SendTimeout(c)) /\ WF_vars(AckClosed(c))
  /\ WF_vars(AckExpires) /\ SF_vars(Heartbeat) /\ WF_vars(Serving)
  /\ WF_vars(Closing) /\ WF_vars(SocketEnds)

LiveSpec == OpenSpec /\ Fairness

(* Every call of Send returns, whatever the gateway does and even if the   *)
(* server is waiting for seqMu in a reconnect and relays no responses.     *)
SendReturns == \A c \in Calls : pc[c] \in Waiting ~> pc[c] \in Returned

(* Close returns: the server notices done, or is in a reconnect that ends, *)
(* although that waits for calls of Send which wait for the server.        *)
CloseReturns == closer # "open" ~> closer = "closed"

(* After Close no goroutine of the tunnel is left: heartbeat workers that  *)
(* report to a process long gone, relays of responses and of payloads.     *)
GoroutinesEnd ==
  closer = "closed"
    ~> srv = "exited" /\ {beats, beatRes, acks, pushers} = {EmptyBag}
=============================================================================
