---------------------------- MODULE TunnelProofs ----------------------------
(***************************************************************************)
(* What Tunnel.tla keeps for every set of calls and channels, every number *)
(* of connections and whatever the gateway sends: types, the mutex seqMu   *)
(* and what it protects, and heartbeats confined to their connection.      *)
(***************************************************************************)
EXTENDS Tunnel, TLAPS

(* Connections are counted when they are established: a connection in      *)
(* progress is below the bound, and the server has one once it serves.     *)
Counted ==
  /\ srv \in {"dial", "connecting", "reset"} => epoch < MaxConns
  /\ srv = "process" => epoch > 0

(* Heartbeat workers are of this connection or an earlier one, and those   *)
(* of the connection being served have asked for its channel.              *)
BeatsOfConnections ==
  \A w \in BagToSet(beats) :
     /\ w.epoch <= epoch
     /\ w.epoch = epoch /\ srv = "process" /\ w.at # "start" => w.channel = channel

Inv ==
  /\ TypeOK /\ Counted
  /\ SeqMuHeld /\ AwaitsOwnNumber /\ AwaitsOnThisConnection
  /\ BeatsOfConnections
-----------------------------------------------------------------------------
(* What joins a bag is added to its set ...                                *)
LEMMA BagAddSet ==
  ASSUME NEW B, NEW x
  PROVE  BagToSet(BagAdd(B, x)) = BagToSet(B) \cup {x}
BY DEF BagToSet, BagAdd

(* ... what leaves it may leave its set ...                                *)
LEMMA BagRemoveSet ==
  ASSUME NEW B, NEW x
  PROVE  BagToSet(BagRemove(B, x)) \subseteq BagToSet(B)
BY DEF BagToSet, BagRemove

(* ... and the empty bag has no elements.                                  *)
LEMMA EmptyBagSet == BagToSet(EmptyBag) = {}
BY DEF BagToSet, EmptyBag, SetToBag

(* Counting a uint8 up wraps around.                                       *)
LEMMA IncType ==
  ASSUME NEW n \in 0..SeqSpace-1
  PROVE  Inc(n) \in 0..SeqSpace-1
BY ConstAssumption, SMT DEF Inc

(* A written frame is one of the client's frames.                          *)
LEMMA SentType ==
  ASSUME NetTypeOK, NEW f \in ClientFrames, Sent(f)
  PROVE  NetTypeOK'
BY DEF NetTypeOK, Sent

(* The structure that NewTunnel builds satisfies the invariant.            *)
THEOREM InitInv == Init => Inv
<1> SUFFICES ASSUME Init PROVE Inv
  OBVIOUS
<1> USE ConstAssumption, EmptyBagSet
<1>1. CallTypeOK
  BY DEF Init, CallTypeOK, NoReq
<1>2. ServerTypeOK
  BY DEF Init, ServerTypeOK
<1>3. BeatTypeOK /\ AppTypeOK /\ EndTypeOK /\ NetTypeOK
  BY DEF Init, BeatTypeOK, AppTypeOK, EndTypeOK, NetTypeOK
<1>4. SeqMuHeld /\ AwaitsOwnNumber /\ AwaitsOnThisConnection
  BY DEF Init, SeqMuHeld, AwaitsOwnNumber, AwaitsOnThisConnection
<1>5. Counted /\ BeatsOfConnections
  BY DEF Init, Counted, BeatsOfConnections
<1> QED
  BY <1>1, <1>2, <1>3, <1>4, <1>5 DEF Inv, TypeOK
-----------------------------------------------------------------------------
(* What is kept by a step that leaves the calls alone and does not enter   *)
(* process, and by one that adds no heartbeat worker.                      *)
LockInv == SeqMuHeld /\ AwaitsOwnNumber /\ AwaitsOnThisConnection

(* Nothing about the calls changes.                                        *)
LEMMA LockFrame ==
  ASSUME LockInv, UNCHANGED <<seqNumber, seqMu, pc, req, channel>>,
         srv' = "process" => srv = "process"
  PROVE  LockInv'
BY DEF LockInv, SeqMuHeld, AwaitsOwnNumber, AwaitsOnThisConnection

(* Nothing about the workers changes but that some end.                    *)
LEMMA BeatFrame ==
  ASSUME BeatsOfConnections, BagToSet(beats') \subseteq BagToSet(beats),
         UNCHANGED <<channel, epoch>>, srv' = "process" => srv = "process"
  PROVE  BeatsOfConnections'
BY DEF BeatsOfConnections

(* What stays the same keeps its type.                                     *)
LEMMA TypeFrame ==
  /\ CallTypeOK /\ UNCHANGED callVars => CallTypeOK'
  /\ ServerTypeOK /\ UNCHANGED srvVars => ServerTypeOK'
  /\ BeatTypeOK /\ UNCHANGED beatVars => BeatTypeOK'
  /\ AppTypeOK /\ UNCHANGED appVars => AppTypeOK'
  /\ EndTypeOK /\ UNCHANGED endVars => EndTypeOK'
  /\ NetTypeOK /\ UNCHANGED toGateway => NetTypeOK'
BY DEF CallTypeOK, ServerTypeOK, BeatTypeOK, AppTypeOK, EndTypeOK, NetTypeOK,
       callVars, srvVars, beatVars, appVars, endVars
-----------------------------------------------------------------------------
(* requestConn.                                                            *)
LEMMA DialInv == Inv /\ Dial => Inv'
<1> SUFFICES ASSUME Inv, Dial PROVE Inv'
  OBVIOUS
<1>1. TypeOK'
  <2>1. [type |-> "ConnReq"] \in ClientFrames
    BY DEF ClientFrames
  <2>2. NetTypeOK'
    BY <2>1, SentType DEF Dial, Inv, TypeOK
  <2>3. ServerTypeOK'
    BY DEF Dial, Inv, TypeOK, ServerTypeOK
  <2> QED
    BY <2>2, <2>3, TypeFrame DEF Dial, Inv, TypeOK
<1>2. LockInv'
  BY LockFrame DEF Dial, Inv, LockInv, callVars
<1>3. Counted' /\ BeatsOfConnections'
  BY BeatFrame DEF Dial, Inv, Counted, beatVars
<1> QED
  BY <1>1, <1>2, <1>3 DEF Inv, LockInv

(* The ticker of requestConn.                                              *)
LEMMA ConnResendInv == Inv /\ ConnResend => Inv'
<1> SUFFICES ASSUME Inv, ConnResend PROVE Inv'
  OBVIOUS
<1>1. TypeOK'
  <2>1. [type |-> "ConnReq"] \in ClientFrames
    BY DEF ClientFrames
  <2>2. NetTypeOK'
    BY <2>1, SentType DEF ConnResend, Inv, TypeOK
  <2> QED
    BY <2>2, TypeFrame DEF ConnResend, Inv, TypeOK
<1>2. LockInv'
  BY LockFrame DEF ConnResend, Inv, LockInv, callVars, srvVars
<1>3. Counted' /\ BeatsOfConnections'
  BY BeatFrame DEF ConnResend, Inv, Counted, beatVars, srvVars
<1> QED
  BY <1>1, <1>2, <1>3 DEF Inv, LockInv

(* requestConn returns an error.                                           *)
LEMMA ConnFailsInv == Inv /\ ConnFails => Inv'
<1> SUFFICES ASSUME Inv, ConnFails PROVE Inv'
  OBVIOUS
<1>1. UNCHANGED <<callVars, channel, epoch, recvSeq, beatVars, appVars, endVars, toGateway>>
  BY DEF ConnFails, SendFails
<1>2. srv' \in {"failed", "return"}
  BY DEF ConnFails, GiveUp
<1>3. TypeOK'
  BY <1>1, <1>2, TypeFrame DEF Inv, TypeOK, ServerTypeOK
<1>4. LockInv'
  BY <1>1, <1>2, LockFrame DEF Inv, LockInv, callVars
<1>5. Counted' /\ BeatsOfConnections'
  BY <1>1, <1>2, BeatFrame DEF Inv, Counted, beatVars
<1> QED
  BY <1>3, <1>4, <1>5 DEF Inv, LockInv

(* The channel changes: no call is in process's hands, nor a heartbeat.    *)
LEMMA ConnReceiveInv == ASSUME NEW m \in GatewayFrames PROVE Inv /\ ConnReceive(m) => Inv'
<1> SUFFICES ASSUME Inv, ConnReceive(m) PROVE Inv'
  OBVIOUS
<1>1. UNCHANGED <<callVars, epoch, recvSeq, beatVars, appVars, endVars, toGateway>>
  BY DEF ConnReceive
<1>2. channel' \in Channels \cup {NoChannel} /\ srv' \in {"reset", "failed", "return", "connecting"}
  BY DEF ConnReceive, GiveUp, GatewayFrames, Inv, TypeOK, ServerTypeOK
<1>3. TypeOK'
  BY <1>1, <1>2, TypeFrame DEF Inv, TypeOK, ServerTypeOK
<1>4. LockInv'
  BY <1>1, <1>2 DEF Inv, LockInv, SeqMuHeld, AwaitsOwnNumber, AwaitsOnThisConnection, callVars
<1>5. Counted' /\ BeatsOfConnections'
  BY <1>1, <1>2 DEF ConnReceive, Inv, Counted, BeatsOfConnections, beatVars
<1> QED
  BY <1>3, <1>4, <1>5 DEF Inv, LockInv

(* The reset passes through seqMu: no call waits when process starts.      *)
LEMMA ResetSeqInv == Inv /\ ResetSeq => Inv'
<1> SUFFICES ASSUME Inv, ResetSeq PROVE Inv'
  OBVIOUS
<1> USE ConstAssumption
<1>1. epoch < MaxConns /\ epoch \in Nat /\ epoch' = epoch + 1
  BY DEF ResetSeq, Inv, Counted, TypeOK, ServerTypeOK
<1>2. TypeOK'
  <2>1. CallTypeOK'
    BY DEF ResetSeq, Inv, TypeOK, CallTypeOK
  <2>2. ServerTypeOK'
    BY <1>1 DEF ResetSeq, Inv, TypeOK, ServerTypeOK
  <2> QED
    BY <2>1, <2>2, TypeFrame DEF ResetSeq, Inv, TypeOK
<1>3. LockInv'
  <2>1. \A c \in Calls : pc[c] # "await"
    BY DEF ResetSeq, ResetLockFree, Inv, SeqMuHeld
  <2> QED
    BY <2>1 DEF ResetSeq, Inv, LockInv, SeqMuHeld, AwaitsOwnNumber, AwaitsOnThisConnection
<1>4. Counted'
  BY <1>1 DEF ResetSeq, Counted
<1>5. BeatsOfConnections'
  <2>1. \A w \in BagToSet(beats) : w.epoch <= epoch /\ w.epoch \in Nat
    BY DEF Inv, TypeOK, BeatTypeOK, BeatsOfConnections
  <2>2. \A w \in BagToSet(beats) : w.epoch <= epoch + 1 /\ w.epoch # epoch + 1
    BY <2>1, <1>1
  <2> QED
    BY <1>1, <2>2 DEF ResetSeq, BeatsOfConnections, beatVars
<1> QED
  BY <1>2, <1>3, <1>4, <1>5 DEF Inv, LockInv
-----------------------------------------------------------------------------
(* Send: what a step of one call must do to keep seqMu and the numbers.    *)
LEMMA CallsFrame ==
  ASSUME Counted, BeatsOfConnections, UNCHANGED <<srvVars, beats>>
  PROVE  Counted' /\ BeatsOfConnections'
BY DEF Counted, BeatsOfConnections, srvVars

(* A call that owns the mutex, or may take it, returns.                    *)
LEMMA ReturnInv ==
  ASSUME Inv, NEW c \in Calls, NEW r \in Returned, Return(c, r), UNCHANGED srvVars,
         pc[c] = "await" \/ (pc[c] = "locking" /\ seqMu = NoOne)
  PROVE  /\ LockInv'
         /\ seqMu' \in Calls \cup {NoOne} /\ pc' \in [Calls -> {"new"} \cup Waiting \cup Returned]
<1>1. \A d \in Calls : d # c => pc[d] # "await"
  BY ConstAssumption DEF Inv, SeqMuHeld
<1>2. \A d \in Calls : pc'[d] # "await"
  BY <1>1 DEF Return, Inv, TypeOK, CallTypeOK, Returned
<1>3. seqMu' = NoOne /\ pc' \in [Calls -> {"new"} \cup Waiting \cup Returned]
  BY DEF Return, Inv, TypeOK, CallTypeOK
<1> QED
  BY <1>2, <1>3, ConstAssumption DEF LockInv, SeqMuHeld, AwaitsOwnNumber, AwaitsOnThisConnection

(* A call of Send reaches seqMu.                                           *)
LEMMA CallInv == ASSUME NEW c \in Calls PROVE Inv /\ Call(c) => Inv'
<1> SUFFICES ASSUME Inv, Call(c) PROVE Inv'
  OBVIOUS
<1>1. TypeOK'
  <2>1. CallTypeOK'
    BY DEF Call, Inv, TypeOK, CallTypeOK, Waiting
  <2> QED
    BY <2>1, TypeFrame DEF Call, Inv, TypeOK
<1>2. LockInv'
  BY ConstAssumption DEF Call, Inv, TypeOK, CallTypeOK, LockInv, SeqMuHeld, AwaitsOwnNumber,
         AwaitsOnThisConnection, srvVars
<1>3. Counted' /\ BeatsOfConnections'
  BY CallsFrame DEF Call, Inv, beatVars
<1> QED
  BY <1>1, <1>2, <1>3 DEF Inv, LockInv

(* A call takes seqMu and sends its request, or returns.                   *)
LEMMA RequestInv == ASSUME NEW c \in Calls PROVE Inv /\ Request(c) => Inv'
<1> SUFFICES ASSUME Inv, Request(c) PROVE Inv'
  OBVIOUS
<1> USE ConstAssumption
<1>1. UNCHANGED <<seqNumber, acks, srvVars, beatVars, appVars, endVars>>
  BY DEF Request
<1>2. Counted' /\ BeatsOfConnections'
  BY <1>1, CallsFrame DEF Inv, beatVars
<1>3. CASE Return(c, "error") /\ UNCHANGED <<req, toGateway>>
  <2>1. pc[c] = "locking" /\ seqMu = NoOne
    BY DEF Request
  <2>2. /\ LockInv'
        /\ seqMu' \in Calls \cup {NoOne}
        /\ pc' \in [Calls -> {"new"} \cup Waiting \cup Returned]
    BY <1>1, <1>3, <2>1, ReturnInv DEF Returned
  <2>3. CallTypeOK'
    BY <1>1, <1>3, <2>2 DEF Inv, TypeOK, CallTypeOK
  <2> QED
    BY <1>1, <1>2, <1>3, <2>2, <2>3, TypeFrame DEF Inv, TypeOK, LockInv
<1>4. ASSUME NEW seq \in {IF UseTCP THEN 0 ELSE seqNumber},
             Sent([type |-> "TunnelReq", channel |-> channel, seq |-> seq, payload |-> c]),
             req' = [req EXCEPT ![c] = [channel |-> channel, seq |-> seq]],
             IF UseTCP THEN Return(c, "ok")
             ELSE pc' = [pc EXCEPT ![c] = "await"] /\ seqMu' = c
      PROVE  Inv'
  <2>1. seq \in 0..SeqSpace-1 /\ channel \in Channels \cup {NoChannel}
    BY <1>4 DEF Inv, TypeOK, CallTypeOK, ServerTypeOK
  <2>2. NetTypeOK'
    <3>1. [type |-> "TunnelReq", channel |-> channel, seq |-> seq, payload |-> c] \in ClientFrames
      BY <2>1 DEF ClientFrames
    <3> QED
      BY <1>4, <3>1, SentType DEF Inv, TypeOK
  <2>3. req' \in [Calls -> [channel : Channels \cup {NoChannel}, seq : 0..SeqSpace-1]]
    BY <1>4, <2>1 DEF Inv, TypeOK, CallTypeOK
  <2>4. pc[c] = "locking" /\ seqMu = NoOne
    BY DEF Request
  <2>5. CASE UseTCP
    <3>1. /\ LockInv'
          /\ seqMu' \in Calls \cup {NoOne}
          /\ pc' \in [Calls -> {"new"} \cup Waiting \cup Returned]
      BY <1>1, <1>4, <2>4, <2>5, ReturnInv DEF Returned
    <3>2. CallTypeOK'
      BY <1>1, <2>3, <3>1 DEF Inv, TypeOK, CallTypeOK
    <3> QED
      BY <1>1, <1>2, <2>2, <3>1, <3>2, TypeFrame DEF Inv, TypeOK, LockInv
  <2>6. CASE ~UseTCP
    <3>1. seq = seqNumber /\ pc' = [pc EXCEPT ![c] = "await"] /\ seqMu' = c
      BY <1>4, <2>6
    <3>2. CallTypeOK'
      BY <1>1, <2>3, <3>1 DEF Inv, TypeOK, CallTypeOK, Waiting
    <3>3. \A d \in Calls : pc[d] # "await"
      BY <2>4 DEF Inv, SeqMuHeld
    <3>4. LockInv'
      BY <1>1, <1>4, <3>1, <3>3 DEF Inv, TypeOK, CallTypeOK, LockInv, SeqMuHeld, AwaitsOwnNumber,
             AwaitsOnThisConnection, srvVars
    <3> QED
      BY <1>1, <1>2, <2>2, <3>2, <3>4, TypeFrame DEF Inv, TypeOK, LockInv
  <2> QED
    BY <2>5, <2>6
<1> QED
  BY <1>3, <1>4 DEF Request, SendFails

(* A call sends its request again, or returns.                             *)
LEMMA ResendInv == ASSUME NEW c \in Calls PROVE Inv /\ Resend(c) => Inv'
<1> SUFFICES ASSUME Inv, Resend(c) PROVE Inv'
  OBVIOUS
<1>1. UNCHANGED <<seqNumber, req, acks, srvVars, beatVars, appVars, endVars>> /\ pc[c] = "await"
  BY DEF Resend
<1>2. Counted' /\ BeatsOfConnections'
  BY <1>1, CallsFrame DEF Inv, beatVars
<1>3. CASE /\ Sent([type |-> "TunnelReq", channel |-> req[c].channel, seq |-> RepeatedSeq(c),
                    payload |-> c])
           /\ UNCHANGED <<pc, seqMu>>
  <2>1. [type |-> "TunnelReq", channel |-> req[c].channel, seq |-> RepeatedSeq(c), payload |-> c]
          \in ClientFrames
    BY DEF ClientFrames, RepeatedSeq, Inv, TypeOK, CallTypeOK
  <2>2. NetTypeOK'
    BY <1>3, <2>1, SentType DEF Inv, TypeOK
  <2>3. LockInv'
    BY <1>1, <1>3, LockFrame DEF Inv, LockInv, srvVars
  <2> QED
    BY <1>1, <1>2, <1>3, <2>2, <2>3, TypeFrame DEF Inv, TypeOK, LockInv, callVars
<1>4. CASE SendFails /\ Return(c, "error")
  <2>1. /\ LockInv'
        /\ seqMu' \in Calls \cup {NoOne}
        /\ pc' \in [Calls -> {"new"} \cup Waiting \cup Returned]
    BY <1>1, <1>4, ReturnInv DEF Returned
  <2>2. CallTypeOK'
    BY <1>1, <2>1 DEF Inv, TypeOK, CallTypeOK
  <2> QED
    BY <1>1, <1>2, <1>4, <2>1, <2>2, TypeFrame DEF SendFails, Inv, TypeOK, LockInv
<1> QED
  BY <1>3, <1>4 DEF Resend

(* A call returns without an acknowledgement.                              *)
LEMMA SendEndsInv ==
  ASSUME NEW c \in Calls
  PROVE  Inv /\ (SendTimeout(c) \/ AckClosed(c)) => Inv'
<1> SUFFICES ASSUME Inv, SendTimeout(c) \/ AckClosed(c) PROVE Inv'
  OBVIOUS
<1>1. /\ UNCHANGED <<seqNumber, req, acks, srvVars, beatVars, appVars, endVars, toGateway>>
      /\ pc[c] = "await"
      /\ \E r \in Returned : Return(c, r)
  BY DEF SendTimeout, AckClosed, Returned
<1>2. /\ LockInv'
      /\ seqMu' \in Calls \cup {NoOne}
      /\ pc' \in [Calls -> {"new"} \cup Waiting \cup Returned]
  BY <1>1, ReturnInv
<1>3. CallTypeOK'
  BY <1>1, <1>2 DEF Inv, TypeOK, CallTypeOK
<1>4. Counted' /\ BeatsOfConnections'
  BY <1>1, CallsFrame DEF Inv, beatVars
<1> QED
  BY <1>1, <1>2, <1>3, <1>4, TypeFrame DEF Inv, TypeOK, LockInv

(* A relayed acknowledgement ends the call or is dropped; only the owner   *)
(* of the mutex counts the sequence number.                                *)
LEMMA AcknowledgedInv == ASSUME NEW c \in Calls PROVE Inv /\ Acknowledged(c) => Inv'
<1> SUFFICES ASSUME Inv, Acknowledged(c) PROVE Inv'
  OBVIOUS
<1>1. UNCHANGED <<req, srvVars, beatVars, appVars, endVars, toGateway>> /\ pc[c] = "await"
  BY DEF Acknowledged
<1>2. BagToSet(acks') \subseteq BagToSet(acks)
  BY BagRemoveSet DEF Acknowledged
<1>3. Counted' /\ BeatsOfConnections'
  BY <1>1, CallsFrame DEF Inv, beatVars
<1>4. CASE UNCHANGED <<seqNumber, pc, seqMu>>
  <2>1. CallTypeOK'
    BY <1>1, <1>2, <1>4 DEF Inv, TypeOK, CallTypeOK
  <2>2. LockInv'
    BY <1>1, <1>4, LockFrame DEF Inv, LockInv, srvVars
  <2> QED
    BY <1>1, <1>3, <2>1, <2>2, TypeFrame DEF Inv, TypeOK, LockInv
<1>5. CASE seqNumber' = Inc(seqNumber) /\ \E r \in Returned : Return(c, r)
  <2>1. /\ LockInv'
        /\ seqMu' \in Calls \cup {NoOne}
        /\ pc' \in [Calls -> {"new"} \cup Waiting \cup Returned]
    BY <1>1, <1>5, ReturnInv
  <2>2. CallTypeOK'
    BY <1>1, <1>2, <1>5, <2>1, IncType DEF Inv, TypeOK, CallTypeOK
  <2> QED
    BY <1>1, <1>3, <2>1, <2>2, TypeFrame DEF Inv, TypeOK, LockInv
<1> QED
  BY <1>4, <1>5 DEF Acknowledged, Returned

(* A relay of a tunnel response gives up.                                  *)
LEMMA AckExpiresInv == Inv /\ AckExpires => Inv'
<1> SUFFICES ASSUME Inv, AckExpires PROVE Inv'
  OBVIOUS
<1>1. CallTypeOK'
  BY BagRemoveSet DEF AckExpires, Inv, TypeOK, CallTypeOK
<1>2. LockInv'
  BY LockFrame DEF AckExpires, Inv, LockInv, srvVars
<1>3. Counted' /\ BeatsOfConnections'
  BY CallsFrame DEF AckExpires, Inv, beatVars
<1> QED
  BY <1>1, <1>2, <1>3, TypeFrame DEF AckExpires, Inv, TypeOK, LockInv
-----------------------------------------------------------------------------
(* Heartbeats.                                                             *)

(* A worker that moves keeps its connection and takes the channel ch.      *)
LEMMA BeatMovesInv ==
  ASSUME Inv, NEW w \in BagToSet(beats), NEW at \in {"wait", "report"},
         NEW ch \in Channels \cup {NoChannel}, BeatMoves(w, at, ch),
         UNCHANGED srvVars, ch = channel \/ (ch = w.channel /\ w.at # "start")
  PROVE  /\ BagToSet(beats') \subseteq [epoch : 1..MaxConns, at : {"start", "wait", "report"},
                                        channel : Channels \cup {NoChannel}]
         /\ BeatsOfConnections'
<1> DEFINE u == [w EXCEPT !.at = at, !.channel = ch]
<1>1. BagToSet(beats') \subseteq BagToSet(beats) \cup {u}
  BY BagAddSet, BagRemoveSet DEF BeatMoves
<1>2. w \in [epoch : 1..MaxConns, at : {"start", "wait", "report"},
             channel : Channels \cup {NoChannel}]
  BY DEF Inv, TypeOK, BeatTypeOK
<1>3. /\ u \in [epoch : 1..MaxConns, at : {"start", "wait", "report"},
                channel : Channels \cup {NoChannel}]
      /\ u.epoch = w.epoch /\ u.channel = ch
  BY <1>2
<1>4. BeatsOfConnections'
  BY <1>1, <1>3 DEF Inv, BeatsOfConnections, srvVars
<1> QED
  BY <1>1, <1>3, <1>4 DEF Inv, TypeOK, BeatTypeOK

(* A step of a heartbeat worker or of a relay of its answer.               *)
LEMMA HeartbeatInv == Inv /\ Heartbeat => Inv'
<1> SUFFICES ASSUME Inv, Heartbeat PROVE Inv'
  OBVIOUS
<1>1. UNCHANGED <<callVars, srvVars, appVars, endVars>>
  BY DEF Heartbeat
<1>2. LockInv'
  BY <1>1, LockFrame DEF Inv, LockInv, callVars, srvVars
<1>3. Counted'
  BY <1>1 DEF Inv, Counted, srvVars
<1>4. channel \in Channels \cup {NoChannel}
  BY DEF Inv, TypeOK, ServerTypeOK
<1>5. SUFFICES BeatTypeOK' /\ BeatsOfConnections' /\ NetTypeOK'
  BY <1>1, <1>2, <1>3, TypeFrame DEF Inv, TypeOK, LockInv
<1>6. ASSUME NEW w \in BagToSet(beats)
      PROVE  w.channel \in Channels \cup {NoChannel}
  BY <1>6 DEF Inv, TypeOK, BeatTypeOK
<1>7. ASSUME NEW w \in BagToSet(beats), BeatStart(w)
      PROVE  BeatTypeOK' /\ BeatsOfConnections' /\ NetTypeOK'
  <2>1. BeatMoves(w, "wait", channel) \/ BeatMoves(w, "report", channel)
    BY <1>7 DEF BeatStart
  <2>2. [type |-> "ConnStateReq", channel |-> channel] \in ClientFrames
    BY <1>4 DEF ClientFrames
  <2>3. NetTypeOK'
    BY <1>7, <2>2, SentType DEF BeatStart, SendFails, Inv, TypeOK, NetTypeOK
  <2> QED
    BY <1>1, <1>4, <1>7, <2>1, <2>3, BeatMovesInv DEF BeatStart, BeatTypeOK, Inv, TypeOK
<1>8. ASSUME NEW w \in BagToSet(beats), BeatResend(w)
      PROVE  BeatTypeOK' /\ BeatsOfConnections' /\ NetTypeOK'
  <2>1. w.at = "wait" /\ UNCHANGED beatRes
    BY <1>8 DEF BeatResend
  <2>2. CASE Sent([type |-> "ConnStateReq", channel |-> w.channel]) /\ UNCHANGED beats
    <3>1. [type |-> "ConnStateReq", channel |-> w.channel] \in ClientFrames
      BY <1>6 DEF ClientFrames
    <3> QED
      BY <1>1, <2>1, <2>2, <3>1, SentType, BeatFrame, TypeFrame DEF Inv, TypeOK, srvVars, beatVars
  <2>3. CASE SendFails /\ BeatMoves(w, "report", w.channel)
    BY <1>1, <1>6, <2>1, <2>3, BeatMovesInv
    DEF SendFails, BeatTypeOK, NetTypeOK, Inv, TypeOK
  <2> QED
    BY <1>8, <2>2, <2>3 DEF BeatResend
<1>9. ASSUME NEW w \in BagToSet(beats), BeatFails(w) \/ BeatAnswered(w) \/ BeatEnds(w)
      PROVE  BeatTypeOK' /\ BeatsOfConnections' /\ NetTypeOK'
  <2>1. NetTypeOK' /\ BagToSet(beatRes') \subseteq BagToSet(beatRes)
    BY <1>9, BagRemoveSet DEF BeatFails, BeatAnswered, BeatEnds, NetTypeOK, Inv, TypeOK
  <2>2. CASE w.at = "wait" /\ BeatMoves(w, "report", w.channel)
    BY <1>1, <1>6, <2>1, <2>2, BeatMovesInv DEF BeatTypeOK, Inv, TypeOK
  <2>3. CASE beats' = BagRemove(beats, w)
    <3>1. BagToSet(beats') \subseteq BagToSet(beats)
      BY <2>3, BagRemoveSet
    <3> QED
      BY <1>1, <2>1, <3>1, BeatFrame DEF BeatTypeOK, Inv, TypeOK, srvVars
  <2> QED
    BY <1>9, <2>2, <2>3 DEF BeatFails, BeatAnswered, BeatEnds
<1>10. CASE BeatResExpires
  BY <1>1, <1>10, BagRemoveSet, BeatFrame
  DEF BeatResExpires, BeatTypeOK, NetTypeOK, Inv, TypeOK, srvVars
<1> QED
  BY <1>7, <1>8, <1>9, <1>10 DEF Heartbeat

(* process starts a worker for its own connection, or a worker's report    *)
(* ends it.                                                                *)
LEMMA HeartbeatDueInv == Inv /\ HeartbeatDue => Inv'
<1> SUFFICES ASSUME Inv, HeartbeatDue PROVE Inv'
  OBVIOUS
<1> DEFINE u == [epoch |-> epoch, at |-> "start", channel |-> NoChannel]
<1>1. UNCHANGED <<callVars, srvVars, beatRes, appVars, endVars, toGateway>>
  BY DEF HeartbeatDue
<1>2. BagToSet(beats') = BagToSet(beats) \cup {u}
  BY BagAddSet DEF HeartbeatDue
<1>3. u \in [epoch : 1..MaxConns, at : {"start", "wait", "report"},
             channel : Channels \cup {NoChannel}]
  BY ConstAssumption DEF HeartbeatDue, Inv, TypeOK, ServerTypeOK, Counted
<1>4. BeatTypeOK'
  BY <1>1, <1>2, <1>3 DEF Inv, TypeOK, BeatTypeOK
<1>5. BeatsOfConnections'
  BY <1>1, <1>2 DEF Inv, TypeOK, ServerTypeOK, BeatsOfConnections, srvVars
<1>6. LockInv' /\ Counted'
  BY <1>1, LockFrame DEF Inv, LockInv, callVars, srvVars, Counted
<1> QED
  BY <1>1, <1>4, <1>5, <1>6, TypeFrame DEF Inv, TypeOK, LockInv

(* process leaves for a reconnect on the report of a worker.               *)
LEMMA HeartbeatFailedInv == Inv /\ HeartbeatFailed => Inv'
<1> SUFFICES ASSUME Inv, HeartbeatFailed PROVE Inv'
  OBVIOUS
<1>1. /\ UNCHANGED <<callVars, channel, epoch, recvSeq, appVars, endVars, toGateway>>
      /\ srv' = "dial" /\ beatRes' = EmptyBag /\ epoch < MaxConns
      /\ BagToSet(beats') \subseteq BagToSet(beats)
  BY BagRemoveSet DEF HeartbeatFailed, LeaveProcess
<1>2. TypeOK'
  <2>1. ServerTypeOK' /\ BeatTypeOK'
    BY <1>1, EmptyBagSet DEF Inv, TypeOK, ServerTypeOK, BeatTypeOK
  <2> QED
    BY <1>1, <2>1, TypeFrame DEF Inv, TypeOK
<1>3. LockInv' /\ Counted' /\ BeatsOfConnections'
  BY <1>1, LockFrame, BeatFrame DEF Inv, LockInv, Counted, callVars
<1> QED
  BY <1>2, <1>3 DEF Inv, LockInv
-----------------------------------------------------------------------------
(* process and the handlers of frames.                                     *)

(* A step of the server that ends process, or goes on with it, and changes *)
(* nothing else but what it has typed.                                     *)
LEMMA ServerStep ==
  ASSUME Inv, UNCHANGED <<seqNumber, seqMu, pc, req, channel, epoch, closer>>,
         srv' \in {srv, "return", "unwaited", "inboundClosed", "exited"}
           \/ (srv' = "dial" /\ epoch < MaxConns),
         BagToSet(acks') \subseteq [seq : 0..SeqSpace-1, status : {"ok", "bad"}],
         recvSeq' \in 0..SeqSpace-1,
         BagToSet(beats') \subseteq BagToSet(beats),
         BagToSet(beatRes') \subseteq {"ok", "bad"},
         AppTypeOK', sockUp' \in BOOLEAN, NetTypeOK'
  PROVE  Inv'
<1>1. CallTypeOK' /\ ServerTypeOK' /\ BeatTypeOK' /\ EndTypeOK'
  BY DEF Inv, TypeOK, CallTypeOK, ServerTypeOK, BeatTypeOK, EndTypeOK
<1>2. srv' = "process" => srv = "process"
  OBVIOUS
<1>3. LockInv' /\ BeatsOfConnections'
  BY <1>2, LockFrame, BeatFrame DEF Inv, LockInv
<1>4. Counted'
  BY DEF Inv, Counted
<1> QED
  BY <1>1, <1>3, <1>4 DEF Inv, TypeOK, LockInv

(* Its hypotheses for what a step leaves alone.                            *)
LEMMA Typed ==
  ASSUME Inv
  PROVE  /\ BagToSet(acks) \subseteq [seq : 0..SeqSpace-1, status : {"ok", "bad"}]
         /\ recvSeq \in 0..SeqSpace-1
         /\ channel \in Channels \cup {NoChannel}
         /\ BagToSet(beatRes) \subseteq {"ok", "bad"}
         /\ AppTypeOK /\ sockUp \in BOOLEAN /\ NetTypeOK
BY DEF Inv, TypeOK, CallTypeOK, ServerTypeOK, BeatTypeOK, EndTypeOK

(* What pushInbound does with a payload keeps the types.                   *)
LEMMA PushType ==
  ASSUME AppTypeOK, NEW p \in Telegrams, Deliver(p)
  PROVE  AppTypeOK'
BY BagAddSet DEF AppTypeOK, Deliver, PushInbound, appVars

(* handleTunnelReq.                                                        *)
LEMMA HandleTunnelReqInv ==
  ASSUME NEW m \in GatewayFrames
  PROVE  Inv /\ HandleTunnelReq(m) /\ UNCHANGED endVars => Inv'
<1> SUFFICES ASSUME Inv, HandleTunnelReq(m), UNCHANGED endVars PROVE Inv'
  OBVIOUS
<1>1. /\ UNCHANGED <<callVars, channel, srv, epoch, beatVars>>
      /\ m.seq \in 0..SeqSpace-1 /\ m.payload \in Telegrams /\ m.channel \in Channels
  BY DEF HandleTunnelReq, GatewayFrames
<1>2. CASE UNCHANGED <<recvSeq, appVars, toGateway>>
  BY <1>1, <1>2, Typed, ServerStep, TypeFrame DEF callVars, beatVars, endVars
<1>3. CASE Deliver(m.payload) /\ UNCHANGED <<recvSeq, toGateway>>
  BY <1>1, <1>3, Typed, PushType, ServerStep, TypeFrame DEF callVars, beatVars, endVars
<1>4. CASE /\ m.channel = channel
           /\ \/ CountReceived /\ Deliver(m.payload)
              \/ UNCHANGED <<recvSeq, appVars>>
           /\ SentOrNot([type |-> "TunnelRes", channel |-> channel, seq |-> m.seq,
                         status |-> "ok"])
  <2>1. [type |-> "TunnelRes", channel |-> channel, seq |-> m.seq, status |-> "ok"]
          \in ClientFrames
    BY <1>1, <1>4 DEF ClientFrames
  <2>2. NetTypeOK'
    BY <1>4, <2>1, SentType, Typed DEF SentOrNot, SendFails, NetTypeOK
  <2>3. recvSeq' \in 0..SeqSpace-1 /\ AppTypeOK'
    BY <1>1, <1>4, Typed, PushType, TypeFrame, IncType DEF CountReceived
  <2> QED
    BY <1>1, <2>2, <2>3, Typed, ServerStep DEF callVars, beatVars, endVars
<1> QED
  BY <1>2, <1>3, <1>4 DEF HandleTunnelReq, Refuse

(* handleTunnelRes and handleConnStateRes.                                 *)
LEMMA HandleResInv ==
  ASSUME NEW m \in GatewayFrames
  PROVE  Inv /\ (HandleTunnelRes(m) \/ HandleConnStateRes(m)) /\ UNCHANGED endVars => Inv'
<1> SUFFICES ASSUME Inv, HandleTunnelRes(m) \/ HandleConnStateRes(m), UNCHANGED endVars
             PROVE  Inv'
  OBVIOUS
<1>1. UNCHANGED <<seqNumber, seqMu, pc, req, srvVars, beats, appVars, toGateway>>
  BY DEF HandleTunnelRes, HandleConnStateRes, callVars, beatVars
<1>2. BagToSet(acks') \subseteq [seq : 0..SeqSpace-1, status : {"ok", "bad"}]
  BY BagAddSet, Typed DEF HandleTunnelRes, HandleConnStateRes, GatewayFrames, callVars
<1>3. BagToSet(beatRes') \subseteq {"ok", "bad"}
  BY BagAddSet, Typed DEF HandleTunnelRes, HandleConnStateRes, GatewayFrames, beatVars
<1> QED
  BY <1>1, <1>2, <1>3, Typed, ServerStep, TypeFrame DEF srvVars, endVars

(* The disconnect requests and responses.                                  *)
LEMMA HandleDiscInv ==
  ASSUME NEW m \in GatewayFrames
  PROVE  Inv /\ HandleDisc(m) /\ UNCHANGED endVars => Inv'
<1> SUFFICES ASSUME Inv, HandleDisc(m), UNCHANGED endVars PROVE Inv'
  OBVIOUS
<1>1. /\ UNCHANGED <<callVars, channel, epoch, recvSeq, beats, appVars>>
      /\ srv' \in {srv, "return"} \/ (srv' = "dial" /\ epoch < MaxConns)
      /\ BagToSet(beatRes') \subseteq {"ok", "bad"}
  BY Typed, EmptyBagSet DEF HandleDisc, LeaveProcess
<1>2. NetTypeOK'
  <2>1. m.type = "DiscReq" => [type |-> "DiscRes", channel |-> m.channel] \in ClientFrames
    BY DEF GatewayFrames, ClientFrames
  <2> QED
    BY <2>1, SentType, Typed, TypeFrame DEF HandleDisc, SentOrNot, SendFails
<1> QED
  BY <1>1, <1>2, Typed, ServerStep, TypeFrame DEF callVars, endVars

(* Whatever arrives, in requestConn or in process.                         *)
LEMMA ReceiveInv == ASSUME NEW m \in GatewayFrames PROVE Inv /\ Receive(m) => Inv'
<1> SUFFICES ASSUME Inv, ProcessReceive(m) PROVE Inv'
  BY ConnReceiveInv DEF Receive
<1>1. CASE UNCHANGED <<callVars, srvVars, beatVars, appVars, toGateway>>
  BY <1>1, Typed, ServerStep, TypeFrame DEF ProcessReceive, callVars, srvVars, beatVars, endVars
<1> QED
  BY <1>1, HandleTunnelReqInv, HandleResInv, HandleDiscInv DEF ProcessReceive
-----------------------------------------------------------------------------
(* The end of the server and Close.                                        *)

(* The end of process, of serve and of the socket.                         *)
LEMMA EndsInv == Inv /\ (ProcessDone \/ Serving \/ SocketEnds \/ AppReceive) => Inv'
<1> SUFFICES ASSUME Inv, ProcessDone \/ Serving \/ SocketEnds \/ AppReceive PROVE Inv'
  OBVIOUS
<1>1. CASE ProcessDone
  BY <1>1, Typed, EmptyBagSet, ServerStep, TypeFrame
  DEF ProcessDone, LeaveProcess, callVars, endVars
<1>2. CASE WaitDone \/ CloseInbound
  <2>1. AppTypeOK'
    BY <1>2, Typed, EmptyBagSet, TypeFrame DEF WaitDone, CloseInbound, AppTypeOK
  <2> QED
    BY <1>2, <2>1, Typed, ServerStep, TypeFrame
    DEF WaitDone, CloseInbound, callVars, beatVars, endVars
<1>3. CASE CloseAck
  BY <1>3, Typed, EmptyBagSet, ServerStep, TypeFrame DEF CloseAck, beatVars, endVars
<1>4. CASE SocketEnds
  BY <1>4, Typed, ServerStep, TypeFrame DEF SocketEnds, callVars, srvVars, beatVars
<1>5. CASE AppReceive
  <2>1. AppTypeOK'
    BY <1>5, Typed, BagRemoveSet DEF AppReceive, AppTypeOK
  <2> QED
    BY <1>5, <2>1, Typed, ServerStep, TypeFrame
    DEF AppReceive, callVars, srvVars, beatVars, endVars
<1> QED
  BY <1>1, <1>2, <1>3, <1>4, <1>5 DEF Serving

(* Close.                                                                  *)
LEMMA CloseInv == Inv /\ (CloseRequest \/ Closing) => Inv'
<1> SUFFICES ASSUME Inv, CloseRequest \/ Closing PROVE Inv'
  OBVIOUS
<1>1. UNCHANGED <<callVars, srvVars, beatVars, appVars>> /\ EndTypeOK'
  BY DEF CloseRequest, Closing, CloseDone, CloseSocket, Inv, TypeOK, EndTypeOK
<1>2. NetTypeOK'
  <2>1. [type |-> "DiscReq", channel |-> channel] \in ClientFrames
    BY Typed DEF ClientFrames
  <2> QED
    BY <2>1, SentType, Typed, TypeFrame
    DEF CloseRequest, Closing, CloseDone, CloseSocket, SentOrNot, SendFails
<1>3. LockInv' /\ Counted' /\ BeatsOfConnections'
  BY <1>1, LockFrame, CallsFrame DEF Inv, LockInv, callVars, srvVars, beatVars
<1> QED
  BY <1>1, <1>2, <1>3, TypeFrame DEF Inv, TypeOK, LockInv
-----------------------------------------------------------------------------
(* Nothing happens.                                                        *)
LEMMA StutterInv == Inv /\ UNCHANGED vars => Inv'
<1> SUFFICES ASSUME Inv, UNCHANGED vars PROVE Inv'
  OBVIOUS
<1> QED
  BY Typed, ServerStep, TypeFrame DEF vars, callVars, srvVars, beatVars, endVars

(* Every step of the client keeps the invariant.                           *)
THEOREM NextInv == Inv /\ [Next]_vars => Inv'
BY DialInv, ConnResendInv, ConnFailsInv, ResetSeqInv, CallInv, RequestInv, ResendInv,
   SendEndsInv, AcknowledgedInv, AckExpiresInv, HeartbeatInv, HeartbeatDueInv,
   HeartbeatFailedInv, ReceiveInv, EndsInv, CloseInv, StutterInv
DEF Next, Client, Sending

(* The inductive invariant holds in every behaviour.                       *)
THEOREM Invariance == OpenSpec => []Inv
BY InitInv, NextInv, PTL DEF OpenSpec

(* Every variable of the client keeps its type, whatever arrives.          *)
THEOREM TypeCorrect == OpenSpec => []TypeOK
BY Invariance, PTL DEF Inv

(* seqMu is owned by the one call that waits for an acknowledgement.       *)
THEOREM MutexCorrect == OpenSpec => []SeqMuHeld
BY Invariance, PTL DEF Inv

(* A waiting call waits for the number in its own request, although a      *)
(* reconnect may want to reset the number meanwhile.                       *)
THEOREM NumberCorrect == OpenSpec => []AwaitsOwnNumber
BY Invariance, PTL DEF Inv

(* While a connection is served, no call waits with a request made on an   *)
(* earlier one.                                                            *)
THEOREM ConnectionCorrect == OpenSpec => []AwaitsOnThisConnection
BY Invariance, PTL DEF Inv

(* The step from process to a reconnect that changes the workers is the    *)
(* report of one of them.                                                  *)
LEMMA OnlyHeartbeatFailed ==
  ASSUME Next, srv = "process", srv' = "dial", beats' # beats
  PROVE  HeartbeatFailed
<1>1. \A m : Receive(m) => beats' = beats
  BY DEF Receive, ConnReceive, ProcessReceive, HandleTunnelReq, HandleTunnelRes,
         HandleConnStateRes, HandleDisc, beatVars
<1>2. ~(Dial \/ ConnResend \/ ConnFails \/ ResetSeq)
  BY DEF Dial, ConnResend, ConnFails, ResetSeq
<1>3. ASSUME NEW c, Call(c) \/ Sending(c)
      PROVE  FALSE
  BY <1>3 DEF Call, Sending, Request, Resend, SendTimeout, Acknowledged, AckClosed, srvVars
<1>4. ~(AckExpires \/ Heartbeat \/ ProcessDone \/ HeartbeatDue)
  BY DEF AckExpires, Heartbeat, ProcessDone, LeaveProcess, HeartbeatDue, srvVars
<1>5. ~(Serving \/ CloseRequest \/ Closing \/ SocketEnds \/ AppReceive)
  BY DEF Serving, WaitDone, CloseInbound, CloseAck, CloseRequest, Closing, CloseDone,
         CloseSocket, SocketEnds, AppReceive, srvVars
<1> QED
  BY <1>1, <1>2, <1>3, <1>4, <1>5 DEF Next, Client

(* Only process's own heartbeat, for its own channel, ends the connection. *)
THEOREM HeartbeatCorrect == OpenSpec => HeartbeatOfThisConnection
<1> DEFINE Own == srv = "process" /\ srv' = "dial" /\ beats' # beats
                    => \E w \in BagToSet(beats) : /\ beats' = BagRemove(beats, w)
                                                  /\ w.epoch = epoch /\ w.channel = channel
<1>1. Inv /\ [Next]_vars => [Own]_vars
  <2> SUFFICES ASSUME Inv, Next, srv = "process", srv' = "dial", beats' # beats
               PROVE  \E w \in BagToSet(beats) : /\ beats' = BagRemove(beats, w)
                                                 /\ w.epoch = epoch /\ w.channel = channel
    OBVIOUS
  <2>1. PICK w \in BagToSet(beats) : Reports(w) /\ beats' = BagRemove(beats, w)
    BY OnlyHeartbeatFailed DEF HeartbeatFailed
  <2>2. w.epoch = epoch /\ w.channel = channel
    BY <2>1 DEF Reports, Inv, BeatsOfConnections
  <2> QED
    BY <2>1, <2>2
<1> QED
  BY <1>1, Invariance, PTL DEF OpenSpec, HeartbeatOfThisConnection
=============================================================================
