---------------------------- MODULE SystemProofs ----------------------------
(***************************************************************************)
(* TunnelSystem.tla implements Delivery.tla, for every set of calls,       *)
(* channels and telegrams, every size of the sequence numbers, frames lost *)
(* and repeated at any time, and any number of connections.                *)
(*                                                                         *)
(* Each direction is a stop-and-wait protocol over a connection that may   *)
(* be replaced at any moment.  The invariant relates what is on its way to *)
(* the counters at its two ends:                                           *)
(*                                                                         *)
(*   - inbound, a channel is live while the client uses it or may still    *)
(*     begin to (Live).  On a live channel the frames on their way repeat  *)
(*     the telegram before the expected one, then the expected one, which  *)
(*     the application does not have (TelegramsInOrder); the gateway is at *)
(*     the expected number, or one behind with a telegram the application  *)
(*     has (InStep); an acknowledgement of the pending telegram is sent    *)
(*     after that (AcksInOrder), also on a channel not used any more;      *)
(*   - outbound, the requests of a call are on their way without those of  *)
(*     others between them (Blocks), since a call holds seqMu while it     *)
(*     repeats them, so the gateway's number does not come back to that of *)
(*     an accepted call before the last of them (AcceptedBehind);          *)
(*   - on the first connection, as long as no call times out, both ends    *)
(*     count the same requests (InCount), so that an acknowledgement with  *)
(*     the current number is that of the call that waits (RelaysBehind).   *)
(***************************************************************************)
EXTENDS TunnelSystem, TunnelProofs

Ended  == srv \in {"inboundClosed", "exited"}
Handed == BagToSet(pushers) \cup ToSet(delivered)

(* Where the calls' requests, the client's acknowledgements, the gateway's *)
(* telegrams and the connections it offers are on their way.               *)
Reqs   == {i \in DOMAIN toGateway : toGateway[i].type = "TunnelReq"}
Acks   == {i \in DOMAIN toGateway : toGateway[i].type = "TunnelRes"}
Tels   == {i \in DOMAIN toClient : toClient[i].type = "TunnelReq"}
Offers == {i \in DOMAIN toClient : toClient[i].type = "ConnRes" /\ toClient[i].status = "ok"}

(* A channel the client uses, or may begin to use.                         *)
Live == {ch \in Channels : /\ ~Ended
                           /\ \/ channel = ch /\ srv \in {"reset", "process"}
                              \/ \E i \in Offers : toClient[i].channel = ch}

(* The number the client expects, or will, of the next telegram.           *)
Expects == [ch \in Channels |-> IF channel = ch /\ srv = "process" THEN recvSeq ELSE 0]
-----------------------------------------------------------------------------
(* The gateway's variables and the frames it writes have their types, and  *)
(* the client writes frames for channels it was given.                     *)
GatewayTypeOK ==
  /\ gw \in [Channels -> [state : {"unused", "open", "closed"}, rseq : 0..SeqSpace-1,
                          sseq : 0..SeqSpace-1, pending : Telegrams \cup {NoTelegram}]]
  /\ accepted \in Seq(Calls)
  /\ confirmed \subseteq Telegrams
  /\ toClient \in Seq(GatewayFrames)
  /\ nextTel \in Nat \ {0}

Channelled ==
  /\ epoch > 0 \/ srv = "reset" => channel \in Channels
  /\ \A c \in Calls : pc[c] # "new" => epoch > 0
  /\ \A c \in Calls : pc[c] = "await" => req[c].channel \in Channels
  /\ \A w \in BagToSet(beats) : w.at = "wait" => w.channel \in Channels
  /\ \A i \in DOMAIN toGateway : toGateway[i].type # "ConnReq" => toGateway[i].channel \in Channels

(* A connection is offered once, before the client uses it, and what is on *)
(* its way is about a connection the gateway has opened.                   *)
OfferedOnce ==
  /\ \A i, j \in Offers : toClient[i].channel = toClient[j].channel => i = j
  /\ \A i \in Offers : toClient[i].channel # channel

Opened ==
  /\ channel \in Channels => gw[channel].state # "unused"
  /\ \A i \in Offers \cup Tels : gw[toClient[i].channel].state # "unused"
  /\ \A i \in Acks : gw[toGateway[i].channel].state # "unused"

(* A telegram belongs to one connection.                                   *)
OneOwner ==
  /\ \A i, j \in Tels : toClient[i].payload = toClient[j].payload
                          => toClient[i].channel = toClient[j].channel
  /\ \A i \in Tels, ch \in Channels : gw[ch].pending = toClient[i].payload
                                        => toClient[i].channel = ch
  /\ \A ch, dh \in Channels : gw[ch].pending = gw[dh].pending /\ gw[ch].pending # NoTelegram
                                => ch = dh

(* What has been sent is older than the next telegram.                     *)
Numbered ==
  /\ \A i \in Tels : toClient[i].payload < nextTel
  /\ \A ch \in Channels : gw[ch].pending < nextTel
  /\ \A t \in Handed : t < nextTel

(* On a live channel the telegrams on their way repeat the one before the  *)
(* expected one, then the expected one, which is the gateway's pending one *)
(* and not handed over.                                                    *)
TelegramsInOrder ==
  \A ch \in Live, i \in Tels : toClient[i].channel = ch =>
     /\ toClient[i].seq \in {Expects[ch], Dec(Expects[ch])}
     /\ toClient[i].seq = Expects[ch] =>
          /\ toClient[i].payload \notin Handed
          /\ gw[ch].state = "open" => /\ gw[ch].pending = toClient[i].payload
                                     /\ gw[ch].sseq = Expects[ch]
          /\ \A j \in Tels : j > i /\ toClient[j].channel = ch
               => toClient[j].seq = toClient[i].seq /\ toClient[j].payload = toClient[i].payload

(* The gateway is at the expected number, or one behind with a telegram    *)
(* that was handed over and whose acknowledgement is missing.              *)
InStep ==
  \A ch \in Live : gw[ch].state = "open" =>
     \/ gw[ch].sseq = Expects[ch] /\ gw[ch].pending \notin Handed
     \/ gw[ch].sseq = Dec(Expects[ch]) /\ gw[ch].pending \in Handed

(* An acknowledgement of the pending telegram is on its way only after     *)
(* that was handed over, behind those of the telegram before.              *)
AcksInOrder ==
  \A ch \in Channels, i \in Acks : toGateway[i].channel = ch /\ gw[ch].state = "open" =>
     /\ toGateway[i].seq \in {gw[ch].sseq, Dec(gw[ch].sseq)}
     /\ toGateway[i].seq = gw[ch].sseq =>
          /\ gw[ch].pending # NoTelegram /\ (Ended \/ gw[ch].pending \in Handed)
          /\ \A j \in Acks : j > i /\ toGateway[j].channel = ch
               => toGateway[j].seq = toGateway[i].seq
-----------------------------------------------------------------------------
(* A request on its way is the one its call made.                          *)
Requested ==
  \A i \in Reqs : \A c \in Calls : toGateway[i].payload = c =>
     /\ pc[c] \notin {"new", "locking"}
     /\ req[c].channel = toGateway[i].channel /\ req[c].seq = toGateway[i].seq

(* Nobody sends a request while another call waits, and the requests of a  *)
(* call are not mixed with others.                                         *)
Blocks ==
  /\ \A i, j \in Reqs : i < j /\ pc[toGateway[i].payload] = "await"
       => toGateway[j].payload = toGateway[i].payload
  /\ \A i, j, k \in Reqs : i < j /\ j < k /\ toGateway[i].payload = toGateway[k].payload
       => toGateway[j].payload = toGateway[i].payload

(* While a request of an accepted call can still arrive, the gateway       *)
(* expects another number than its.                                        *)
AcceptedBehind ==
  \A c \in ToSet(accepted) :
     /\ pc[c] \notin {"new", "locking"}
     /\ req[c].channel \in Channels /\ gw[req[c].channel].state # "unused"
     /\ \A i, j \in Reqs : toGateway[i].payload = c /\ j < i => toGateway[j].payload = c
     /\ pc[c] = "await" => \A i \in Reqs : toGateway[i].payload = c
     /\ /\ gw[req[c].channel].state = "open"
        /\ pc[c] = "await" \/ \E i \in Reqs : toGateway[i].payload = c
        => gw[req[c].channel].rseq # req[c].seq

(* The invariant.                                                          *)
InboundInv  == OfferedOnce /\ Opened /\ OneOwner /\ Numbered /\ TelegramsInOrder /\ InStep /\ AcksInOrder
OutboundInv == Requested /\ Blocks /\ AcceptedBehind
SystemInv   == Inv /\ GatewayTypeOK /\ Channelled /\ InboundInv /\ OutboundInv
-----------------------------------------------------------------------------
(* Frames of a kind have its fields.                                       *)
LEMMA FrameFields ==
  /\ \A f \in ClientFrames : f.type = "TunnelReq" => f.payload \in Calls /\ f.seq \in 0..SeqSpace-1
  /\ \A f \in ClientFrames : f.type = "TunnelRes" => f.channel \in Channels /\ f.seq \in 0..SeqSpace-1
  /\ \A f \in GatewayFrames : f.channel \in Channels
  /\ \A f \in GatewayFrames : f.type = "TunnelReq" => f.payload \in Telegrams /\ f.seq \in 0..SeqSpace-1
BY DEF ClientFrames, GatewayFrames

(* Telegrams are numbers, and no telegram is none.                         *)
LEMMA TelegramNumbers == \A t \in Telegrams : t \in Nat /\ t # NoTelegram
BY SystemAssumption DEF NoTelegram

(* Numbers next to each other differ, and counting up undoes counting      *)
(* down.                                                                   *)
LEMMA IncDec ==
  ASSUME NEW n \in 0..SeqSpace-1
  PROVE  /\ Inc(n) \in 0..SeqSpace-1 /\ Dec(n) \in 0..SeqSpace-1
         /\ Inc(n) # n /\ Dec(n) # n
         /\ Dec(Inc(n)) = n /\ Inc(Dec(n)) = n
<1> DEFINE S == SeqSpace
<1>1. S \in Nat /\ S > 1 /\ n \in Nat /\ n < S
  BY ConstAssumption
<1>2. \A m \in Nat : m < S => m % S = m /\ (m + S) % S = m
  BY <1>1
<1>3. Inc(n) = IF n + 1 = S THEN 0 ELSE n + 1
  BY <1>1, <1>2 DEF Inc
<1>4. Dec(n) = IF n = 0 THEN S - 1 ELSE n - 1
  BY <1>1, <1>2 DEF Dec
<1>5. CASE n = 0
  BY <1>1, <1>3, <1>4, <1>5, <1>2 DEF Inc, Dec
<1>6. CASE n = S - 1
  BY <1>1, <1>3, <1>4, <1>6, <1>2 DEF Inc, Dec
<1>7. CASE n # 0 /\ n # S - 1
  BY <1>1, <1>3, <1>4, <1>7, <1>2 DEF Inc, Dec
<1> QED
  BY <1>5, <1>6, <1>7
-----------------------------------------------------------------------------
(* What a step does to a queue.                                            *)

(* The rest of a queue without its head.                                   *)
LEMMA TailAt ==
  ASSUME NEW S, NEW s \in Seq(S), s # <<>>
  PROVE  /\ Head(s) \in S /\ Tail(s) \in Seq(S) /\ 1 \in DOMAIN s /\ s[1] = Head(s)
         /\ \A i \in DOMAIN Tail(s) : /\ i \in Nat /\ i > 0 /\ i + 1 \in DOMAIN s
                                      /\ Tail(s)[i] = s[i + 1]
OBVIOUS

(* A queue with the frame x at its end.                                    *)
LEMMA AppendAt ==
  ASSUME NEW S, NEW s \in Seq(S), NEW x \in S
  PROVE  /\ Append(s, x) \in Seq(S) /\ Len(s) \in Nat
         /\ \A i \in DOMAIN Append(s, x) : i \in DOMAIN s \/ i = Len(s) + 1
         /\ Len(s) + 1 \in DOMAIN Append(s, x) /\ Append(s, x)[Len(s) + 1] = x
         /\ \A i \in DOMAIN s : /\ i \in Nat /\ i < Len(s) + 1
                                /\ i \in DOMAIN Append(s, x) /\ Append(s, x)[i] = s[i]
OBVIOUS

(* The positions of a queue are numbers.                                   *)
LEMMA Positions == ASSUME NEW S, NEW s \in Seq(S) PROVE \A i \in DOMAIN s : i \in Nat
OBVIOUS

(* Of the frames of a kind none joins, and those that stay keep their      *)
(* order.                                                                  *)
ReqsKept ==
  \E k \in Nat : \A i \in Reqs' : i \in Nat /\ i + k \in Reqs /\ toGateway'[i] = toGateway[i + k]
AcksKept ==
  \E k \in Nat : \A i \in Acks' : i \in Nat /\ i + k \in Acks /\ toGateway'[i] = toGateway[i + k]
TelsKept ==
  \E k \in Nat : \A i \in Tels' : i \in Nat /\ i + k \in Tels /\ toClient'[i] = toClient[i + k]
OffersKept ==
  \E k \in Nat : \A i \in Offers' : i \in Nat /\ i + k \in Offers /\ toClient'[i] = toClient[i + k]

(* The gateway takes a frame from its queue.                               *)
LEMMA GatewayTakes ==
  ASSUME toGateway \in Seq(ClientFrames), toGateway # <<>>, toGateway' = Tail(toGateway)
  PROVE  toGateway' \in Seq(ClientFrames) /\ ReqsKept /\ AcksKept
<1>1. \A i \in DOMAIN toGateway' : /\ i \in Nat /\ i + 1 \in DOMAIN toGateway
                                   /\ toGateway'[i] = toGateway[i + 1]
  BY TailAt
<1>2. toGateway' \in Seq(ClientFrames)
  BY TailAt
<1> QED
  BY <1>1, <1>2 DEF ReqsKept, AcksKept, Reqs, Acks

(* The client takes a frame from its queue.                                *)
LEMMA ClientTakes ==
  ASSUME toClient \in Seq(GatewayFrames), toClient # <<>>, toClient' = Tail(toClient)
  PROVE  toClient' \in Seq(GatewayFrames) /\ TelsKept /\ OffersKept
<1>1. \A i \in DOMAIN toClient' : /\ i \in Nat /\ i + 1 \in DOMAIN toClient
                                  /\ toClient'[i] = toClient[i + 1]
  BY TailAt
<1>2. toClient' \in Seq(GatewayFrames)
  BY TailAt
<1> QED
  BY <1>1, <1>2 DEF TelsKept, OffersKept, Tels, Offers

(* A queue is left alone.                                                  *)
LEMMA QueueKept ==
  /\ toGateway \in Seq(ClientFrames) /\ UNCHANGED toGateway => ReqsKept /\ AcksKept
  /\ toClient \in Seq(GatewayFrames) /\ UNCHANGED toClient => TelsKept /\ OffersKept
<1>1. ASSUME toGateway \in Seq(ClientFrames), UNCHANGED toGateway PROVE ReqsKept /\ AcksKept
  <2>1. \A i \in DOMAIN toGateway : i \in Nat /\ i + 0 = i
    BY <1>1, Positions
  <2>2. Reqs' = Reqs /\ Acks' = Acks
    BY <1>1 DEF Reqs, Acks
  <2>3. \A i \in Reqs' : i \in Nat /\ i + 0 \in Reqs /\ toGateway'[i] = toGateway[i + 0]
    BY <1>1, <2>1, <2>2 DEF Reqs
  <2>4. \A i \in Acks' : i \in Nat /\ i + 0 \in Acks /\ toGateway'[i] = toGateway[i + 0]
    BY <1>1, <2>1, <2>2 DEF Acks
  <2>5. ReqsKept
    BY <2>3 DEF ReqsKept
  <2>6. AcksKept
    BY <2>4 DEF AcksKept
  <2> QED
    BY <2>5, <2>6
<1>2. ASSUME toClient \in Seq(GatewayFrames), UNCHANGED toClient PROVE TelsKept /\ OffersKept
  <2>1. \A i \in DOMAIN toClient : i \in Nat /\ i + 0 = i
    BY <1>2, Positions
  <2>2. Tels' = Tels /\ Offers' = Offers
    BY <1>2 DEF Tels, Offers
  <2>3. \A i \in Tels' : i \in Nat /\ i + 0 \in Tels /\ toClient'[i] = toClient[i + 0]
    BY <1>2, <2>1, <2>2 DEF Tels
  <2>4. \A i \in Offers' : i \in Nat /\ i + 0 \in Offers /\ toClient'[i] = toClient[i + 0]
    BY <1>2, <2>1, <2>2 DEF Offers
  <2>5. TelsKept
    BY <2>3 DEF TelsKept
  <2>6. OffersKept
    BY <2>4 DEF OffersKept
  <2> QED
    BY <2>5, <2>6
<1> QED
  BY <1>1, <1>2

(* The client writes a frame that is no request and no acknowledgement.    *)
LEMMA ClientWrites ==
  ASSUME toGateway \in Seq(ClientFrames), NEW f \in ClientFrames, Sent(f)
  PROVE  /\ toGateway' \in Seq(ClientFrames)
         /\ f.type # "TunnelReq" => ReqsKept
         /\ f.type # "TunnelRes" => AcksKept
<1>1. CASE toGateway' = Append(toGateway, f)
  <2>1. /\ \A i \in DOMAIN toGateway' : i \in DOMAIN toGateway \/ toGateway'[i] = f
        /\ \A i \in DOMAIN toGateway : i \in Nat /\ i + 0 = i /\ toGateway'[i] = toGateway[i]
    BY <1>1, AppendAt
  <2>2. ASSUME f.type # "TunnelReq" PROVE ReqsKept
    <3>1. \A i \in Reqs' : i \in Nat /\ i + 0 \in Reqs /\ toGateway'[i] = toGateway[i + 0]
      BY <2>1, <2>2 DEF Reqs
    <3> QED
      BY <3>1 DEF ReqsKept
  <2>3. ASSUME f.type # "TunnelRes" PROVE AcksKept
    <3>1. \A i \in Acks' : i \in Nat /\ i + 0 \in Acks /\ toGateway'[i] = toGateway[i + 0]
      BY <2>1, <2>3 DEF Acks
    <3> QED
      BY <3>1 DEF AcksKept
  <2> QED
    BY <1>1, <2>2, <2>3, AppendAt
<1>2. CASE UNCHANGED toGateway
  BY <1>2, QueueKept
<1> QED
  BY <1>1, <1>2 DEF Sent

(* The gateway writes a frame that is no telegram and no offer.            *)
LEMMA GatewayWrites ==
  ASSUME toClient \in Seq(GatewayFrames), NEW f \in GatewayFrames, Answers(f)
  PROVE  /\ toClient' \in Seq(GatewayFrames)
         /\ f.type # "TunnelReq" => TelsKept
         /\ ~(f.type = "ConnRes" /\ f.status = "ok") => OffersKept
<1>1. CASE toClient' = Append(toClient, f)
  <2>1. /\ \A i \in DOMAIN toClient' : i \in DOMAIN toClient \/ toClient'[i] = f
        /\ \A i \in DOMAIN toClient : i \in Nat /\ i + 0 = i /\ toClient'[i] = toClient[i]
    BY <1>1, AppendAt
  <2>2. ASSUME f.type # "TunnelReq" PROVE TelsKept
    <3>1. \A i \in Tels' : i \in Nat /\ i + 0 \in Tels /\ toClient'[i] = toClient[i + 0]
      BY <2>1, <2>2 DEF Tels
    <3> QED
      BY <3>1 DEF TelsKept
  <2>3. ASSUME ~(f.type = "ConnRes" /\ f.status = "ok") PROVE OffersKept
    <3>1. \A i \in Offers' : i \in Nat /\ i + 0 \in Offers /\ toClient'[i] = toClient[i + 0]
      BY <2>1, <2>3 DEF Offers
    <3> QED
      BY <3>1 DEF OffersKept
  <2> QED
    BY <1>1, <2>2, <2>3, AppendAt
<1>2. CASE UNCHANGED toClient
  BY <1>2, QueueKept
<1> QED
  BY <1>1, <1>2 DEF Answers
-----------------------------------------------------------------------------
(* What most steps do not disturb.                                         *)

(* A telegram that waits for its acknowledgement is not replaced.          *)
PendingKept == \A ch \in Channels : gw'[ch].pending \in {gw[ch].pending, NoTelegram}

(* The gateway opens no connection and sends nothing new on one.           *)
GwKept ==
  \A ch \in Channels :
     /\ gw'[ch].state = "unused" => gw[ch].state = "unused"
     /\ gw'[ch].pending \in {gw[ch].pending, NoTelegram}
     /\ gw'[ch].state = "open" => /\ gw[ch].state = "open" /\ gw'[ch].sseq = gw[ch].sseq
                                  /\ gw'[ch].pending = gw[ch].pending

(* The application keeps what it has until the tunnel ends.                *)
HandedKept ==
  /\ Handed' \subseteq Handed
  /\ Handed' = Handed \/ Ended'
  /\ Ended => Ended'

(* The channel in use is open and not offered again.                       *)
ChannelKept ==
  /\ \A i \in Offers' : toClient'[i].channel # channel'
  /\ channel' \in Channels => gw'[channel'].state # "unused"

(* No channel comes to life, and no expected number changes.               *)
LiveKept == \A ch \in Live' : ch \in Live /\ Expects'[ch] = Expects[ch]

(* Offers.                                                                 *)
LEMMA OfferedKept ==
  ASSUME OfferedOnce, OffersKept, ChannelKept
  PROVE  OfferedOnce'
<1>1. PICK k \in Nat : \A i \in Offers' : /\ i \in Nat /\ i + k \in Offers
                                         /\ toClient'[i] = toClient[i + k]
  BY DEF OffersKept
<1>2. \A i, j \in Offers' : toClient'[i].channel = toClient'[j].channel => i + k = j + k
  BY <1>1 DEF OfferedOnce
<1>3. \A i, j \in Offers' : toClient'[i].channel = toClient'[j].channel => i = j
  BY <1>1, <1>2
<1> QED
  BY <1>3 DEF OfferedOnce, ChannelKept

(* Channels that have been opened.                                         *)
LEMMA OpenedKept ==
  ASSUME Opened, OffersKept, TelsKept, AcksKept, ChannelKept,
         toClient' \in Seq(GatewayFrames), toGateway' \in Seq(ClientFrames),
         \A ch \in Channels : gw'[ch].state = "unused" => gw[ch].state = "unused"
  PROVE  Opened'
<1>1. \A i \in Offers' \cup Tels' : \E j \in Offers \cup Tels : toClient'[i] = toClient[j]
  BY DEF OffersKept, TelsKept
<1>2. \A i \in Acks' : \E j \in Acks : toGateway'[i] = toGateway[j]
  BY DEF AcksKept
<1>3. \A i \in Offers' \cup Tels' : toClient'[i].channel \in Channels
  BY FrameFields DEF Offers, Tels
<1>4. \A i \in Acks' : toGateway'[i].channel \in Channels
  BY FrameFields DEF Acks
<1>5. \A i \in Offers' \cup Tels' : gw'[toClient'[i].channel].state # "unused"
  BY <1>1, <1>3 DEF Opened
<1>6. \A i \in Acks' : gw'[toGateway'[i].channel].state # "unused"
  BY <1>2, <1>4 DEF Opened
<1> QED
  BY <1>5, <1>6 DEF Opened, ChannelKept

(* Telegrams and their connections.                                        *)
LEMMA OwnerKept ==
  ASSUME OneOwner, TelsKept, PendingKept, toClient' \in Seq(GatewayFrames)
  PROVE  OneOwner'
<1>1. \A i \in Tels' : \E j \in Tels : toClient'[i] = toClient[j]
  BY DEF TelsKept
<1>2. \A i \in Tels' : toClient'[i].payload # NoTelegram
  BY FrameFields, TelegramNumbers DEF Tels
<1>3. \A i, j \in Tels' : toClient'[i].payload = toClient'[j].payload
                            => toClient'[i].channel = toClient'[j].channel
  BY <1>1 DEF OneOwner
<1>4. \A i \in Tels', ch \in Channels : gw'[ch].pending = toClient'[i].payload
                                          => toClient'[i].channel = ch
  BY <1>1, <1>2 DEF OneOwner, PendingKept
<1>5. \A ch, dh \in Channels : gw'[ch].pending = gw'[dh].pending /\ gw'[ch].pending # NoTelegram
                                 => ch = dh
  BY DEF OneOwner, PendingKept
<1> QED
  BY <1>3, <1>4, <1>5 DEF OneOwner

(* The numbers of telegrams.                                               *)
LEMMA NumberedKept ==
  ASSUME Numbered, TelsKept, PendingKept, UNCHANGED nextTel, nextTel \in Nat \ {0},
         Handed' \subseteq Handed
  PROVE  Numbered'
<1>1. \A i \in Tels' : \E j \in Tels : toClient'[i] = toClient[j]
  BY DEF TelsKept
<1>2. NoTelegram < nextTel
  BY DEF NoTelegram
<1>3. \A ch \in Channels : gw'[ch].pending < nextTel'
  BY <1>2 DEF Numbered, PendingKept
<1> QED
  BY <1>1, <1>3 DEF Numbered

(* The order of telegrams on their way.                                    *)
LEMMA OrderKept ==
  ASSUME TelegramsInOrder, TelsKept, Handed' \subseteq Handed,
         \A ch \in Live' : (\E i \in Tels' : toClient'[i].channel = ch) =>
           /\ ch \in Live /\ Expects'[ch] = Expects[ch]
           /\ gw'[ch].state = "open" => /\ gw[ch].state = "open" /\ gw'[ch].sseq = gw[ch].sseq
                                       /\ gw'[ch].pending = gw[ch].pending
  PROVE  TelegramsInOrder'
<1>1. PICK k \in Nat : \A i \in Tels' : /\ i \in Nat /\ i + k \in Tels
                                       /\ toClient'[i] = toClient[i + k]
  BY DEF TelsKept
<1>2. ASSUME NEW ch \in Live', NEW i \in Tels', toClient'[i].channel = ch
      PROVE  /\ toClient'[i].seq \in {Expects'[ch], Dec(Expects'[ch])}
             /\ toClient'[i].seq = Expects'[ch] =>
                  /\ toClient'[i].payload \notin Handed'
                  /\ gw'[ch].state = "open" => /\ gw'[ch].pending = toClient'[i].payload
                                              /\ gw'[ch].sseq = Expects'[ch]
                  /\ \A j \in Tels' : j > i /\ toClient'[j].channel = ch
                       => /\ toClient'[j].seq = toClient'[i].seq
                          /\ toClient'[j].payload = toClient'[i].payload
  <2>1. /\ i \in Nat /\ i + k \in Tels /\ toClient'[i] = toClient[i + k]
        /\ ch \in Live /\ Expects'[ch] = Expects[ch]
    BY <1>1, <1>2
  <2>2. /\ toClient[i + k].seq \in {Expects[ch], Dec(Expects[ch])}
        /\ toClient[i + k].seq = Expects[ch] =>
             /\ toClient[i + k].payload \notin Handed
             /\ gw[ch].state = "open" => /\ gw[ch].pending = toClient[i + k].payload
                                        /\ gw[ch].sseq = Expects[ch]
             /\ \A j \in Tels : j > i + k /\ toClient[j].channel = ch
                  => toClient[j].seq = toClient[i + k].seq /\ toClient[j].payload = toClient[i + k].payload
    BY <1>2, <2>1 DEF TelegramsInOrder
  <2>3. gw'[ch].state = "open" => /\ gw[ch].state = "open" /\ gw'[ch].sseq = gw[ch].sseq
                                  /\ gw'[ch].pending = gw[ch].pending
    BY <1>2
  <2>4. ASSUME NEW j \in Tels', j > i
        PROVE  j + k \in Tels /\ j + k > i + k /\ toClient'[j] = toClient[j + k]
    <3>1. j \in Nat /\ j + k \in Tels /\ toClient'[j] = toClient[j + k]
      BY <1>1
    <3>2. i \in Nat /\ k \in Nat
      BY <2>1
    <3>3. j + k > i + k
      BY <2>4, <3>1, <3>2
    <3> QED
      BY <3>1, <3>3
  <2> QED
    BY <2>1, <2>2, <2>3, <2>4
<1> QED
  BY <1>2 DEF TelegramsInOrder

(* The gateway and the client.                                             *)
LEMMA StepKept ==
  ASSUME InStep, GwKept, LiveKept, HandedKept
  PROVE  InStep'
<1>1. SUFFICES ASSUME NEW ch \in Live', gw'[ch].state = "open"
               PROVE  \/ gw'[ch].sseq = Expects'[ch] /\ gw'[ch].pending \notin Handed'
                      \/ gw'[ch].sseq = Dec(Expects'[ch]) /\ gw'[ch].pending \in Handed'
  BY DEF InStep
<1>2. ch \in Live /\ ch \in Channels /\ Expects'[ch] = Expects[ch] /\ Handed' = Handed
  BY <1>1 DEF LiveKept, HandedKept, Live
<1>3. gw[ch].state = "open" /\ gw'[ch].sseq = gw[ch].sseq /\ gw'[ch].pending = gw[ch].pending
  BY <1>1, <1>2 DEF GwKept
<1> QED
  BY <1>2, <1>3 DEF InStep

(* The acknowledgements.                                                   *)
LEMMA AcksOrderKept ==
  ASSUME AcksInOrder, AcksKept, HandedKept,
         \A ch \in Channels :
            gw'[ch].state = "open" /\ (\E i \in Acks' : toGateway'[i].channel = ch) =>
              /\ gw[ch].state = "open" /\ gw'[ch].sseq = gw[ch].sseq
              /\ gw'[ch].pending = gw[ch].pending
  PROVE  AcksInOrder'
<1>1. PICK k \in Nat : \A i \in Acks' : /\ i \in Nat /\ i + k \in Acks
                                       /\ toGateway'[i] = toGateway[i + k]
  BY DEF AcksKept
<1>2. ASSUME NEW ch \in Channels, NEW i \in Acks', toGateway'[i].channel = ch, gw'[ch].state = "open"
      PROVE  /\ toGateway'[i].seq \in {gw'[ch].sseq, Dec(gw'[ch].sseq)}
             /\ toGateway'[i].seq = gw'[ch].sseq =>
                  /\ gw'[ch].pending # NoTelegram /\ (Ended' \/ gw'[ch].pending \in Handed')
                  /\ \A j \in Acks' : j > i /\ toGateway'[j].channel = ch
                       => toGateway'[j].seq = toGateway'[i].seq
  <2>1. i \in Nat /\ i + k \in Acks /\ toGateway'[i] = toGateway[i + k]
    BY <1>1
  <2>2. /\ gw[ch].state = "open" /\ gw'[ch].sseq = gw[ch].sseq
        /\ gw'[ch].pending = gw[ch].pending
    BY <1>2
  <2>3. /\ toGateway[i + k].seq \in {gw[ch].sseq, Dec(gw[ch].sseq)}
        /\ toGateway[i + k].seq = gw[ch].sseq =>
             /\ gw[ch].pending # NoTelegram /\ (Ended \/ gw[ch].pending \in Handed)
             /\ \A j \in Acks : j > i + k /\ toGateway[j].channel = ch
                  => toGateway[j].seq = toGateway[i + k].seq
    BY <1>2, <2>1, <2>2 DEF AcksInOrder
  <2>4. ASSUME NEW j \in Acks', j > i
        PROVE  j + k \in Acks /\ j + k > i + k /\ toGateway'[j] = toGateway[j + k]
    <3>1. j \in Nat /\ j + k \in Acks /\ toGateway'[j] = toGateway[j + k]
      BY <1>1
    <3>2. i \in Nat /\ k \in Nat
      BY <2>1
    <3>3. j + k > i + k
      BY <2>4, <3>1, <3>2
    <3> QED
      BY <3>1, <3>3
  <2>5. Ended \/ gw[ch].pending \in Handed => Ended' \/ gw[ch].pending \in Handed'
    BY DEF HandedKept
  <2> QED
    BY <2>1, <2>2, <2>3, <2>4, <2>5
<1> QED
  BY <1>2 DEF AcksInOrder

(* A channel that stays is still no offer, and opened.                     *)
LEMMA ChannelStays ==
  ASSUME OfferedOnce, Opened, OffersKept, UNCHANGED channel,
         \A ch \in Channels : gw'[ch].state = "unused" => gw[ch].state = "unused"
  PROVE  ChannelKept
BY DEF OfferedOnce, Opened, OffersKept, ChannelKept

(* All of them.                                                            *)
LEMMA InboundMoves ==
  ASSUME InboundInv, GatewayTypeOK, toClient' \in Seq(GatewayFrames),
         toGateway' \in Seq(ClientFrames), ChannelKept, UNCHANGED nextTel,
         TelsKept, OffersKept, AcksKept, GwKept, HandedKept, LiveKept
  PROVE  InboundInv'
<1>1. PendingKept
  BY DEF GwKept, PendingKept
<1>2. OfferedOnce' /\ OneOwner' /\ InStep'
  BY <1>1, OfferedKept, OwnerKept, StepKept DEF InboundInv
<1>5. AcksInOrder'
  BY AcksOrderKept DEF InboundInv, GwKept
<1>6. TelegramsInOrder'
  BY OrderKept DEF InboundInv, GwKept, LiveKept, Live, HandedKept
<1>3. Opened'
  BY OpenedKept DEF InboundInv, GwKept
<1>4. Numbered'
  BY <1>1, NumberedKept DEF InboundInv, HandedKept, GatewayTypeOK
<1> QED
  BY <1>2, <1>3, <1>4, <1>5, <1>6 DEF InboundInv

(* The same while the client keeps its channel.                            *)
LEMMA InboundKept ==
  ASSUME InboundInv, GatewayTypeOK, toClient' \in Seq(GatewayFrames),
         toGateway' \in Seq(ClientFrames), UNCHANGED <<channel, nextTel>>,
         TelsKept, OffersKept, AcksKept, GwKept, HandedKept, LiveKept
  PROVE  InboundInv'
<1>1. ChannelKept
  BY ChannelStays DEF InboundInv, GwKept
<1> QED
  BY <1>1, InboundMoves
-----------------------------------------------------------------------------
(* The same for the calls: none begins to wait ...                         *)
CallsKept ==
  \A c \in Calls :
     /\ pc'[c] = "await" => pc[c] = "await"
     /\ pc'[c] \in {"new", "locking"} => pc[c] \in {"new", "locking"}
     /\ req'[c] = req[c]

(* ... and the gateway counts no request on an open connection.            *)
CountsKept ==
  \A ch \in Channels :
     /\ gw'[ch].state = "unused" => gw[ch].state = "unused"
     /\ gw'[ch].state = "open" /\ gw[ch].state # "unused"
          => gw[ch].state = "open" /\ gw'[ch].rseq = gw[ch].rseq

(* The payload of a request is a call.                                     *)
LEMMA ReqPayload ==
  ASSUME toGateway \in Seq(ClientFrames)
  PROVE  \A i \in Reqs : toGateway[i].payload \in Calls
BY FrameFields DEF Reqs

(* The requests on their way are those of their calls.                     *)
LEMMA RequestedKept ==
  ASSUME Requested, ReqsKept, CallsKept
  PROVE  Requested'
BY DEF Requested, ReqsKept, CallsKept

(* The requests of a call are on their way together.                       *)
LEMMA BlocksKept ==
  ASSUME Blocks, ReqsKept, CallsKept, toGateway \in Seq(ClientFrames)
  PROVE  Blocks'
<1>1. PICK n \in Nat : \A i \in Reqs' : /\ i \in Nat /\ i + n \in Reqs
                                       /\ toGateway'[i] = toGateway[i + n]
  BY DEF ReqsKept
<1>2. \A i, j \in Reqs' : i < j => i + n < j + n
  <2> SUFFICES ASSUME NEW i \in Reqs', NEW j \in Reqs', i < j PROVE i + n < j + n
    OBVIOUS
  <2>1. i \in Nat /\ j \in Nat
    BY <1>1
  <2> QED
    BY <2>1
<1>3. \A i \in Reqs' : toGateway'[i].payload \in Calls
  BY <1>1, ReqPayload
<1>4. \A i, j \in Reqs' : i < j /\ pc'[toGateway'[i].payload] = "await"
        => toGateway'[j].payload = toGateway'[i].payload
  BY <1>1, <1>2, <1>3 DEF Blocks, CallsKept
<1>5. \A i, j, k \in Reqs' : i < j /\ j < k /\ toGateway'[i].payload = toGateway'[k].payload
        => toGateway'[j].payload = toGateway'[i].payload
  BY <1>1, <1>2 DEF Blocks
<1> QED
  BY <1>4, <1>5 DEF Blocks

(* An accepted call is not accepted again.                                 *)
LEMMA AcceptedKept ==
  ASSUME AcceptedBehind, ReqsKept, CallsKept, CountsKept, UNCHANGED accepted,
         accepted \in Seq(Calls)
  PROVE  AcceptedBehind'
<1>1. PICK n \in Nat : \A i \in Reqs' : /\ i \in Nat /\ i + n \in Reqs
                                       /\ toGateway'[i] = toGateway[i + n]
  BY DEF ReqsKept
<1>2. \A i, j \in Reqs' : i < j => i + n < j + n
  <2> SUFFICES ASSUME NEW i \in Reqs', NEW j \in Reqs', i < j PROVE i + n < j + n
    OBVIOUS
  <2>1. i \in Nat /\ j \in Nat
    BY <1>1
  <2> QED
    BY <2>1
<1>3. ASSUME NEW c \in ToSet(accepted)
      PROVE  /\ pc'[c] \notin {"new", "locking"}
             /\ req'[c].channel \in Channels /\ gw'[req'[c].channel].state # "unused"
             /\ \A i, j \in Reqs' : toGateway'[i].payload = c /\ j < i => toGateway'[j].payload = c
             /\ pc'[c] = "await" => \A i \in Reqs' : toGateway'[i].payload = c
             /\ /\ gw'[req'[c].channel].state = "open"
                /\ pc'[c] = "await" \/ \E i \in Reqs' : toGateway'[i].payload = c
                => gw'[req'[c].channel].rseq # req'[c].seq
  <2>1. c \in Calls
    BY DEF ToSet
  <2>2. /\ pc[c] \notin {"new", "locking"}
        /\ req[c].channel \in Channels /\ gw[req[c].channel].state # "unused"
        /\ \A i, j \in Reqs : toGateway[i].payload = c /\ j < i => toGateway[j].payload = c
        /\ pc[c] = "await" => \A i \in Reqs : toGateway[i].payload = c
    BY DEF AcceptedBehind
  <2>3. /\ gw[req[c].channel].state = "open"
        /\ pc[c] = "await" \/ \E i \in Reqs : toGateway[i].payload = c
        => gw[req[c].channel].rseq # req[c].seq
    BY DEF AcceptedBehind
  <2>4. req'[c] = req[c] /\ (pc'[c] = "await" => pc[c] = "await") /\ pc'[c] \notin {"new", "locking"}
    BY <2>1, <2>2 DEF CallsKept
  <2>5. /\ gw'[req[c].channel].state # "unused"
        /\ gw'[req[c].channel].state = "open" => /\ gw[req[c].channel].state = "open"
                                                /\ gw'[req[c].channel].rseq = gw[req[c].channel].rseq
    BY <2>2 DEF CountsKept
  <2>6. \A i, j \in Reqs' : toGateway'[i].payload = c /\ j < i => toGateway'[j].payload = c
    BY <1>1, <1>2, <2>2
  <2>7. pc'[c] = "await" => \A i \in Reqs' : toGateway'[i].payload = c
    BY <1>1, <2>2, <2>4
  <2>8. (\E i \in Reqs' : toGateway'[i].payload = c) => \E i \in Reqs : toGateway[i].payload = c
    BY <1>1
  <2> QED
    BY <2>2, <2>3, <2>4, <2>5, <2>6, <2>7, <2>8
<1> QED
  BY <1>3 DEF AcceptedBehind

(* All of them.                                                            *)
LEMMA OutboundKept ==
  ASSUME OutboundInv, ReqsKept, CallsKept, CountsKept, UNCHANGED accepted,
         accepted \in Seq(Calls), toGateway \in Seq(ClientFrames)
  PROVE  OutboundInv'
BY RequestedKept, BlocksKept, AcceptedKept DEF OutboundInv
-----------------------------------------------------------------------------
(* The call c, the only one that may wait, sends its request, for the      *)
(* first time or again.                                                    *)
LEMMA RequestSent ==
  ASSUME OutboundInv, toGateway \in Seq(ClientFrames), accepted \in Seq(Calls),
         NEW c \in Calls, NEW f \in ClientFrames, f.type = "TunnelReq", f.payload = c, Sent(f),
         UNCHANGED <<accepted, gw>>,
         \A d \in Calls : d # c => pc'[d] = pc[d] /\ req'[d] = req[d] /\ pc[d] # "await",
         req'[c].channel = f.channel, req'[c].seq = f.seq, pc'[c] \notin {"new", "locking"},
         pc[c] = "locking" \/ (pc[c] = "await" /\ req'[c] = req[c])
  PROVE  OutboundInv'
<1> DEFINE n == Len(toGateway) + 1
<1>1. /\ n \in Nat
      /\ \A i \in Reqs : i \in Nat /\ i < n /\ toGateway'[i] = toGateway[i] /\ i \in Reqs'
      /\ \A i \in Reqs' : i \in Reqs \/ (i = n /\ toGateway'[i] = f)
  <2>1. CASE toGateway' = Append(toGateway, f)
    BY <2>1, AppendAt DEF Reqs
  <2>2. CASE UNCHANGED toGateway
    <3>1. Reqs' = Reqs
      BY <2>2 DEF Reqs
    <3>2. \A i \in Reqs : i \in Nat /\ i < n
      BY DEF Reqs
    <3> QED
      BY <2>2, <3>1, <3>2
  <2> QED
    BY <2>1, <2>2 DEF Sent
<1> HIDE DEF n
<1>2. \A i \in Reqs : toGateway[i].payload \in Calls
  BY ReqPayload
<1>3. ToSet(accepted) \subseteq Calls
  BY DEF ToSet
<1>4. pc[c] = "locking" => c \notin ToSet(accepted) /\ \A i \in Reqs : toGateway[i].payload # c
  BY <1>2 DEF OutboundInv, Requested, AcceptedBehind
<1>5. pc[c] = "await" => \A i, j \in Reqs : toGateway[i].payload = c /\ i < j => toGateway[j].payload = c
  BY DEF OutboundInv, Blocks
<1>6. Requested'
  <2> SUFFICES ASSUME NEW i \in Reqs', NEW d \in Calls, toGateway'[i].payload = d
               PROVE  /\ pc'[d] \notin {"new", "locking"}
                      /\ req'[d].channel = toGateway'[i].channel /\ req'[d].seq = toGateway'[i].seq
    BY DEF Requested
  <2>1. CASE i \in Reqs
    <3>1. /\ toGateway'[i] = toGateway[i] /\ pc[d] \notin {"new", "locking"}
          /\ req[d].channel = toGateway[i].channel /\ req[d].seq = toGateway[i].seq
      BY <1>1, <2>1 DEF OutboundInv, Requested
    <3> QED
      BY <3>1, <1>4, <2>1
  <2>2. CASE toGateway'[i] = f
    BY <2>2
  <2> QED
    BY <1>1, <2>1, <2>2
<1>7. Blocks'
  <2>1. ASSUME NEW i \in Reqs', NEW j \in Reqs', i < j, pc'[toGateway'[i].payload] = "await"
        PROVE  toGateway'[j].payload = toGateway'[i].payload
    <3>1. i \in Reqs /\ toGateway'[i] = toGateway[i]
      BY <1>1, <2>1
    <3>2. toGateway[i].payload = c /\ pc[c] = "await"
      BY <1>2, <1>4, <2>1, <3>1
    <3> QED
      BY <1>1, <1>5, <2>1, <3>1, <3>2
  <2>2. ASSUME NEW i \in Reqs', NEW j \in Reqs', NEW k \in Reqs', i < j, j < k,
               toGateway'[i].payload = toGateway'[k].payload
        PROVE  toGateway'[j].payload = toGateway'[i].payload
    <3>1. /\ i \in Reqs /\ toGateway'[i] = toGateway[i]
          /\ j \in Reqs /\ toGateway'[j] = toGateway[j]
      <4>1. i \in Nat /\ j \in Nat /\ k \in Nat /\ k <= n
        BY <1>1
      <4>2. i # n /\ j # n
        BY <1>1, <2>2, <4>1
      <4> QED
        BY <1>1, <4>2
    <3>2. CASE k \in Reqs
      BY <1>1, <2>2, <3>1, <3>2 DEF OutboundInv, Blocks
    <3>3. CASE toGateway'[k] = f
      BY <1>4, <1>5, <2>2, <3>1, <3>3
    <3> QED
      BY <1>1, <3>2, <3>3
  <2> QED
    BY <2>1, <2>2 DEF Blocks
<1>8. ASSUME NEW d \in ToSet(accepted)
      PROVE  /\ pc'[d] \notin {"new", "locking"}
             /\ req'[d].channel \in Channels /\ gw'[req'[d].channel].state # "unused"
             /\ \A i, j \in Reqs' : toGateway'[i].payload = d /\ j < i => toGateway'[j].payload = d
             /\ pc'[d] = "await" => \A i \in Reqs' : toGateway'[i].payload = d
             /\ /\ gw'[req'[d].channel].state = "open"
                /\ pc'[d] = "await" \/ \E i \in Reqs' : toGateway'[i].payload = d
                => gw'[req'[d].channel].rseq # req'[d].seq
  <2>1. d \in Calls /\ (d = c => pc[c] = "await" /\ req'[c] = req[c])
    BY <1>3, <1>4
  <2>2. req'[d] = req[d]
    BY <2>1
  <2>3. /\ pc[d] \notin {"new", "locking"}
        /\ req[d].channel \in Channels /\ gw[req[d].channel].state # "unused"
        /\ \A i, j \in Reqs : toGateway[i].payload = d /\ j < i => toGateway[j].payload = d
        /\ pc[d] = "await" => \A i \in Reqs : toGateway[i].payload = d
    BY DEF OutboundInv, AcceptedBehind
  <2>4. /\ gw[req[d].channel].state = "open"
        /\ pc[d] = "await" \/ \E i \in Reqs : toGateway[i].payload = d
        => gw[req[d].channel].rseq # req[d].seq
    BY DEF OutboundInv, AcceptedBehind
  <2>5. CASE d = c
    <3>1. \A i \in Reqs' : toGateway'[i].payload = c
      BY <1>1, <2>1, <2>3, <2>5
    <3> QED
      BY <2>1, <2>2, <2>3, <2>4, <2>5, <3>1
  <2>6. CASE d # c
    <3>1. \A i \in Reqs' : toGateway'[i].payload = d => i \in Reqs /\ toGateway[i].payload = d
      BY <1>1, <2>6
    <3>2. \A i, j \in Reqs' : toGateway'[i].payload = d /\ j < i => toGateway'[j].payload = d
      <4> SUFFICES ASSUME NEW i \in Reqs', NEW j \in Reqs', toGateway'[i].payload = d, j < i
                   PROVE  toGateway'[j].payload = d
        OBVIOUS
      <4>1. i \in Reqs /\ toGateway[i].payload = d /\ i \in Nat /\ i < n
        BY <1>1, <3>1
      <4>2. j \in Reqs /\ toGateway'[j] = toGateway[j]
        BY <1>1, <4>1
      <4> QED
        BY <2>3, <4>1, <4>2
    <3>3. pc'[d] = pc[d] /\ pc[d] # "await"
      BY <2>1, <2>6
    <3> QED
      BY <2>2, <2>3, <2>4, <3>1, <3>2, <3>3
  <2> QED
    BY <2>5, <2>6
<1> QED
  BY <1>6, <1>7, <1>8 DEF OutboundInv, AcceptedBehind
(* A sequence with one more element.                                       *)
LEMMA AppendSet ==
  ASSUME NEW S, NEW s \in Seq(S), NEW x \in S
  PROVE  Append(s, x) \in Seq(S) /\ ToSet(Append(s, x)) = ToSet(s) \cup {x}
<1>1. /\ DOMAIN Append(s, x) = DOMAIN s \cup {Len(s) + 1}
      /\ Append(s, x)[Len(s) + 1] = x /\ \A i \in DOMAIN s : Append(s, x)[i] = s[i]
  OBVIOUS
<1> QED
  BY <1>1 DEF ToSet

(* The gateway accepts the request at the head of its queue, of a call it  *)
(* has not accepted before: no number it accepts is that of another        *)
(* request of an accepted call.                                            *)
LEMMA RequestAccepted ==
  ASSUME OutboundInv, toGateway \in Seq(ClientFrames), accepted \in Seq(Calls),
         gw \in [Channels -> [state : {"unused", "open", "closed"}, rseq : 0..SeqSpace-1,
                              sseq : 0..SeqSpace-1, pending : Telegrams \cup {NoTelegram}]],
         toGateway # <<>>, toGateway' = Tail(toGateway), UNCHANGED <<pc, req>>,
         NEW f, f = Head(toGateway), f.type = "TunnelReq", f.channel \in Channels,
         gw[f.channel].state = "open", f.seq = gw[f.channel].rseq,
         gw' = [gw EXCEPT ![f.channel].rseq = Inc(@)], accepted' = Append(accepted, f.payload)
  PROVE  f.payload \in Calls /\ f.payload \notin ToSet(accepted) /\ OutboundInv'
<1> DEFINE c == f.payload
<1>1. 1 \in Reqs /\ toGateway[1] = f /\ c \in Calls /\ f \in ClientFrames /\ f.seq \in 0..SeqSpace-1
  BY TailAt, FrameFields DEF Reqs
<1>2. \A i \in Reqs' : /\ i \in Nat /\ i > 0 /\ i + 1 \in Reqs /\ toGateway'[i] = toGateway[i + 1]
  BY TailAt DEF Reqs
<1>3. pc[c] \notin {"new", "locking"} /\ req[c].channel = f.channel /\ req[c].seq = f.seq
  <2>1. Requested /\ 1 \in Reqs /\ toGateway[1].payload = c /\ c \in Calls
    BY <1>1 DEF OutboundInv
  <2>2. /\ pc[c] \notin {"new", "locking"}
        /\ req[c].channel = toGateway[1].channel /\ req[c].seq = toGateway[1].seq
    BY <2>1 DEF Requested
  <2> QED
    BY <1>1, <2>2
<1>4. c \notin ToSet(accepted)
  BY <1>1, <1>3 DEF OutboundInv, AcceptedBehind
<1>5. /\ gw'[f.channel].state = "open" /\ gw'[f.channel].rseq = Inc(f.seq)
      /\ \A ch \in Channels : gw'[ch].state = gw[ch].state /\ (ch # f.channel => gw'[ch] = gw[ch])
  OBVIOUS
<1>6. ToSet(accepted') = ToSet(accepted) \cup {c} /\ ToSet(accepted) \subseteq Calls
  <2>1. ToSet(accepted) \subseteq Calls
    BY DEF ToSet
  <2> QED
    BY <1>1, <2>1, AppendSet
<1>7. ReqsKept /\ CallsKept
  BY GatewayTakes DEF CallsKept
<1>8. Requested' /\ Blocks'
  BY <1>7, RequestedKept, BlocksKept DEF OutboundInv
<1>9. Inc(f.seq) # f.seq
  BY <1>1, IncDec
<1> HIDE DEF c
<1>10. \A i, j \in Reqs' : j < i => 1 < j + 1 /\ j + 1 < i + 1
  <2> SUFFICES ASSUME NEW i \in Reqs', NEW j \in Reqs', j < i PROVE 1 < j + 1 /\ j + 1 < i + 1
    OBVIOUS
  <2>1. i \in Nat /\ j \in Nat /\ j > 0
    BY <1>2
  <2> QED
    BY <2>1
<1>11. \A i \in Reqs' : 1 < i + 1
  BY <1>2
<1>12. c = toGateway[1].payload
  BY <1>1 DEF c
<1>13. /\ \A i, j \in Reqs' : toGateway'[i].payload = c /\ j < i => toGateway'[j].payload = c
       /\ pc[c] = "await" => \A i \in Reqs' : toGateway'[i].payload = c
  <2>1. \A j, k \in Reqs : 1 < j /\ j < k /\ toGateway[k].payload = c => toGateway[j].payload = c
    BY <1>1, <1>12 DEF OutboundInv, Blocks
  <2>2. pc[c] = "await" => \A j \in Reqs : 1 < j => toGateway[j].payload = c
    BY <1>1, <1>12 DEF OutboundInv, Blocks
  <2>3. \A i, j \in Reqs' : toGateway'[i].payload = c /\ j < i => toGateway'[j].payload = c
    <3> SUFFICES ASSUME NEW i \in Reqs', NEW j \in Reqs', toGateway'[i].payload = c, j < i
                 PROVE  toGateway'[j].payload = c
      OBVIOUS
    <3>1. i + 1 \in Reqs /\ j + 1 \in Reqs /\ toGateway[i + 1].payload = c
      BY <1>2
    <3>2. 1 < j + 1 /\ j + 1 < i + 1
      BY <1>10
    <3>3. toGateway[j + 1].payload = c
      BY <2>1, <3>1, <3>2
    <3> QED
      BY <1>2, <3>3
  <2>4. pc[c] = "await" => \A i \in Reqs' : toGateway'[i].payload = c
    BY <1>2, <1>11, <2>2
  <2> QED
    BY <2>3, <2>4
<1>14. ASSUME NEW d \in ToSet(accepted)
       PROVE  /\ pc[d] \notin {"new", "locking"}
              /\ req[d].channel \in Channels /\ gw'[req[d].channel].state # "unused"
              /\ pc[d] # "await" /\ \A i \in Reqs' : toGateway'[i].payload # d
  <2>1. d # c
    BY <1>4
  <2>2. /\ pc[d] \notin {"new", "locking"}
        /\ req[d].channel \in Channels /\ gw[req[d].channel].state # "unused"
        /\ \A i, j \in Reqs : toGateway[i].payload = d /\ j < i => toGateway[j].payload = d
        /\ pc[d] = "await" => \A i \in Reqs : toGateway[i].payload = d
    BY DEF OutboundInv, AcceptedBehind
  <2>3. pc[d] # "await"
    BY <1>1, <1>12, <2>1, <2>2
  <2>4. \A i \in Reqs' : toGateway'[i].payload # d
    <3> SUFFICES ASSUME NEW i \in Reqs', toGateway'[i].payload = d PROVE FALSE
      OBVIOUS
    <3>1. i + 1 \in Reqs /\ toGateway[i + 1].payload = d /\ 1 < i + 1
      BY <1>2, <1>11
    <3>2. toGateway[1].payload = d
      BY <1>1, <2>2, <3>1
    <3> QED
      BY <1>12, <2>1, <3>2
  <2>5. gw'[req[d].channel].state # "unused"
    BY <1>5, <2>2
  <2> QED
    BY <2>2, <2>3, <2>4, <2>5
<1>15. ASSUME NEW d \in ToSet(accepted')
       PROVE  /\ pc'[d] \notin {"new", "locking"}
              /\ req'[d].channel \in Channels /\ gw'[req'[d].channel].state # "unused"
              /\ \A i, j \in Reqs' : toGateway'[i].payload = d /\ j < i => toGateway'[j].payload = d
              /\ pc'[d] = "await" => \A i \in Reqs' : toGateway'[i].payload = d
              /\ /\ gw'[req'[d].channel].state = "open"
                 /\ pc'[d] = "await" \/ \E i \in Reqs' : toGateway'[i].payload = d
                 => gw'[req'[d].channel].rseq # req'[d].seq
  <2>1. CASE d = c
    <3>1. pc' = pc /\ req' = req
      OBVIOUS
    <3>2. pc'[d] \notin {"new", "locking"} /\ req'[d].channel = f.channel /\ req'[d].seq = f.seq
      BY <2>1, <3>1, <1>3
    <3>3. /\ req'[d].channel \in Channels /\ gw'[req'[d].channel].state # "unused"
          /\ gw'[req'[d].channel].rseq # req'[d].seq
      BY <3>2, <1>5, <1>9
    <3>4. /\ \A i, j \in Reqs' : toGateway'[i].payload = d /\ j < i => toGateway'[j].payload = d
          /\ pc'[d] = "await" => \A i \in Reqs' : toGateway'[i].payload = d
      BY <2>1, <3>1, <1>13, Zenon
    <3> QED
      BY <3>2, <3>3, <3>4, Zenon
  <2>2. CASE d \in ToSet(accepted)
    <3>1. /\ pc[d] \notin {"new", "locking"} /\ req[d].channel \in Channels
          /\ gw'[req[d].channel].state # "unused"
          /\ pc[d] # "await" /\ \A i \in Reqs' : toGateway'[i].payload # d
      BY <2>2, <1>14
    <3>2. pc' = pc /\ req' = req
      OBVIOUS
    <3>3. pc'[d] \notin {"new", "locking"} /\ pc'[d] # "await"
      BY <3>1, <3>2
    <3>4. req'[d].channel \in Channels /\ gw'[req'[d].channel].state # "unused"
      BY <3>1, <3>2
    <3>5. \A i \in Reqs' : toGateway'[i].payload # d
      BY <3>1
    <3>6. \A i, j \in Reqs' : toGateway'[i].payload = d /\ j < i => toGateway'[j].payload = d
      BY <3>5, Zenon
    <3>7. ~\E i \in Reqs' : toGateway'[i].payload = d
      BY <3>5, Zenon
    <3> QED
      BY <3>3, <3>4, <3>6, <3>7, Zenon
  <2> QED
    BY <1>6, <2>1, <2>2
<1>16. AcceptedBehind'
  BY <1>15 DEF AcceptedBehind
<1> QED
  BY <1>1, <1>4, <1>8, <1>16 DEF OutboundInv, c
-----------------------------------------------------------------------------
(* What the client keeps to itself.                                        *)
LEMMA ClientSame ==
  ASSUME UNCHANGED <<channel, srv, recvSeq, pushers, delivered>>
  PROVE  /\ Expects' = Expects /\ Handed' = Handed /\ Ended' = Ended /\ HandedKept
         /\ OffersKept => LiveKept
<1>1. Expects' = Expects /\ Handed' = Handed /\ Ended' = Ended
  BY DEF Expects, Handed, Ended
<1> QED
  BY <1>1 DEF HandedKept, LiveKept, Live, OffersKept

(* Telegrams handed over are telegrams, and the expected number is one.    *)
LEMMA HandedType ==
  ASSUME TypeOK
  PROVE  /\ Handed \subseteq Telegrams
         /\ \A ch \in Channels : Expects[ch] \in 0..SeqSpace-1
<1>1. ToSet(delivered) \subseteq Telegrams
  BY DEF TypeOK, AppTypeOK, ToSet
<1>2. 0 \in 0..SeqSpace-1
  BY ConstAssumption
<1>3. \A ch \in Channels : Expects[ch] \in 0..SeqSpace-1
  BY <1>2 DEF TypeOK, ServerTypeOK, Expects
<1> QED
  BY <1>1, <1>3 DEF Handed, TypeOK, AppTypeOK

(* The gateway opens a connection on a channel that was never used: no     *)
(* frame about it is on its way.                                           *)
LEMMA ConnectionOpened ==
  ASSUME InboundInv, GatewayTypeOK, TypeOK, NEW ch \in Channels, gw[ch].state = "unused",
         gw' = [gw EXCEPT ![ch] = [Closed EXCEPT !.state = "open"]],
         Answers([type |-> "ConnRes", channel |-> ch, status |-> "ok"]), AcksKept,
         toGateway' \in Seq(ClientFrames),
         UNCHANGED <<channel, srv, recvSeq, pushers, delivered, nextTel>>
  PROVE  InboundInv' /\ toClient' \in Seq(GatewayFrames)
<1> DEFINE f == [type |-> "ConnRes", channel |-> ch, status |-> "ok"]
           n == Len(toClient) + 1
<1>1. f \in GatewayFrames
  BY DEF GatewayFrames
<1>2. toClient' \in Seq(GatewayFrames) /\ TelsKept
  BY <1>1, GatewayWrites DEF GatewayTypeOK
<1>3. /\ gw'[ch].state = "open" /\ gw'[ch].pending = NoTelegram /\ gw'[ch].sseq = 0
      /\ \A dh \in Channels : dh # ch => gw'[dh] = gw[dh]
  BY DEF GatewayTypeOK, Closed
<1>4. \A i \in Offers' : \/ i \in Offers /\ toClient'[i] = toClient[i]
                         \/ i = n /\ toClient'[i] = f
  <2>1. CASE toClient' = Append(toClient, f)
    <3>1. \A i \in DOMAIN toClient' : \/ i \in DOMAIN toClient /\ toClient'[i] = toClient[i]
                                      \/ i = n /\ toClient'[i] = f
      BY <1>1, <2>1, AppendAt DEF GatewayTypeOK
    <3> QED
      BY <3>1 DEF Offers
  <2>2. CASE UNCHANGED toClient
    <3>1. Offers' = Offers
      BY <2>2 DEF Offers
    <3> QED
      BY <2>2, <3>1
  <2> QED
    BY <2>1, <2>2 DEF Answers
<1>5. Expects' = Expects /\ Handed' = Handed /\ Ended' = Ended /\ HandedKept
  BY ClientSame
<1>6. /\ channel # ch
      /\ \A i \in Offers \cup Tels : toClient[i].channel # ch
      /\ \A i \in Acks : toGateway[i].channel # ch
  BY DEF InboundInv, Opened
<1> HIDE DEF n
<1>7. Live' \subseteq Live \cup {ch}
  BY <1>4, <1>5 DEF Live
<1>8. OfferedOnce'
  <2>1. ASSUME NEW i \in Offers', NEW j \in Offers', toClient'[i].channel = toClient'[j].channel
        PROVE  i = j
    <3>1. CASE i \in Offers /\ toClient'[i] = toClient[i] /\ j \in Offers /\ toClient'[j] = toClient[j]
      BY <2>1, <3>1 DEF InboundInv, OfferedOnce
    <3>2. CASE i \in Offers /\ toClient'[i] = toClient[i] /\ toClient'[j] = f
      BY <1>6, <2>1, <3>2
    <3>3. CASE toClient'[i] = f /\ j \in Offers /\ toClient'[j] = toClient[j]
      BY <1>6, <2>1, <3>3
    <3> QED
      BY <1>4, <3>1, <3>2, <3>3
  <2>2. ASSUME NEW i \in Offers' PROVE toClient'[i].channel # channel'
    <3>1. CASE i \in Offers /\ toClient'[i] = toClient[i]
      BY <3>1 DEF InboundInv, OfferedOnce
    <3>2. CASE toClient'[i] = f
      BY <1>6, <3>2
    <3> QED
      BY <1>4, <3>1, <3>2
  <2> QED
    BY <2>1, <2>2 DEF OfferedOnce
<1>9. \A dh \in Channels : gw'[dh].state = "unused" => gw[dh].state = "unused"
  BY <1>3
<1>10. Opened'
  <2>1. \A i \in Offers' : gw'[toClient'[i].channel].state # "unused"
    <3> SUFFICES ASSUME NEW i \in Offers' PROVE gw'[toClient'[i].channel].state # "unused"
      OBVIOUS
    <3>1. CASE i \in Offers /\ toClient'[i] = toClient[i]
      <4>1. toClient[i].channel \in Channels
        BY <3>1, FrameFields DEF Offers, GatewayTypeOK
      <4> QED
        BY <3>1, <4>1, <1>9 DEF InboundInv, Opened
    <3>2. CASE toClient'[i] = f
      BY <3>2, <1>3
    <3> QED
      BY <1>4, <3>1, <3>2
  <2>2. \A i \in Tels' : gw'[toClient'[i].channel].state # "unused"
    <3>1. \A i \in Tels' : toClient'[i].channel \in Channels
      BY <1>2, FrameFields DEF Tels
    <3>2. \A i \in Tels' : \E j \in Tels : toClient'[i] = toClient[j]
      BY <1>2 DEF TelsKept
    <3> QED
      BY <1>9, <3>1, <3>2 DEF InboundInv, Opened
  <2>3. \A i \in Acks' : gw'[toGateway'[i].channel].state # "unused"
    <3>1. \A i \in Acks' : toGateway'[i].channel \in Channels
      BY FrameFields DEF Acks
    <3>2. \A i \in Acks' : \E j \in Acks : toGateway'[i] = toGateway[j]
      BY DEF AcksKept
    <3> QED
      BY <1>9, <3>1, <3>2 DEF InboundInv, Opened
  <2>4. channel' \in Channels => gw'[channel'].state # "unused"
    BY <1>9 DEF InboundInv, Opened
  <2> QED
    BY <2>1, <2>2, <2>3, <2>4 DEF Opened
<1>11. OneOwner' /\ Numbered'
  <2>1. PendingKept
    BY <1>3 DEF PendingKept
  <2> QED
    BY <1>2, <1>5, <2>1, OwnerKept, NumberedKept DEF InboundInv, GatewayTypeOK
<1>12. TelegramsInOrder'
  <2>1. \A i \in Tels' : toClient'[i].channel # ch
    BY <1>2, <1>6 DEF TelsKept
  <2> QED
    BY <1>2, <1>3, <1>5, <1>7, <2>1, OrderKept DEF InboundInv, Live
<1>17. InStep'
  <2> SUFFICES ASSUME NEW dh \in Live', gw'[dh].state = "open"
               PROVE  \/ gw'[dh].sseq = Expects'[dh] /\ gw'[dh].pending \notin Handed'
                      \/ gw'[dh].sseq = Dec(Expects'[dh]) /\ gw'[dh].pending \in Handed'
    BY DEF InStep
  <2>1. CASE dh = ch
    <3>1. Expects[ch] = 0
      BY <1>6 DEF Expects
    <3>2. NoTelegram \notin Handed
      BY HandedType, TelegramNumbers
    <3> QED
      BY <1>3, <1>5, <2>1, <3>1, <3>2
  <2>2. CASE dh # ch
    BY <1>3, <1>5, <1>7, <2>2 DEF InboundInv, InStep, Live
  <2> QED
    BY <2>1, <2>2
<1>18. AcksInOrder'
  <2>1. \A i \in Acks' : toGateway'[i].channel # ch
    BY <1>6 DEF AcksKept
  <2> QED
    BY <1>3, <1>5, <2>1, AcksOrderKept DEF InboundInv
<1> QED
  BY <1>2, <1>8, <1>10, <1>11, <1>12, <1>17, <1>18 DEF InboundInv
(* The gateway sends the telegram p, again or for the first time: a new    *)
(* one is nowhere yet.                                                     *)
LEMMA TelegramSent ==
  ASSUME InboundInv, GatewayTypeOK, TypeOK, NEW ch \in Channels, NEW p \in Telegrams,
         gw[ch].state = "open", gw'[ch].pending = p,
         \A dh \in Channels : /\ gw'[dh].state = gw[dh].state /\ gw'[dh].sseq = gw[dh].sseq
                              /\ dh # ch => gw'[dh].pending = gw[dh].pending,
         \/ p = gw[ch].pending /\ UNCHANGED nextTel
         \/ gw[ch].pending = NoTelegram /\ p = nextTel /\ nextTel' = nextTel + 1,
         NEW f \in GatewayFrames, Answers(f),
         f.type = "TunnelReq", f.channel = ch, f.seq = gw[ch].sseq, f.payload = p,
         UNCHANGED <<channel, srv, recvSeq, pushers, delivered, toGateway>>
  PROVE  InboundInv' /\ toClient' \in Seq(GatewayFrames)
<1> DEFINE n == Len(toClient) + 1
<1>1. toClient' \in Seq(GatewayFrames) /\ OffersKept
  BY GatewayWrites DEF GatewayTypeOK
<1>2. AcksKept /\ toGateway' \in Seq(ClientFrames)
  BY QueueKept DEF TypeOK, NetTypeOK
<1>3. /\ \A i \in Tels : i \in Nat /\ i < n
      /\ \A i \in Tels' : \/ i \in Tels /\ toClient'[i] = toClient[i]
                          \/ i = n /\ toClient'[i] = f
  <2>1. CASE toClient' = Append(toClient, f)
    <3>1. /\ \A i \in DOMAIN toClient : i \in Nat /\ i < n
          /\ \A i \in DOMAIN toClient' : \/ i \in DOMAIN toClient /\ toClient'[i] = toClient[i]
                                         \/ i = n /\ toClient'[i] = f
      BY <2>1, AppendAt DEF GatewayTypeOK
    <3> QED
      BY <3>1 DEF Tels
  <2>2. CASE UNCHANGED toClient
    <3>1. Tels' = Tels
      BY <2>2 DEF Tels
    <3>2. \A i \in Tels : i \in Nat /\ i < n
      BY DEF Tels, GatewayTypeOK
    <3> QED
      BY <2>2, <3>1, <3>2
  <2> QED
    BY <2>1, <2>2 DEF Answers
<1>4. n \in Nat
  BY DEF GatewayTypeOK
<1> HIDE DEF n
<1>5. Expects' = Expects /\ Handed' = Handed /\ Ended' = Ended /\ HandedKept /\ LiveKept
  BY <1>1, ClientSame
<1>6. /\ p # NoTelegram /\ p \in Nat /\ NoTelegram \notin Handed
      /\ nextTel \in Nat /\ nextTel' \in Nat /\ nextTel <= nextTel'
  BY HandedType, TelegramNumbers DEF GatewayTypeOK
<1>7. \A i \in Tels : toClient[i].payload \in Telegrams /\ toClient[i].payload # NoTelegram
  BY FrameFields, TelegramNumbers DEF Tels, GatewayTypeOK
<1>8. \A dh \in Channels : gw[dh].pending \in Nat
  BY TelegramNumbers DEF GatewayTypeOK, NoTelegram
<1>9. \/ p = gw[ch].pending
      \/ /\ gw[ch].pending = NoTelegram /\ p \notin Handed
         /\ \A i \in Tels : toClient[i].payload # p
         /\ \A dh \in Channels : gw[dh].pending # p
  <2>1. CASE p = nextTel
    <3>1. p \notin Handed /\ (\A i \in Tels : toClient[i].payload # p)
      BY <2>1, <1>6 DEF InboundInv, Numbered
    <3>2. \A dh \in Channels : gw[dh].pending # p
      BY <2>1, <1>6 DEF InboundInv, Numbered
    <3> QED
      BY <2>1, <3>1, <3>2
  <2> QED
    BY <2>1
<1>10. OfferedOnce' /\ ChannelKept
  BY <1>1, OfferedKept, ChannelStays DEF InboundInv
<1>11. Opened'
  <2>1. \A i \in Tels' : gw'[toClient'[i].channel].state # "unused"
    <3> SUFFICES ASSUME NEW i \in Tels' PROVE gw'[toClient'[i].channel].state # "unused"
      OBVIOUS
    <3>1. CASE i \in Tels /\ toClient'[i] = toClient[i]
      <4>1. toClient[i].channel \in Channels
        BY <3>1, FrameFields DEF Tels, GatewayTypeOK
      <4> QED
        BY <3>1, <4>1 DEF InboundInv, Opened
    <3>2. CASE toClient'[i] = f
      BY <3>2
    <3> QED
      BY <1>3, <3>1, <3>2
  <2>2. \A i \in Offers' : gw'[toClient'[i].channel].state # "unused"
    <3>1. \A i \in Offers' : toClient'[i].channel \in Channels
      BY <1>1, FrameFields DEF Offers
    <3>2. \A i \in Offers' : \E j \in Offers : toClient'[i] = toClient[j]
      BY <1>1 DEF OffersKept
    <3> QED
      BY <3>1, <3>2 DEF InboundInv, Opened
  <2>3. \A i \in Acks' : gw'[toGateway'[i].channel].state # "unused"
    <3>1. \A i \in Acks' : toGateway'[i].channel \in Channels
      BY <1>2, FrameFields DEF Acks
    <3>2. \A i \in Acks' : \E j \in Acks : toGateway'[i] = toGateway[j]
      BY <1>2 DEF AcksKept
    <3> QED
      BY <3>1, <3>2 DEF InboundInv, Opened
  <2>4. channel' \in Channels => gw'[channel'].state # "unused"
    BY DEF InboundInv, Opened
  <2> QED
    BY <2>1, <2>2, <2>3, <2>4 DEF Opened
<1>12. OneOwner'
  <2>1. \A i \in Tels : toClient[i].payload = p => toClient[i].channel = ch
    BY <1>9 DEF InboundInv, OneOwner
  <2>2. \A dh \in Channels : gw[dh].pending = p => dh = ch
    BY <1>6, <1>9 DEF InboundInv, OneOwner
  <2>3. \A i, j \in Tels' : toClient'[i].payload = toClient'[j].payload
                              => toClient'[i].channel = toClient'[j].channel
    <3> SUFFICES ASSUME NEW i \in Tels', NEW j \in Tels', toClient'[i].payload = toClient'[j].payload
                 PROVE  toClient'[i].channel = toClient'[j].channel
      OBVIOUS
    <3>1. CASE i \in Tels /\ toClient'[i] = toClient[i] /\ j \in Tels /\ toClient'[j] = toClient[j]
      BY <3>1 DEF InboundInv, OneOwner
    <3>2. CASE i \in Tels /\ toClient'[i] = toClient[i] /\ toClient'[j] = f
      BY <2>1, <3>2
    <3>3. CASE toClient'[i] = f /\ j \in Tels /\ toClient'[j] = toClient[j]
      BY <2>1, <3>3
    <3>4. CASE toClient'[i] = f /\ toClient'[j] = f
      BY <3>4
    <3> QED
      BY <1>3, <3>1, <3>2, <3>3, <3>4
  <2>4. \A i \in Tels', dh \in Channels : gw'[dh].pending = toClient'[i].payload
                                            => toClient'[i].channel = dh
    <3> SUFFICES ASSUME NEW i \in Tels', NEW dh \in Channels, gw'[dh].pending = toClient'[i].payload
                 PROVE  toClient'[i].channel = dh
      OBVIOUS
    <3>1. CASE i \in Tels /\ toClient'[i] = toClient[i]
      BY <2>1, <3>1 DEF InboundInv, OneOwner
    <3>2. CASE toClient'[i] = f
      BY <2>2, <3>2
    <3> QED
      BY <1>3, <3>1, <3>2
  <2>5. \A dh, eh \in Channels : gw'[dh].pending = gw'[eh].pending /\ gw'[dh].pending # NoTelegram
                                   => dh = eh
    BY <2>2 DEF InboundInv, OneOwner
  <2> QED
    BY <2>3, <2>4, <2>5 DEF OneOwner
<1>13. Numbered'
  <2>1. p < nextTel'
    BY <1>6, <1>8 DEF InboundInv, Numbered
  <2>2. \A x \in Nat : x < nextTel => x < nextTel'
    BY <1>6
  <2>3. \A i \in Tels' : toClient'[i].payload < nextTel'
    <3>1. \A i \in Tels : toClient[i].payload \in Nat /\ toClient[i].payload < nextTel
      BY <1>7, TelegramNumbers DEF InboundInv, Numbered
    <3> QED
      BY <1>3, <2>1, <2>2, <3>1
  <2>4. \A dh \in Channels : gw'[dh].pending < nextTel'
    BY <1>8, <2>1, <2>2 DEF InboundInv, Numbered
  <2>5. \A t \in Handed' : t < nextTel'
    <3>1. \A t \in Handed : t \in Nat /\ t < nextTel
      BY HandedType, TelegramNumbers DEF InboundInv, Numbered
    <3> QED
      BY <1>5, <2>2, <3>1
  <2> QED
    BY <2>3, <2>4, <2>5 DEF Numbered
<1>14. ASSUME NEW dh \in Live
       PROVE  /\ \A i \in Tels : toClient[i].channel = dh =>
                   /\ toClient[i].seq \in {Expects[dh], Dec(Expects[dh])}
                   /\ toClient[i].seq = Expects[dh] =>
                        /\ toClient[i].payload \notin Handed
                        /\ gw[dh].state = "open" => /\ gw[dh].pending = toClient[i].payload
                                                   /\ gw[dh].sseq = Expects[dh]
                        /\ \A j \in Tels : j > i /\ toClient[j].channel = dh
                             => toClient[j].seq = toClient[i].seq /\ toClient[j].payload = toClient[i].payload
              /\ gw[dh].state = "open" =>
                   \/ gw[dh].sseq = Expects[dh] /\ gw[dh].pending \notin Handed
                   \/ gw[dh].sseq = Dec(Expects[dh]) /\ gw[dh].pending \in Handed
              /\ dh \in Channels /\ Dec(Expects[dh]) # Expects[dh]
  <2>1. dh \in Channels
    BY DEF Live
  <2> QED
    BY <2>1, HandedType, IncDec DEF InboundInv, TelegramsInOrder, InStep
<1>15. TelegramsInOrder'
  <2> SUFFICES ASSUME NEW dh \in Live', NEW i \in Tels', toClient'[i].channel = dh
               PROVE  /\ toClient'[i].seq \in {Expects'[dh], Dec(Expects'[dh])}
                      /\ toClient'[i].seq = Expects'[dh] =>
                           /\ toClient'[i].payload \notin Handed'
                           /\ gw'[dh].state = "open" => /\ gw'[dh].pending = toClient'[i].payload
                                                       /\ gw'[dh].sseq = Expects'[dh]
                           /\ \A j \in Tels' : j > i /\ toClient'[j].channel = dh
                                => /\ toClient'[j].seq = toClient'[i].seq
                                   /\ toClient'[j].payload = toClient'[i].payload
    BY DEF TelegramsInOrder
  <2>1. dh \in Live /\ dh \in Channels /\ Expects'[dh] = Expects[dh] /\ Handed' = Handed
    BY <1>5, <1>14 DEF LiveKept
  <2>2. CASE i \in Tels /\ toClient'[i] = toClient[i]
    <3>1. toClient[i].seq \in {Expects[dh], Dec(Expects[dh])}
      BY <1>14, <2>1, <2>2
    <3>2. ASSUME toClient[i].seq = Expects[dh]
          PROVE  /\ toClient[i].payload \notin Handed
                 /\ gw'[dh].state = "open" => /\ gw'[dh].pending = toClient[i].payload
                                             /\ gw'[dh].sseq = Expects[dh]
                 /\ \A j \in Tels' : j > i /\ toClient'[j].channel = dh
                      => toClient'[j].seq = toClient[i].seq /\ toClient'[j].payload = toClient[i].payload
      <4>1. /\ toClient[i].payload \notin Handed
            /\ gw[dh].state = "open" => /\ gw[dh].pending = toClient[i].payload
                                       /\ gw[dh].sseq = Expects[dh]
        BY <1>14, <2>1, <2>2, <3>2
      <4>2. \A j \in Tels : j > i /\ toClient[j].channel = dh
               => toClient[j].seq = toClient[i].seq /\ toClient[j].payload = toClient[i].payload
        BY <1>14, <2>1, <2>2, <3>2
      <4>3. dh = ch => p = gw[ch].pending /\ f.seq = toClient[i].seq /\ p = toClient[i].payload
        BY <1>7, <1>9, <2>2, <3>2, <4>1
      <4>4. \A j \in Tels' : j > i /\ toClient'[j].channel = dh
               => toClient'[j].seq = toClient[i].seq /\ toClient'[j].payload = toClient[i].payload
        BY <1>3, <4>2, <4>3
      <4>5. gw'[dh].state = "open" => /\ gw'[dh].pending = toClient[i].payload
                                      /\ gw'[dh].sseq = Expects[dh]
        BY <2>1, <4>1, <4>3
      <4> QED
        BY <4>1, <4>4, <4>5
    <3> QED
      BY <2>1, <2>2, <3>1, <3>2
  <2>3. CASE i = n /\ toClient'[i] = f
    <3>1. dh = ch
      BY <2>3
    <3>2. f.seq \in {Expects[dh], Dec(Expects[dh])}
      BY <1>14, <2>1, <3>1
    <3>3. f.seq = Expects[dh] => p \notin Handed
      <4>1. /\ \/ gw[ch].sseq = Expects[ch] /\ gw[ch].pending \notin Handed
               \/ gw[ch].sseq = Dec(Expects[ch]) /\ gw[ch].pending \in Handed
            /\ Dec(Expects[ch]) # Expects[ch]
        BY <1>14, <2>1, <3>1
      <4> QED
        BY <1>9, <3>1, <4>1
    <3>4. \A j \in Tels' : ~(j > i)
      <4>1. \A j \in Tels' : j \in Nat /\ j <= n
        BY <1>3, <1>4
      <4> QED
        BY <1>4, <2>3, <4>1
    <3> QED
      BY <2>1, <2>3, <3>1, <3>2, <3>3, <3>4
  <2> QED
    BY <1>3, <2>2, <2>3
<1>16. InStep'
  <2> SUFFICES ASSUME NEW dh \in Live', gw'[dh].state = "open"
               PROVE  \/ gw'[dh].sseq = Expects'[dh] /\ gw'[dh].pending \notin Handed'
                      \/ gw'[dh].sseq = Dec(Expects'[dh]) /\ gw'[dh].pending \in Handed'
    BY DEF InStep
  <2>1. dh \in Live /\ dh \in Channels /\ Expects'[dh] = Expects[dh] /\ Handed' = Handed
    BY <1>5, <1>14 DEF LiveKept
  <2>2. \/ gw[dh].sseq = Expects[dh] /\ gw[dh].pending \notin Handed
        \/ gw[dh].sseq = Dec(Expects[dh]) /\ gw[dh].pending \in Handed
    BY <1>14, <2>1
  <2> QED
    BY <1>6, <1>9, <2>1, <2>2
<1>17. AcksInOrder'
  <2> SUFFICES ASSUME NEW dh \in Channels, NEW i \in Acks', toGateway'[i].channel = dh,
                      gw'[dh].state = "open"
               PROVE  /\ toGateway'[i].seq \in {gw'[dh].sseq, Dec(gw'[dh].sseq)}
                      /\ toGateway'[i].seq = gw'[dh].sseq =>
                           /\ gw'[dh].pending # NoTelegram /\ (Ended' \/ gw'[dh].pending \in Handed')
                           /\ \A j \in Acks' : j > i /\ toGateway'[j].channel = dh
                                => toGateway'[j].seq = toGateway'[i].seq
    BY DEF AcksInOrder
  <2>1. Acks' = Acks
    BY DEF Acks
  <2>2. /\ toGateway[i].seq \in {gw[dh].sseq, Dec(gw[dh].sseq)}
        /\ toGateway[i].seq = gw[dh].sseq =>
             /\ gw[dh].pending # NoTelegram /\ (Ended \/ gw[dh].pending \in Handed)
             /\ \A j \in Acks : j > i /\ toGateway[j].channel = dh => toGateway[j].seq = toGateway[i].seq
    BY <2>1 DEF InboundInv, AcksInOrder
  <2>3. gw[dh].pending # NoTelegram => gw'[dh].pending = gw[dh].pending
    BY <1>9
  <2> QED
    BY <1>5, <2>1, <2>2, <2>3
<1> QED
  BY <1>1, <1>10, <1>11, <1>12, <1>13, <1>15, <1>16, <1>17 DEF InboundInv
(* An acknowledgement at the head of the queue leaves it.                  *)
LEMMA AckTaken ==
  ASSUME toGateway \in Seq(ClientFrames), toGateway # <<>>, toGateway' = Tail(toGateway),
         Head(toGateway).type = "TunnelRes"
  PROVE  /\ 1 \in Acks /\ toGateway[1] = Head(toGateway)
         /\ Head(toGateway).channel \in Channels /\ Head(toGateway).seq \in 0..SeqSpace-1
         /\ \A i \in Acks' : /\ i \in Nat /\ i + 1 > 1 /\ i + 1 \in Acks
                            /\ toGateway'[i] = toGateway[i + 1]
<1>1. /\ 1 \in Acks /\ toGateway[1] = Head(toGateway)
      /\ Head(toGateway).channel \in Channels /\ Head(toGateway).seq \in 0..SeqSpace-1
  BY TailAt, FrameFields DEF Acks
<1>2. \A i \in DOMAIN toGateway' : /\ i \in Nat /\ i > 0 /\ i + 1 \in DOMAIN toGateway
                                   /\ toGateway'[i] = toGateway[i + 1]
  BY TailAt
<1>3. \A i \in Nat : i > 0 => i + 1 > 1
  OBVIOUS
<1>4. \A i \in Acks' : /\ i \in Nat /\ i + 1 > 1 /\ i + 1 \in Acks
                      /\ toGateway'[i] = toGateway[i + 1]
  BY <1>2, <1>3 DEF Acks
<1> QED
  BY <1>1, <1>4

(* The gateway takes an acknowledgement of its pending telegram: the       *)
(* application has the telegram, and what else acknowledges it is late.    *)
LEMMA TelegramConfirmed ==
  ASSUME InboundInv, GatewayTypeOK, TypeOK, NEW f, NEW ch \in Channels,
         f.type = "TunnelRes", f.channel = ch, f.seq \in 0..SeqSpace-1,
         1 \in Acks, toGateway[1] = f, toGateway' \in Seq(ClientFrames), AcksKept,
         \A i \in Acks' : /\ i \in Nat /\ i + 1 > 1 /\ i + 1 \in Acks
                         /\ toGateway'[i] = toGateway[i + 1],
         gw[ch].state = "open", gw[ch].sseq = f.seq,
         gw'[ch].state = "open", gw'[ch].sseq = Inc(f.seq), gw'[ch].pending = NoTelegram,
         \A dh \in Channels : dh # ch => gw'[dh] = gw[dh],
         UNCHANGED <<channel, srv, recvSeq, pushers, delivered, toClient, nextTel>>
  PROVE  InboundInv' /\ (Ended \/ gw[ch].pending \in Handed)
<1>3. TelsKept /\ OffersKept
  BY QueueKept DEF GatewayTypeOK
<1>4. \A dh \in Channels : gw'[dh].state = gw[dh].state
  OBVIOUS
<1>5. /\ Ended \/ gw[ch].pending \in Handed
      /\ \A j \in Acks : j > 1 /\ toGateway[j].channel = ch => toGateway[j].seq = f.seq
  BY DEF InboundInv, AcksInOrder
<1>6. Expects' = Expects /\ Handed' = Handed /\ Ended' = Ended /\ HandedKept /\ LiveKept
  BY <1>3, ClientSame
<1>7. PendingKept
  BY <1>4 DEF PendingKept
<1>8. OfferedOnce' /\ Opened' /\ OneOwner' /\ Numbered'
  <2>1. ChannelKept
    BY <1>3, <1>4, ChannelStays DEF InboundInv
  <2>2. OfferedOnce' /\ OneOwner'
    BY <1>3, <1>7, <2>1, OfferedKept, OwnerKept DEF InboundInv, GatewayTypeOK
  <2>3. Opened'
    BY <1>3, <1>4, <2>1, OpenedKept DEF InboundInv, GatewayTypeOK
  <2>4. Numbered'
    BY <1>3, <1>6, <1>7, NumberedKept DEF InboundInv, GatewayTypeOK
  <2> QED
    BY <2>2, <2>3, <2>4
<1>9. Inc(f.seq) # f.seq /\ Dec(Inc(f.seq)) = f.seq
  BY IncDec
<1>11. \A dh \in Live' : dh \in Live /\ dh \in Channels /\ Expects'[dh] = Expects[dh]
  BY <1>6 DEF LiveKept, Live
<1>12. ch \in Live => gw[ch].pending \in Handed
  BY <1>5 DEF Live
<1>13. TelegramsInOrder'
  <2>1. Tels' = Tels
    BY DEF Tels
  <2>2. ASSUME NEW dh \in Live', NEW i \in Tels', toClient'[i].channel = dh
        PROVE  /\ toClient'[i].seq \in {Expects'[dh], Dec(Expects'[dh])}
               /\ toClient'[i].seq = Expects'[dh] =>
                    /\ toClient'[i].payload \notin Handed'
                    /\ gw'[dh].state = "open" => /\ gw'[dh].pending = toClient'[i].payload
                                                /\ gw'[dh].sseq = Expects'[dh]
                    /\ \A j \in Tels' : j > i /\ toClient'[j].channel = dh
                         => /\ toClient'[j].seq = toClient'[i].seq
                            /\ toClient'[j].payload = toClient'[i].payload
    <3>1. /\ toClient[i].seq \in {Expects[dh], Dec(Expects[dh])}
          /\ toClient[i].seq = Expects[dh] =>
               /\ toClient[i].payload \notin Handed
               /\ gw[dh].state = "open" => /\ gw[dh].pending = toClient[i].payload
                                          /\ gw[dh].sseq = Expects[dh]
               /\ \A j \in Tels : j > i /\ toClient[j].channel = dh
                    => toClient[j].seq = toClient[i].seq /\ toClient[j].payload = toClient[i].payload
      BY <1>11, <2>1, <2>2 DEF InboundInv, TelegramsInOrder
    <3>2. dh # ch => gw'[dh] = gw[dh]
      BY <1>4, <1>11
    <3>3. dh = ch => toClient[i].seq # Expects[dh]
      BY <1>11, <1>12, <3>1
    <3>4. dh \in Channels /\ Expects'[dh] = Expects[dh]
      BY <1>11
    <3> QED
      BY <1>6, <2>1, <3>1, <3>2, <3>3, <3>4
  <2> QED
    BY <2>2 DEF TelegramsInOrder
<1>14. InStep'
  <2> SUFFICES ASSUME NEW dh \in Live', gw'[dh].state = "open"
               PROVE  \/ gw'[dh].sseq = Expects'[dh] /\ gw'[dh].pending \notin Handed'
                      \/ gw'[dh].sseq = Dec(Expects'[dh]) /\ gw'[dh].pending \in Handed'
    BY DEF InStep
  <2>1. CASE dh = ch
    <3>1. f.seq = Dec(Expects[ch])
      BY <1>11, <1>12, <2>1 DEF InboundInv, InStep
    <3>2. Inc(f.seq) = Expects[ch]
      BY <1>11, <2>1, <3>1, HandedType, IncDec
    <3>3. NoTelegram \notin Handed
      BY HandedType, TelegramNumbers
    <3> QED
      BY <1>4, <1>6, <2>1, <3>2, <3>3
  <2>2. CASE dh # ch
    <3>1. dh \in Live /\ gw'[dh] = gw[dh] /\ Expects'[dh] = Expects[dh]
      BY <1>4, <1>11, <2>2
    <3>2. \/ gw[dh].sseq = Expects[dh] /\ gw[dh].pending \notin Handed
          \/ gw[dh].sseq = Dec(Expects[dh]) /\ gw[dh].pending \in Handed
      BY <3>1 DEF InboundInv, InStep
    <3> QED
      BY <1>6, <3>1, <3>2
  <2> QED
    BY <2>1, <2>2
<1>15. AcksInOrder'
  <2> SUFFICES ASSUME NEW dh \in Channels, NEW i \in Acks', toGateway'[i].channel = dh,
                      gw'[dh].state = "open"
               PROVE  /\ toGateway'[i].seq \in {gw'[dh].sseq, Dec(gw'[dh].sseq)}
                      /\ toGateway'[i].seq = gw'[dh].sseq =>
                           /\ gw'[dh].pending # NoTelegram /\ (Ended' \/ gw'[dh].pending \in Handed')
                           /\ \A j \in Acks' : j > i /\ toGateway'[j].channel = dh
                                => toGateway'[j].seq = toGateway'[i].seq
    BY DEF AcksInOrder
  <2>1. i \in Nat /\ i + 1 \in Acks /\ toGateway'[i] = toGateway[i + 1] /\ i + 1 > 1
    OBVIOUS
  <2>2. CASE dh = ch
    <3>1. toGateway'[i].seq = f.seq
      BY <1>5, <2>1, <2>2
    <3> QED
      BY <1>4, <1>9, <2>2, <3>1
  <2>3. CASE dh # ch
    <3>1. gw'[dh] = gw[dh]
      BY <1>4, <2>3
    <3>2. /\ toGateway[i + 1].seq \in {gw[dh].sseq, Dec(gw[dh].sseq)}
          /\ toGateway[i + 1].seq = gw[dh].sseq =>
               /\ gw[dh].pending # NoTelegram /\ (Ended \/ gw[dh].pending \in Handed)
               /\ \A j \in Acks : j > i + 1 /\ toGateway[j].channel = dh
                    => toGateway[j].seq = toGateway[i + 1].seq
      BY <2>1, <3>1 DEF InboundInv, AcksInOrder
    <3>3. ASSUME NEW j \in Acks', j > i
          PROVE  j + 1 \in Acks /\ j + 1 > i + 1 /\ toGateway'[j] = toGateway[j + 1]
      <4>1. j \in Nat /\ j + 1 \in Acks /\ toGateway'[j] = toGateway[j + 1]
        OBVIOUS
      <4>2. j + 1 > i + 1
        BY <2>1, <3>3, <4>1
      <4> QED
        BY <4>1, <4>2
    <3>4. toGateway'[i].seq = gw'[dh].sseq =>
            \A j \in Acks' : j > i /\ toGateway'[j].channel = dh => toGateway'[j].seq = toGateway'[i].seq
      BY <2>1, <3>1, <3>2, <3>3
    <3> QED
      BY <1>6, <2>1, <3>1, <3>2, <3>4
  <2> QED
    BY <2>2, <2>3
<1> QED
  BY <1>5, <1>8, <1>13, <1>14, <1>15 DEF InboundInv
-----------------------------------------------------------------------------
(* The client writes the acknowledgement a for the connection ch, which    *)
(* fits what the gateway waits for.                                        *)
LEMMA AckSent ==
  ASSUME Opened, AcksInOrder, toGateway \in Seq(ClientFrames), NEW ch \in Channels,
         NEW a \in ClientFrames, a.type = "TunnelRes", a.channel = ch,
         Sent(a) \/ UNCHANGED toGateway,
         UNCHANGED gw, Handed \subseteq Handed', UNCHANGED Ended, gw[ch].state # "unused",
         gw[ch].state = "open" =>
            /\ a.seq \in {gw[ch].sseq, Dec(gw[ch].sseq)}
            /\ a.seq = gw[ch].sseq => gw[ch].pending # NoTelegram /\ gw[ch].pending \in Handed'
            /\ (\E i \in Acks : toGateway[i].channel = ch /\ toGateway[i].seq = gw[ch].sseq)
                  => a.seq = gw[ch].sseq
  PROVE  /\ toGateway' \in Seq(ClientFrames) /\ ReqsKept /\ AcksInOrder'
         /\ \A i \in Acks' : gw'[toGateway'[i].channel].state # "unused"
<1> DEFINE n == Len(toGateway) + 1
<1>1. toGateway' \in Seq(ClientFrames) /\ ReqsKept
  BY ClientWrites, QueueKept
<1>2. /\ n \in Nat
      /\ \A i \in Acks : i \in Nat /\ i < n
      /\ \A i \in Acks' : \/ i \in Acks /\ toGateway'[i] = toGateway[i]
                          \/ i = n /\ toGateway'[i] = a
  <2>1. CASE toGateway' = Append(toGateway, a)
    <3>1. /\ \A i \in DOMAIN toGateway : i \in Nat /\ i < n
          /\ \A i \in DOMAIN toGateway' : \/ i \in DOMAIN toGateway /\ toGateway'[i] = toGateway[i]
                                          \/ i = n /\ toGateway'[i] = a
      BY <2>1, AppendAt
    <3> QED
      BY <3>1 DEF Acks
  <2>2. CASE UNCHANGED toGateway
    <3>1. Acks' = Acks
      BY <2>2 DEF Acks
    <3>2. \A i \in Acks : i \in Nat /\ i < n
      BY DEF Acks
    <3> QED
      BY <2>2, <3>1, <3>2
  <2> QED
    BY <2>1, <2>2 DEF Sent
<1> HIDE DEF n
<1>3. ASSUME NEW dh \in Channels, NEW i \in Acks', toGateway'[i].channel = dh, gw'[dh].state = "open"
      PROVE  /\ toGateway'[i].seq \in {gw'[dh].sseq, Dec(gw'[dh].sseq)}
             /\ toGateway'[i].seq = gw'[dh].sseq =>
                  /\ gw'[dh].pending # NoTelegram /\ (Ended' \/ gw'[dh].pending \in Handed')
                  /\ \A j \in Acks' : j > i /\ toGateway'[j].channel = dh
                       => toGateway'[j].seq = toGateway'[i].seq
  <2>1. CASE i \in Acks /\ toGateway'[i] = toGateway[i]
    <3>1. /\ toGateway[i].seq \in {gw[dh].sseq, Dec(gw[dh].sseq)}
          /\ toGateway[i].seq = gw[dh].sseq =>
               /\ gw[dh].pending # NoTelegram /\ (Ended \/ gw[dh].pending \in Handed)
               /\ \A j \in Acks : j > i /\ toGateway[j].channel = dh
                    => toGateway[j].seq = toGateway[i].seq
      BY <1>3, <2>1 DEF AcksInOrder
    <3>2. dh = ch /\ toGateway[i].seq = gw[dh].sseq => a.seq = gw[dh].sseq
      BY <1>3, <2>1
    <3>3. toGateway[i].seq = gw[dh].sseq =>
            \A j \in Acks' : j > i /\ toGateway'[j].channel = dh
              => toGateway'[j].seq = toGateway[i].seq
      BY <1>2, <3>1, <3>2
    <3> QED
      BY <1>3, <2>1, <3>1, <3>3
  <2>2. CASE i = n /\ toGateway'[i] = a
    <3>1. \A j \in Acks' : j \in Nat /\ j <= n
      BY <1>2
    <3>2. \A j \in Acks' : ~(j > i)
      BY <1>2, <2>2, <3>1
    <3> QED
      BY <1>3, <2>2, <3>2
  <2> QED
    BY <1>2, <2>1, <2>2
<1>4. \A i \in Acks' : gw'[toGateway'[i].channel].state # "unused"
  <2>1. \A i \in Acks : gw'[toGateway[i].channel].state # "unused"
    BY DEF Opened
  <2> QED
    BY <1>2, <2>1
<1>5. AcksInOrder'
  BY <1>3 DEF AcksInOrder
<1> QED
  BY <1>1, <1>4, <1>5

(* A telegram at the head of the queue leaves it.                          *)
LEMMA TelTaken ==
  ASSUME toClient \in Seq(GatewayFrames), toClient # <<>>, toClient' = Tail(toClient),
         Head(toClient).type = "TunnelReq"
  PROVE  /\ 1 \in Tels /\ toClient[1] = Head(toClient)
         /\ Head(toClient).channel \in Channels /\ Head(toClient).seq \in 0..SeqSpace-1
         /\ Head(toClient).payload \in Telegrams
         /\ \A i \in Tels' : /\ i \in Nat /\ i + 1 > 1 /\ i + 1 \in Tels
                             /\ toClient'[i] = toClient[i + 1]
<1>1. /\ 1 \in Tels /\ toClient[1] = Head(toClient)
      /\ Head(toClient).channel \in Channels /\ Head(toClient).seq \in 0..SeqSpace-1
      /\ Head(toClient).payload \in Telegrams
  BY TailAt, FrameFields DEF Tels
<1>2. \A i \in DOMAIN toClient' : /\ i \in Nat /\ i > 0 /\ i + 1 \in DOMAIN toClient
                                  /\ toClient'[i] = toClient[i + 1]
  BY TailAt
<1>3. \A i \in Nat : i > 0 => i + 1 > 1
  OBVIOUS
<1>4. \A i \in Tels' : /\ i \in Nat /\ i + 1 > 1 /\ i + 1 \in Tels
                       /\ toClient'[i] = toClient[i + 1]
  BY <1>2, <1>3 DEF Tels
<1> QED
  BY <1>1, <1>4

(* pushInbound hands a telegram over.                                      *)
LEMMA PushHanded ==
  ASSUME AppTypeOK, NEW p \in Telegrams, PushInbound(p)
  PROVE  Handed' = Handed \cup {p}
<1>1. CASE delivered' = Append(delivered, p) /\ UNCHANGED pushers
  BY <1>1, AppendSet DEF AppTypeOK, Handed
<1>2. CASE pushers' = BagAdd(pushers, p) /\ UNCHANGED delivered
  BY <1>2, BagAddSet DEF Handed
<1> QED
  BY <1>1, <1>2 DEF PushInbound
(* The client takes the telegram it expects: the gateway, if it still has  *)
(* the connection, waits for its acknowledgement, and the application has  *)
(* not got it before.                                                      *)
LEMMA TelegramTaken ==
  ASSUME InboundInv, GatewayTypeOK, TypeOK, NEW m, NEW ch \in Channels,
         channel = ch, srv = "process", m.channel = ch, m.seq = recvSeq,
         1 \in Tels, toClient[1] = m, toClient' \in Seq(GatewayFrames), TelsKept, OffersKept,
         \A i \in Tels' : /\ i \in Nat /\ i + 1 > 1 /\ i + 1 \in Tels
                         /\ toClient'[i] = toClient[i + 1],
         recvSeq' = Inc(recvSeq), Handed' = Handed \cup {m.payload},
         NEW a \in ClientFrames, a.type = "TunnelRes", a.channel = ch, a.seq = m.seq,
         Sent(a) \/ UNCHANGED toGateway, UNCHANGED <<channel, srv, gw, nextTel>>
  PROVE  /\ InboundInv' /\ toGateway' \in Seq(ClientFrames) /\ ReqsKept
         /\ m.payload \notin Handed
<1>1. /\ ~Ended /\ ~Ended' /\ ch \in Live /\ Expects[ch] = recvSeq /\ Expects'[ch] = Inc(recvSeq)
      /\ \A dh \in Channels : dh # ch => Expects'[dh] = Expects[dh]
  BY DEF Ended, Live, Expects
<1>2. \A dh \in Live' : dh \in Live /\ dh \in Channels
  BY <1>1 DEF Live, OffersKept
<1>3. /\ recvSeq \in 0..SeqSpace-1 /\ Inc(recvSeq) # recvSeq /\ Dec(Inc(recvSeq)) = recvSeq
      /\ Dec(recvSeq) # recvSeq
  BY IncDec DEF TypeOK, ServerTypeOK
<1>4. /\ m.payload \notin Handed
      /\ gw[ch].state = "open" => gw[ch].pending = m.payload /\ gw[ch].sseq = recvSeq
      /\ \A j \in Tels : j > 1 /\ toClient[j].channel = ch
           => toClient[j].seq = recvSeq /\ toClient[j].payload = m.payload
  BY <1>1 DEF InboundInv, TelegramsInOrder
<1>5. m.payload \in Telegrams /\ m.payload # NoTelegram
  BY FrameFields, TelegramNumbers DEF Tels, GatewayTypeOK
<1>6. PendingKept /\ (\A dh \in Channels : gw'[dh].state = "unused" => gw[dh].state = "unused")
  BY DEF PendingKept
<1>7. /\ toGateway' \in Seq(ClientFrames) /\ ReqsKept /\ AcksInOrder'
      /\ \A i \in Acks' : gw'[toGateway'[i].channel].state # "unused"
  <2>1. gw[ch].state = "open" =>
           /\ a.seq \in {gw[ch].sseq, Dec(gw[ch].sseq)}
           /\ a.seq = gw[ch].sseq => gw[ch].pending # NoTelegram /\ gw[ch].pending \in Handed'
           /\ (\E i \in Acks : toGateway[i].channel = ch /\ toGateway[i].seq = gw[ch].sseq)
                 => a.seq = gw[ch].sseq
    BY <1>4, <1>5
  <2>2. gw[ch].state # "unused" /\ Opened /\ AcksInOrder /\ toGateway \in Seq(ClientFrames)
    BY DEF InboundInv, Opened, TypeOK, NetTypeOK
  <2>3. UNCHANGED Ended /\ Handed \subseteq Handed'
    BY DEF Ended
  <2> QED
    BY <2>1, <2>2, <2>3, AckSent
<1>8. OfferedOnce' /\ ChannelKept /\ OneOwner'
  BY <1>6, OfferedKept, ChannelStays, OwnerKept DEF InboundInv
<1>9. Opened'
  <2>1. \A i \in Offers' \cup Tels' : \E j \in Offers \cup Tels : toClient'[i] = toClient[j]
    BY DEF OffersKept, TelsKept
  <2>2. \A i \in Offers' \cup Tels' : gw'[toClient'[i].channel].state # "unused"
    BY <2>1 DEF InboundInv, Opened
  <2> QED
    BY <1>7, <1>8, <2>2 DEF Opened, ChannelKept
<1>10. Numbered'
  <2>1. \A i \in Tels' : toClient'[i].payload < nextTel
    BY DEF InboundInv, Numbered, TelsKept
  <2>2. m.payload < nextTel
    BY DEF InboundInv, Numbered
  <2> QED
    BY <2>1, <2>2 DEF InboundInv, Numbered
<1>11. TelegramsInOrder'
  <2> SUFFICES ASSUME NEW dh \in Live', NEW i \in Tels', toClient'[i].channel = dh
               PROVE  /\ toClient'[i].seq \in {Expects'[dh], Dec(Expects'[dh])}
                      /\ toClient'[i].seq = Expects'[dh] =>
                           /\ toClient'[i].payload \notin Handed'
                           /\ gw'[dh].state = "open" => /\ gw'[dh].pending = toClient'[i].payload
                                                       /\ gw'[dh].sseq = Expects'[dh]
                           /\ \A j \in Tels' : j > i /\ toClient'[j].channel = dh
                                => /\ toClient'[j].seq = toClient'[i].seq
                                   /\ toClient'[j].payload = toClient'[i].payload
    BY DEF TelegramsInOrder
  <2>1. i \in Nat /\ i + 1 > 1 /\ i + 1 \in Tels /\ toClient'[i] = toClient[i + 1]
    OBVIOUS
  <2>2. dh \in Live /\ dh \in Channels
    BY <1>2
  <2>3. CASE dh = ch
    <3>1. toClient'[i].seq = recvSeq
      BY <1>4, <2>1, <2>3
    <3> QED
      BY <1>1, <1>3, <2>3, <3>1
  <2>4. CASE dh # ch
    <3>1. /\ toClient[i + 1].seq \in {Expects[dh], Dec(Expects[dh])}
          /\ toClient[i + 1].seq = Expects[dh] =>
               /\ toClient[i + 1].payload \notin Handed
               /\ gw[dh].state = "open" => /\ gw[dh].pending = toClient[i + 1].payload
                                          /\ gw[dh].sseq = Expects[dh]
               /\ \A j \in Tels : j > i + 1 /\ toClient[j].channel = dh
                    => /\ toClient[j].seq = toClient[i + 1].seq
                       /\ toClient[j].payload = toClient[i + 1].payload
      BY <2>1, <2>2 DEF InboundInv, TelegramsInOrder
    <3>2. toClient[i + 1].payload # m.payload
      BY <2>1, <2>4 DEF InboundInv, OneOwner
    <3>3. ASSUME NEW j \in Tels', j > i
          PROVE  j + 1 \in Tels /\ j + 1 > i + 1 /\ toClient'[j] = toClient[j + 1]
      <4>1. j \in Nat /\ j + 1 \in Tels /\ toClient'[j] = toClient[j + 1]
        OBVIOUS
      <4>2. j + 1 > i + 1
        BY <2>1, <3>3, <4>1
      <4> QED
        BY <4>1, <4>2
    <3>4. Expects'[dh] = Expects[dh]
      BY <1>1, <2>2, <2>4
    <3>5. toClient'[i].seq = Expects[dh] =>
            \A j \in Tels' : j > i /\ toClient'[j].channel = dh
              => toClient'[j].seq = toClient'[i].seq /\ toClient'[j].payload = toClient'[i].payload
      BY <2>1, <3>1, <3>3
    <3> QED
      BY <2>1, <3>1, <3>2, <3>4, <3>5
  <2> QED
    BY <2>3, <2>4
<1>12. InStep'
  <2> SUFFICES ASSUME NEW dh \in Live', gw'[dh].state = "open"
               PROVE  \/ gw'[dh].sseq = Expects'[dh] /\ gw'[dh].pending \notin Handed'
                      \/ gw'[dh].sseq = Dec(Expects'[dh]) /\ gw'[dh].pending \in Handed'
    BY DEF InStep
  <2>1. dh \in Live /\ dh \in Channels
    BY <1>2
  <2>2. CASE dh = ch
    BY <1>1, <1>3, <1>4, <2>2
  <2>3. CASE dh # ch
    <3>1. gw[dh].pending # m.payload
      BY <2>1, <2>3 DEF InboundInv, OneOwner
    <3>2. \/ gw[dh].sseq = Expects[dh] /\ gw[dh].pending \notin Handed
          \/ gw[dh].sseq = Dec(Expects[dh]) /\ gw[dh].pending \in Handed
      BY <2>1 DEF InboundInv, InStep
    <3>3. Expects'[dh] = Expects[dh]
      BY <1>1, <2>1, <2>3
    <3> QED
      BY <3>1, <3>2, <3>3
  <2> QED
    BY <2>2, <2>3
<1> QED
  BY <1>4, <1>7, <1>8, <1>9, <1>10, <1>11, <1>12 DEF InboundInv

(* The client acknowledges the telegram before the expected one again.     *)
LEMMA TelegramRepeated ==
  ASSUME InboundInv, GatewayTypeOK, TypeOK, NEW m, NEW ch \in Channels,
         channel = ch, srv = "process", m.channel = ch, m.seq = Dec(recvSeq),
         toClient' \in Seq(GatewayFrames), TelsKept, OffersKept,
         NEW a \in ClientFrames, a.type = "TunnelRes", a.channel = ch, a.seq = m.seq,
         Sent(a) \/ UNCHANGED toGateway,
         UNCHANGED <<channel, srv, recvSeq, pushers, delivered, gw, nextTel>>
  PROVE  InboundInv' /\ toGateway' \in Seq(ClientFrames) /\ ReqsKept
<1>1. ~Ended /\ ch \in Live /\ Expects[ch] = recvSeq
  BY DEF Ended, Live, Expects
<1>2. Expects' = Expects /\ Handed' = Handed /\ Ended' = Ended /\ HandedKept /\ LiveKept
  BY ClientSame
<1>3. recvSeq \in 0..SeqSpace-1 /\ Dec(recvSeq) # recvSeq
  BY IncDec DEF TypeOK, ServerTypeOK
<1>4. NoTelegram \notin Handed
  BY HandedType, TelegramNumbers
<1>5. GwKept /\ PendingKept
  BY DEF GwKept, PendingKept
<1>6. /\ toGateway' \in Seq(ClientFrames) /\ ReqsKept /\ AcksInOrder'
      /\ \A i \in Acks' : gw'[toGateway'[i].channel].state # "unused"
  <2>1. ASSUME gw[ch].state = "open"
        PROVE  /\ a.seq \in {gw[ch].sseq, Dec(gw[ch].sseq)}
               /\ a.seq = gw[ch].sseq => gw[ch].pending # NoTelegram /\ gw[ch].pending \in Handed'
               /\ (\E i \in Acks : toGateway[i].channel = ch /\ toGateway[i].seq = gw[ch].sseq)
                     => a.seq = gw[ch].sseq
    <3>1. \/ gw[ch].sseq = recvSeq /\ gw[ch].pending \notin Handed
          \/ gw[ch].sseq = Dec(recvSeq) /\ gw[ch].pending \in Handed
      BY <1>1, <2>1 DEF InboundInv, InStep
    <3>2. (\E i \in Acks : toGateway[i].channel = ch /\ toGateway[i].seq = gw[ch].sseq)
            => gw[ch].pending \in Handed
      BY <1>1, <2>1 DEF InboundInv, AcksInOrder
    <3> QED
      BY <1>2, <1>3, <1>4, <3>1, <3>2
  <2>2. gw[ch].state # "unused" /\ Opened /\ AcksInOrder /\ toGateway \in Seq(ClientFrames)
    BY DEF InboundInv, Opened, TypeOK, NetTypeOK
  <2> QED
    BY <1>2, <2>1, <2>2, AckSent
<1>7. OfferedOnce' /\ ChannelKept /\ OneOwner' /\ Numbered' /\ InStep'
  <2>1. ChannelKept
    BY <1>5, ChannelStays DEF InboundInv, GwKept
  <2>2. Handed' \subseteq Handed /\ nextTel \in Nat \ {0}
    BY <1>2 DEF GatewayTypeOK
  <2> QED
    BY <1>2, <1>5, <2>1, <2>2, OfferedKept, OwnerKept, NumberedKept, StepKept DEF InboundInv
<1>8. TelegramsInOrder'
  BY <1>2, OrderKept DEF InboundInv, LiveKept
<1>9. Opened'
  <2>1. \A i \in Offers' \cup Tels' : \E j \in Offers \cup Tels : toClient'[i] = toClient[j]
    BY DEF OffersKept, TelsKept
  <2>2. \A i \in Offers' \cup Tels' : gw'[toClient'[i].channel].state # "unused"
    BY <2>1 DEF InboundInv, Opened
  <2> QED
    BY <1>6, <1>7, <2>2 DEF Opened, ChannelKept
<1> QED
  BY <1>6, <1>7, <1>8, <1>9 DEF InboundInv
-----------------------------------------------------------------------------
(* Frames that are on their way for channels stay, and others join.        *)
FramesKept ==
  \A i \in DOMAIN toGateway' : \/ \E j \in DOMAIN toGateway : toGateway'[i] = toGateway[j]
                               \/ toGateway'[i].type = "ConnReq"
                               \/ toGateway'[i].channel \in Channels

(* Heartbeat workers ask for channels.                                     *)
BeatsKept ==
  \A w \in BagToSet(beats') : w.at = "wait" => w \in BagToSet(beats) \/ w.channel \in Channels

(* The channels the client writes to, while its connection stays.          *)
LEMMA ChannelledKept ==
  ASSUME Channelled, FramesKept, BeatsKept, CallsKept, UNCHANGED <<channel, epoch>>,
         srv' = "reset" => srv = "reset",
         \A c \in Calls : pc'[c] # "new" => pc[c] # "new" \/ epoch > 0
  PROVE  Channelled'
<1>1. \A i \in DOMAIN toGateway' : toGateway'[i].type # "ConnReq" => toGateway'[i].channel \in Channels
  BY DEF FramesKept, Channelled
<1>2. \A c \in Calls : pc'[c] = "await" => req'[c].channel \in Channels
  BY DEF CallsKept, Channelled
<1>3. \A w \in BagToSet(beats') : w.at = "wait" => w.channel \in Channels
  BY DEF BeatsKept, Channelled
<1> QED
  BY <1>1, <1>2, <1>3 DEF Channelled

(* The client writes the frame f, or fails to.                             *)
LEMMA FrameWritten ==
  ASSUME toGateway \in Seq(ClientFrames), NEW f \in ClientFrames,
         f.type = "ConnReq" \/ f.channel \in Channels, Sent(f) \/ UNCHANGED toGateway
  PROVE  FramesKept
<1>1. CASE toGateway' = Append(toGateway, f)
  <2>1. \A i \in DOMAIN toGateway' : \/ i \in DOMAIN toGateway /\ toGateway'[i] = toGateway[i]
                                     \/ toGateway'[i] = f
    BY <1>1, AppendAt
  <2> QED
    BY <2>1 DEF FramesKept
<1>2. CASE UNCHANGED toGateway
  BY <1>2 DEF FramesKept
<1> QED
  BY <1>1, <1>2 DEF Sent

(* The gateway takes a frame.                                              *)
LEMMA FramesTaken ==
  ASSUME toGateway \in Seq(ClientFrames), toGateway # <<>>, toGateway' = Tail(toGateway)
  PROVE  FramesKept
<1>1. \A i \in DOMAIN toGateway' : i + 1 \in DOMAIN toGateway /\ toGateway'[i] = toGateway[i + 1]
  BY TailAt
<1> QED
  BY <1>1 DEF FramesKept

(* A step that leaves the gateway's connections alone.                     *)
LEMMA GwSame == ASSUME UNCHANGED gw PROVE GwKept /\ CountsKept /\ PendingKept
BY DEF GwKept, CountsKept, PendingKept

(* A step that leaves the calls alone.                                     *)
LEMMA CallsSame == ASSUME UNCHANGED <<pc, req>> PROVE CallsKept
BY DEF CallsKept

(* A step that at most ends workers.                                       *)
LEMMA BeatsSame == ASSUME BagToSet(beats') \subseteq BagToSet(beats) PROVE BeatsKept
BY DEF BeatsKept

(* The server leaves its connection: the channel is not live any more.     *)
LEMMA ChannelLeft ==
  ASSUME OfferedOnce, OffersKept, UNCHANGED channel, srv' \notin {"reset", "process"},
         Ended => Ended'
  PROVE  LiveKept
<1>1. ASSUME NEW ch \in Live'
      PROVE  ch \in Live /\ Expects'[ch] = Expects[ch]
  <2>1. ch \in Channels /\ ~Ended /\ \E i \in Offers' : toClient'[i].channel = ch
    BY DEF Live
  <2>2. \E i \in Offers : toClient[i].channel = ch
    BY <2>1 DEF OffersKept
  <2>3. ch # channel
    BY <2>2 DEF OfferedOnce
  <2> QED
    BY <2>1, <2>2, <2>3 DEF Live, Expects
<1> QED
  BY <1>1 DEF LiveKept

(* What the server's moves keep that neither take a frame nor begin to use *)
(* a channel.                                                              *)
LEMMA ServerMoves ==
  ASSUME InboundInv, GatewayTypeOK, toClient' \in Seq(GatewayFrames),
         toGateway' \in Seq(ClientFrames), TelsKept, OffersKept, AcksKept,
         UNCHANGED <<channel, delivered, gw, nextTel>>, srv' \notin {"reset", "process"},
         Ended => Ended', UNCHANGED pushers \/ (pushers' = EmptyBag /\ Ended')
  PROVE  InboundInv'
<1>1. HandedKept
  <2>1. Handed' \subseteq Handed
    BY EmptyBagSet DEF Handed
  <2>2. UNCHANGED pushers => Handed' = Handed
    BY DEF Handed
  <2> QED
    BY <2>1, <2>2 DEF HandedKept
<1>2. LiveKept
  BY ChannelLeft DEF InboundInv
<1> QED
  BY <1>1, <1>2, GwSame, InboundKept

(* What all other steps keep that leave the server where it is.            *)
LEMMA ServerStays ==
  ASSUME InboundInv, GatewayTypeOK, toClient' \in Seq(GatewayFrames),
         toGateway' \in Seq(ClientFrames), TelsKept, OffersKept, AcksKept, GwKept,
         UNCHANGED <<channel, srv, recvSeq, pushers, delivered, nextTel>>
  PROVE  InboundInv'
BY ClientSame, InboundKept
-----------------------------------------------------------------------------
(* The steps of the client.  What each of them keeps:                      *)
Preserved == Channelled' /\ InboundInv' /\ OutboundInv'

(* At most a frame is written that is no request and no acknowledgement.   *)
WritesOther ==
  \/ UNCHANGED toGateway
  \/ \E f \in ClientFrames : /\ f.type \notin {"TunnelReq", "TunnelRes"}
                             /\ f.type = "ConnReq" \/ f.channel \in Channels
                             /\ Sent(f)

(* What that does to the queue.                                            *)
LEMMA OtherWritten ==
  ASSUME toGateway \in Seq(ClientFrames), WritesOther
  PROVE  toGateway' \in Seq(ClientFrames) /\ ReqsKept /\ AcksKept /\ FramesKept
<1>1. CASE UNCHANGED toGateway
  BY <1>1, QueueKept DEF FramesKept
<1>2. ASSUME NEW f \in ClientFrames, f.type \notin {"TunnelReq", "TunnelRes"},
             f.type = "ConnReq" \/ f.channel \in Channels, Sent(f)
      PROVE  toGateway' \in Seq(ClientFrames) /\ ReqsKept /\ AcksKept /\ FramesKept
  BY <1>2, ClientWrites, FrameWritten
<1> QED
  BY <1>1, <1>2 DEF WritesOther

(* The queues are sequences of frames, and the channel in use is one.      *)
LEMMA Queues ==
  ASSUME SystemInv
  PROVE  /\ toGateway \in Seq(ClientFrames) /\ toClient \in Seq(GatewayFrames)
         /\ accepted \in Seq(Calls) /\ TypeOK
         /\ epoch > 0 \/ srv \in {"reset", "process"} => channel \in Channels
BY DEF SystemInv, Inv, TypeOK, NetTypeOK, GatewayTypeOK, Channelled, Counted

(* The server moves on from where it is.                                   *)
LEMMA MovesPreserved ==
  ASSUME SystemInv, WritesOther, toClient' \in Seq(GatewayFrames), TelsKept, OffersKept,
         UNCHANGED <<channel, epoch, pc, req, delivered, gwVars>>,
         BagToSet(beats') \subseteq BagToSet(beats), srv' \notin {"reset", "process"},
         Ended => Ended', UNCHANGED pushers \/ (pushers' = EmptyBag /\ Ended')
  PROVE  Preserved
<1>1. toGateway' \in Seq(ClientFrames) /\ ReqsKept /\ AcksKept /\ FramesKept
  BY Queues, OtherWritten
<1>2. CallsKept /\ BeatsKept /\ CountsKept /\ UNCHANGED <<gw, accepted, nextTel>>
  BY CallsSame, BeatsSame, GwSame DEF gwVars
<1>3. InboundInv'
  BY <1>1, <1>2, ServerMoves DEF SystemInv
<1>4. OutboundInv'
  BY <1>1, <1>2, Queues, OutboundKept DEF SystemInv
<1>5. Channelled'
  BY <1>1, <1>2, ChannelledKept DEF SystemInv
<1> QED
  BY <1>3, <1>4, <1>5 DEF Preserved

(* The server stays, and no call begins to wait.                           *)
LEMMA StaysPreserved ==
  ASSUME SystemInv, WritesOther, toClient' \in Seq(GatewayFrames), TelsKept, OffersKept,
         UNCHANGED <<srvVars, pushers, delivered, gwVars>>, BeatsKept, CallsKept,
         \A c \in Calls : pc'[c] # "new" => pc[c] # "new" \/ epoch > 0
  PROVE  Preserved
<1>1. toGateway' \in Seq(ClientFrames) /\ ReqsKept /\ AcksKept /\ FramesKept
  BY Queues, OtherWritten
<1>2. /\ GwKept /\ CountsKept /\ UNCHANGED <<gw, accepted, nextTel>>
      /\ UNCHANGED <<channel, srv, epoch, recvSeq>>
  BY GwSame DEF gwVars, srvVars
<1>3. InboundInv'
  BY <1>1, <1>2, ServerStays DEF SystemInv
<1>4. OutboundInv'
  BY <1>1, <1>2, Queues, OutboundKept DEF SystemInv
<1>5. Channelled'
  BY <1>1, <1>2, ChannelledKept DEF SystemInv
<1> QED
  BY <1>3, <1>4, <1>5 DEF Preserved

(* Frames the client writes.                                               *)
LEMMA Writes ==
  /\ Sent([type |-> "ConnReq"]) => WritesOther
  /\ \A ch \in Channels : /\ Sent([type |-> "ConnStateReq", channel |-> ch]) => WritesOther
                          /\ Sent([type |-> "DiscReq", channel |-> ch]) => WritesOther
                          /\ Sent([type |-> "DiscRes", channel |-> ch]) => WritesOther
  /\ SendFails => WritesOther
  /\ UNCHANGED toGateway => WritesOther
<1>1. [type |-> "ConnReq"] \in ClientFrames
  BY DEF ClientFrames
<1>2. \A ch \in Channels : /\ [type |-> "ConnStateReq", channel |-> ch] \in ClientFrames
                           /\ [type |-> "DiscReq", channel |-> ch] \in ClientFrames
                           /\ [type |-> "DiscRes", channel |-> ch] \in ClientFrames
  BY DEF ClientFrames
<1>3. Sent([type |-> "ConnReq"]) => WritesOther
  <2> DEFINE f == [type |-> "ConnReq"]
  <2>1. f \in ClientFrames /\ f.type = "ConnReq"
    BY <1>1
  <2> HIDE DEF f
  <2>2. Sent(f) => WritesOther
    BY <2>1 DEF WritesOther
  <2> QED
    BY <2>2 DEF f
<1>4. ASSUME NEW ch \in Channels, NEW t \in {"ConnStateReq", "DiscReq", "DiscRes"}
      PROVE  Sent([type |-> t, channel |-> ch]) => WritesOther
  <2> DEFINE f == [type |-> t, channel |-> ch]
  <2>1. f \in ClientFrames /\ f.type \notin {"TunnelReq", "TunnelRes"} /\ f.channel = ch
    BY <1>2
  <2> HIDE DEF f
  <2>2. Sent(f) => WritesOther
    BY <2>1 DEF WritesOther
  <2> QED
    BY <2>2 DEF f
<1>5. (SendFails \/ UNCHANGED toGateway) => WritesOther
  BY DEF SendFails, WritesOther
<1> QED
  BY <1>3, <1>4, <1>5
-----------------------------------------------------------------------------
(* What the gateway sent stays on its way.                                 *)
Waits == UNCHANGED <<gwVars, toClient>>

(* Its queue stays as it is.                                               *)
LEMMA WaitsKept ==
  ASSUME SystemInv, Waits
  PROVE  toClient' \in Seq(GatewayFrames) /\ TelsKept /\ OffersKept
BY Queues, QueueKept DEF Waits

(* requestConn, until it is answered.                                      *)
LEMMA ConnectPreserved ==
  ASSUME SystemInv, Waits, Dial \/ ConnResend \/ ConnFails
  PROVE  Preserved
<1>1. /\ UNCHANGED <<channel, epoch, pc, req, beats, pushers, delivered>>
      /\ srv' \in {"connecting", "failed", "return"} /\ ~Ended
  BY DEF Dial, ConnResend, ConnFails, GiveUp, Ended, callVars, srvVars, beatVars, appVars
<1>2. WritesOther
  BY Writes DEF Dial, ConnResend, ConnFails
<1> QED
  BY <1>1, <1>2, WaitsKept, MovesPreserved DEF Waits

(* The number is reset and the connection used.                            *)
LEMMA ResetPreserved ==
  ASSUME SystemInv, Waits, ResetSeq
  PROVE  Preserved
<1>1. /\ UNCHANGED <<channel, pc, req, beats, pushers, delivered, toGateway>>
      /\ srv = "reset" /\ srv' = "process" /\ recvSeq' = 0 /\ epoch' = epoch + 1
  BY DEF ResetSeq, beatVars, appVars
<1>2. toGateway' \in Seq(ClientFrames) /\ ReqsKept /\ AcksKept
  BY <1>1, Queues, QueueKept
<1>3. LiveKept
  BY <1>1, WaitsKept DEF LiveKept, Live, Ended, Expects, OffersKept
<1>4. HandedKept
  BY <1>1 DEF HandedKept, Handed, Ended
<1>5. InboundInv'
  BY <1>1, <1>2, <1>3, <1>4, WaitsKept, GwSame, InboundKept DEF SystemInv, Waits, gwVars
<1>6. OutboundInv'
  BY <1>1, <1>2, Queues, CallsSame, GwSame, OutboundKept DEF SystemInv, Waits, gwVars
<1>7. Channelled'
  <2>1. channel \in Channels /\ epoch' > 0
    BY <1>1, Queues DEF TypeOK, ServerTypeOK
  <2> QED
    BY <1>1, <2>1 DEF SystemInv, Channelled
<1> QED
  BY <1>5, <1>6, <1>7 DEF Preserved

(* A call asks for seqMu.                                                  *)
LEMMA CallPreserved ==
  ASSUME SystemInv, Waits, NEW c \in Calls, Call(c)
  PROVE  Preserved
<1>1. /\ UNCHANGED <<req, srvVars, beats, pushers, delivered, toGateway>>
      /\ pc[c] = "new" /\ pc' = [pc EXCEPT ![c] = "locking"] /\ epoch > 0
  BY DEF Call, beatVars, appVars
<1>2. CallsKept
  BY <1>1, Queues DEF CallsKept, TypeOK, CallTypeOK
<1> QED
  BY <1>1, <1>2, WaitsKept, Writes, BeatsSame, StaysPreserved DEF Waits

(* A call returns.                                                         *)
LEMMA ReturnPreserved ==
  ASSUME SystemInv, NEW c \in Calls, NEW r \in Returned, Return(c, r),
         pc[c] \in Waiting, UNCHANGED req
  PROVE  /\ CallsKept
         /\ \A d \in Calls : pc'[d] # "new" => pc[d] # "new" \/ epoch > 0
<1>1. pc \in [Calls -> {"new"} \cup Waiting \cup Returned]
  BY Queues DEF TypeOK, CallTypeOK
<1>2. /\ \A d \in Calls : d # c => pc'[d] = pc[d]
      /\ pc'[c] = r /\ pc[c] \in {"locking", "await"}
      /\ r \notin {"new", "locking", "await"}
  BY <1>1 DEF Return, Waiting, Returned
<1> QED
  BY <1>2 DEF CallsKept

(* A call that waits returns or goes on waiting.                           *)
LEMMA WaitingPreserved ==
  ASSUME SystemInv, Waits, NEW c \in Calls, SendTimeout(c) \/ Acknowledged(c) \/ AckClosed(c)
  PROVE  Preserved
<1>1. /\ UNCHANGED <<req, srvVars, beats, pushers, delivered, toGateway>>
      /\ pc[c] \in Waiting /\ (UNCHANGED pc \/ \E r \in Returned : Return(c, r))
  BY DEF SendTimeout, Acknowledged, AckClosed, beatVars, appVars, Waiting, Returned
<1>2. /\ CallsKept
      /\ \A d \in Calls : pc'[d] # "new" => pc[d] # "new" \/ epoch > 0
  BY <1>1, CallsSame, ReturnPreserved
<1> QED
  BY <1>1, <1>2, WaitsKept, Writes, BeatsSame, StaysPreserved DEF Waits

(* A relay gives up, or a worker moves or joins.                           *)
LEMMA BeatsPreserved ==
  ASSUME SystemInv, Waits, AckExpires \/ Heartbeat \/ HeartbeatDue
  PROVE  Preserved
<1>1. /\ UNCHANGED <<pc, req, srvVars, pushers, delivered>>
  BY DEF AckExpires, Heartbeat, HeartbeatDue, callVars, appVars
<1>2. ASSUME NEW w \in BagToSet(beats)
      PROVE  channel \in Channels /\ (w.at = "wait" => w.channel \in Channels)
  <2>1. epoch > 0
    <3>1. w.epoch \in Nat /\ w.epoch > 0 /\ w.epoch <= epoch /\ epoch \in Nat
      BY ConstAssumption DEF SystemInv, Inv, TypeOK, BeatTypeOK, ServerTypeOK, BeatsOfConnections
    <3> QED
      BY <3>1
  <2> QED
    BY <2>1, Queues DEF SystemInv, Channelled
<1>3. ASSUME NEW w \in BagToSet(beats), NEW at \in {"wait", "report"}, NEW ch,
             BeatMoves(w, at, ch), at = "wait" => ch \in Channels
      PROVE  BeatsKept
  <2> DEFINE u == [w EXCEPT !.at = at, !.channel = ch]
  <2>1. BagToSet(beats') \subseteq BagToSet(beats) \cup {u}
    BY <1>3, BagAddSet, BagRemoveSet DEF BeatMoves
  <2>2. u.at = "wait" => u.channel \in Channels
    BY <1>3, Queues DEF TypeOK, BeatTypeOK
  <2> QED
    BY <2>1, <2>2 DEF BeatsKept
<1>4. WritesOther /\ BeatsKept
  <2>1. CASE AckExpires
    BY <2>1, Writes, BeatsSame DEF AckExpires, beatVars
  <2>2. ASSUME NEW w \in BagToSet(beats), BeatStart(w) PROVE WritesOther /\ BeatsKept
    BY <2>2, <1>2, <1>3, Writes DEF BeatStart
  <2>3. ASSUME NEW w \in BagToSet(beats), BeatResend(w) PROVE WritesOther /\ BeatsKept
    BY <2>3, <1>2, <1>3, Writes, BeatsSame DEF BeatResend
  <2>4. ASSUME NEW w \in BagToSet(beats), BeatFails(w) \/ BeatAnswered(w) \/ BeatEnds(w)
        PROVE  WritesOther /\ BeatsKept
    <3>1. UNCHANGED toGateway
      BY <2>4 DEF BeatFails, BeatAnswered, BeatEnds
    <3>2. beats' = BagRemove(beats, w) => BeatsKept
      BY BagRemoveSet, BeatsSame
    <3>3. \A ch : BeatMoves(w, "report", ch) => BeatsKept
      BY <1>3
    <3> QED
      BY <2>4, <3>1, <3>2, <3>3, Writes DEF BeatFails, BeatAnswered, BeatEnds
  <2>5. CASE BeatResExpires
    BY <2>5, Writes, BeatsSame DEF BeatResExpires
  <2>6. CASE HeartbeatDue
    <3>1. BagToSet(beats') = BagToSet(beats)
             \cup {[epoch |-> epoch, at |-> "start", channel |-> NoChannel]}
      BY <2>6, BagAddSet DEF HeartbeatDue
    <3> QED
      BY <2>6, <3>1, Writes DEF HeartbeatDue, BeatsKept
  <2> QED
    BY <2>1, <2>2, <2>3, <2>4, <2>5, <2>6 DEF Heartbeat
<1> QED
  BY <1>1, <1>4, WaitsKept, CallsSame, StaysPreserved DEF Waits

(* process and serve end, or a heartbeat has failed.                       *)
LEMMA EndsPreserved ==
  ASSUME SystemInv, Waits, ProcessDone \/ HeartbeatFailed \/ Serving
  PROVE  Preserved
<1>1. /\ UNCHANGED <<channel, epoch, pc, req, delivered, toGateway>>
      /\ srv' \in {"return", "dial", "unwaited", "inboundClosed", "exited"}
      /\ Ended => Ended'
      /\ UNCHANGED pushers \/ (pushers' = EmptyBag /\ Ended')
  BY DEF ProcessDone, HeartbeatFailed, Serving, WaitDone, CloseInbound, CloseAck, LeaveProcess,
         Ended, callVars, srvVars, beatVars, appVars
<1>2. BagToSet(beats') \subseteq BagToSet(beats)
  BY BagRemoveSet DEF ProcessDone, HeartbeatFailed, Serving, WaitDone, CloseInbound, CloseAck, beatVars
<1> QED
  BY <1>1, <1>2, WaitsKept, Writes, MovesPreserved DEF Waits

(* Close, and the end of the socket.                                       *)
LEMMA ClosePreserved ==
  ASSUME SystemInv, Waits, CloseRequest \/ Closing \/ SocketEnds
  PROVE  Preserved
<1>1. UNCHANGED <<pc, req, srvVars, beats, pushers, delivered>>
  BY DEF CloseRequest, Closing, CloseDone, CloseSocket, SocketEnds, callVars, beatVars, appVars
<1>2. WritesOther
  <2>1. CloseRequest => channel \in Channels
    BY Queues DEF CloseRequest
  <2> QED
    BY <2>1, Writes DEF CloseRequest, SentOrNot, Closing, CloseDone, CloseSocket, SocketEnds
<1> QED
  BY <1>1, <1>2, WaitsKept, BeatsSame, CallsSame, StaysPreserved DEF Waits

(* A call that has no rival writes its request.                            *)
LEMMA RequestPreserved ==
  ASSUME SystemInv, Waits, NEW c \in Calls, NEW f \in ClientFrames, f.type = "TunnelReq",
         f.payload = c, f.channel \in Channels, Sent(f), UNCHANGED <<srvVars, beats, pushers, delivered>>,
         \A d \in Calls : d # c => pc'[d] = pc[d] /\ req'[d] = req[d] /\ pc[d] # "await",
         req'[c].channel = f.channel, req'[c].seq = f.seq, pc'[c] \notin {"new", "locking"},
         pc[c] = "locking" \/ (pc[c] = "await" /\ req'[c] = req[c])
  PROVE  Preserved
<1>1. toGateway' \in Seq(ClientFrames) /\ AcksKept /\ FramesKept
  BY Queues, ClientWrites, FrameWritten
<1>2. UNCHANGED <<gw, accepted, nextTel, channel, srv, epoch, recvSeq>>
  BY DEF Waits, gwVars, srvVars
<1>3. InboundInv'
  BY <1>1, <1>2, WaitsKept, GwSame, ServerStays DEF SystemInv
<1>4. OutboundInv'
  BY <1>2, Queues, RequestSent DEF SystemInv
<1>5. Channelled'
  <2>1. \A i \in DOMAIN toGateway' : toGateway'[i].type # "ConnReq" => toGateway'[i].channel \in Channels
    BY <1>1 DEF FramesKept, SystemInv, Channelled
  <2>2. \A d \in Calls : pc'[d] = "await" => req'[d].channel \in Channels
    OBVIOUS
  <2>3. \A d \in Calls : pc'[d] # "new" => epoch > 0
    BY DEF SystemInv, Channelled
  <2> QED
    BY <1>2, <2>1, <2>2, <2>3 DEF SystemInv, Channelled
<1> QED
  BY <1>3, <1>4, <1>5 DEF Preserved

(* A call takes seqMu and writes its request.                              *)
LEMMA SendPreserved ==
  ASSUME SystemInv, ~UseTCP, Waits, NEW c \in Calls, Request(c)
  PROVE  Preserved
<1>1. /\ UNCHANGED <<srvVars, beats, pushers, delivered>>
      /\ pc[c] = "locking" /\ seqMu = NoOne
  BY DEF Request, beatVars, appVars
<1>2. CASE UNCHANGED toGateway /\ Return(c, "error") /\ UNCHANGED req
  <2>1. /\ CallsKept
        /\ \A d \in Calls : pc'[d] # "new" => pc[d] # "new" \/ epoch > 0
    BY <1>1, <1>2, ReturnPreserved DEF Waiting, Returned
  <2> QED
    BY <1>1, <1>2, <2>1, WaitsKept, Writes, BeatsSame, StaysPreserved DEF Waits
<1>3. CASE /\ Sent([type |-> "TunnelReq", channel |-> channel, seq |-> seqNumber, payload |-> c])
           /\ req' = [req EXCEPT ![c] = [channel |-> channel, seq |-> seqNumber]]
           /\ pc' = [pc EXCEPT ![c] = "await"]
  <2> DEFINE f == [type |-> "TunnelReq", channel |-> channel, seq |-> seqNumber, payload |-> c]
  <2>1. channel \in Channels
    BY <1>1, Queues DEF SystemInv, Channelled
  <2>2. seqNumber \in 0..SeqSpace-1
    BY Queues DEF TypeOK, CallTypeOK
  <2>3. /\ f \in ClientFrames /\ f.type = "TunnelReq" /\ f.payload = c
        /\ f.channel = channel /\ f.seq = seqNumber
    BY <2>1, <2>2 DEF ClientFrames
  <2>4. \A d \in Calls : pc[d] # "await"
    BY <1>1, ConstAssumption DEF SystemInv, Inv, SeqMuHeld
  <2>5. /\ \A d \in Calls : d # c => pc'[d] = pc[d] /\ req'[d] = req[d] /\ pc[d] # "await"
        /\ req'[c].channel = channel /\ req'[c].seq = seqNumber /\ pc'[c] = "await"
    BY <1>3, <2>4, Queues DEF TypeOK, CallTypeOK
  <2>6. Sent(f)
    BY <1>3
  <2> HIDE DEF f
  <2> QED
    BY <1>1, <2>1, <2>3, <2>5, <2>6, RequestPreserved
<1> QED
  BY <1>2, <1>3 DEF Request, SendFails

(* A call repeats its request.                                             *)
LEMMA ResendPreserved ==
  ASSUME SystemInv, Waits, NEW c \in Calls, Resend(c)
  PROVE  Preserved
<1>1. UNCHANGED <<req, srvVars, beats, pushers, delivered>> /\ pc[c] = "await"
  BY DEF Resend, beatVars, appVars
<1>2. CASE SendFails /\ Return(c, "error")
  <2>1. /\ CallsKept
        /\ \A d \in Calls : pc'[d] # "new" => pc[d] # "new" \/ epoch > 0
    BY <1>1, <1>2, ReturnPreserved DEF Waiting, Returned
  <2> QED
    BY <1>1, <1>2, <2>1, WaitsKept, Writes, BeatsSame, StaysPreserved DEF Waits
<1>3. CASE /\ Sent([type |-> "TunnelReq", channel |-> req[c].channel, seq |-> req[c].seq, payload |-> c])
           /\ UNCHANGED pc
  <2> DEFINE f == [type |-> "TunnelReq", channel |-> req[c].channel, seq |-> req[c].seq, payload |-> c]
  <2>1. req[c].channel \in Channels
    BY <1>1 DEF SystemInv, Channelled
  <2>2. req[c].seq \in 0..SeqSpace-1
    BY Queues DEF TypeOK, CallTypeOK
  <2>3. /\ f \in ClientFrames /\ f.type = "TunnelReq" /\ f.payload = c
        /\ f.channel = req[c].channel /\ f.seq = req[c].seq
    BY <2>1, <2>2 DEF ClientFrames
  <2>4. \A d \in Calls : d # c => pc[d] # "await"
    BY <1>1 DEF SystemInv, Inv, SeqMuHeld
  <2>5. Sent(f)
    BY <1>3
  <2> HIDE DEF f
  <2> QED
    BY <1>1, <1>3, <2>1, <2>3, <2>4, <2>5, RequestPreserved
<1> QED
  BY <1>2, <1>3 DEF Resend, RepeatedSeq

(* The application takes what is held for it.                              *)
LEMMA AppReceivePreserved ==
  ASSUME SystemInv, Waits, AppReceive
  PROVE  /\ Preserved
         /\ \E t \in BagToSet(pushers) : /\ t \in Telegrams /\ pushers' = BagRemove(pushers, t)
                                         /\ delivered' = Append(delivered, t)
<1>1. /\ UNCHANGED <<channel, srv, epoch, recvSeq, pc, req, beats, toGateway>>
      /\ UNCHANGED <<gw, accepted, nextTel>>
  BY DEF AppReceive, callVars, srvVars, beatVars, Waits, gwVars
<1>2. PICK t \in BagToSet(pushers) : /\ pushers' = BagRemove(pushers, t)
                                     /\ delivered' = Append(delivered, t)
  BY DEF AppReceive
<1>3. t \in Telegrams /\ delivered \in Seq(Telegrams)
  BY Queues DEF TypeOK, AppTypeOK
<1>4. Handed' = Handed
  <2>1. ToSet(delivered') = ToSet(delivered) \cup {t}
    BY <1>2, <1>3, AppendSet
  <2>2. BagToSet(pushers) \subseteq BagToSet(pushers') \cup {t}
    BY <1>2 DEF BagRemove, BagToSet
  <2>3. BagToSet(pushers') \subseteq BagToSet(pushers)
    BY <1>2, BagRemoveSet
  <2> QED
    BY <2>1, <2>2, <2>3 DEF Handed
<1>5. HandedKept /\ LiveKept
  BY <1>1, <1>4, WaitsKept DEF HandedKept, Ended, LiveKept, Live, Expects, OffersKept
<1>6. toGateway' \in Seq(ClientFrames) /\ ReqsKept /\ AcksKept /\ FramesKept
  BY <1>1, Queues, OtherWritten, Writes
<1>7. InboundInv'
  BY <1>1, <1>5, <1>6, WaitsKept, GwSame, InboundKept DEF SystemInv
<1>8. OutboundInv'
  BY <1>1, <1>6, Queues, CallsSame, GwSame, OutboundKept DEF SystemInv
<1>9. Channelled'
  BY <1>1, <1>6, CallsSame, BeatsSame, ChannelledKept DEF SystemInv
<1> QED
  BY <1>2, <1>3, <1>7, <1>8, <1>9 DEF Preserved
-----------------------------------------------------------------------------
(* The tunnel as it is meant to be used here: over UDP, where frames are   *)
(* acknowledged, with no transform that drops telegrams, and with a        *)
(* gateway that does not give a channel to a second connection.            *)
Plain == ~UseTCP /\ "transform" \notin Faults /\ ~ReuseChannels

(* What the application has not got before may be handed over.             *)
HandsOver(t) == ~Ended /\ t \notin Handed /\ PushInbound(t)

(* A frame reaches the client.                                             *)
Taken(m) ==
  /\ toClient # <<>> /\ m = Head(toClient) /\ toClient' = Tail(toClient)
  /\ UNCHANGED gwVars

(* Of the frames behind it none joins.                                     *)
LEMMA TakenKept ==
  ASSUME SystemInv, NEW m, Taken(m)
  PROVE  /\ m \in GatewayFrames /\ toClient' \in Seq(GatewayFrames) /\ TelsKept /\ OffersKept
         /\ UNCHANGED <<gw, accepted, nextTel, gwVars>>
<1>1. toClient \in Seq(GatewayFrames)
  BY Queues
<1>2. m \in GatewayFrames
  BY <1>1, TailAt DEF Taken
<1>3. toClient' \in Seq(GatewayFrames) /\ TelsKept /\ OffersKept
  BY <1>1, ClientTakes DEF Taken
<1> QED
  BY <1>2, <1>3 DEF Taken, gwVars

(* An answer to the connection request.                                    *)
LEMMA ConnReceivePreserved ==
  ASSUME SystemInv, NEW m, Taken(m), ConnReceive(m)
  PROVE  Preserved
<1>1. /\ UNCHANGED <<epoch, recvSeq, pc, req, beats, pushers, delivered, toGateway>>
      /\ srv = "connecting"
  BY DEF ConnReceive, callVars, beatVars, appVars
<1>2. CASE m.type = "ConnRes" /\ m.status = "ok"
  <2>1. channel' = m.channel /\ srv' = "reset"
    BY <1>2 DEF ConnReceive
  <2>2. 1 \in Offers /\ toClient[1] = m /\ m.channel \in Channels
    <3>1. 1 \in DOMAIN toClient /\ toClient[1] = m
      BY Queues, TailAt DEF Taken
    <3>2. m.channel \in Channels
      BY TakenKept, FrameFields
    <3> QED
      BY <1>2, <3>1, <3>2 DEF Offers
  <2>3. \A i \in Offers' : i + 1 \in Offers /\ i + 1 # 1 /\ toClient'[i] = toClient[i + 1]
    <3>1. \A i \in DOMAIN toClient' : /\ i \in Nat /\ i > 0 /\ i + 1 \in DOMAIN toClient
                                      /\ toClient'[i] = toClient[i + 1]
      BY Queues, TailAt DEF Taken
    <3>2. \A i \in Nat : i > 0 => i + 1 # 1
      OBVIOUS
    <3> QED
      BY <3>1, <3>2 DEF Offers
  <2>4. ChannelKept
    <3>1. \A i \in Offers' : toClient'[i].channel # m.channel
      BY <2>2, <2>3 DEF SystemInv, InboundInv, OfferedOnce
    <3>2. gw[m.channel].state # "unused"
      BY <2>2 DEF SystemInv, InboundInv, Opened
    <3> QED
      BY <2>1, <3>1, <3>2, TakenKept DEF ChannelKept
  <2>5. LiveKept
    <3>1. \A ch \in Live' : ch \in Live
      BY <1>1, <2>1, <2>2, <2>3 DEF Live, Ended
    <3>2. \A ch \in Channels : Expects'[ch] = 0 /\ Expects[ch] = 0
      BY <1>1, <2>1 DEF Expects
    <3> QED
      BY <3>1, <3>2 DEF LiveKept, Live
  <2>6. HandedKept
    BY <1>1, <2>1 DEF HandedKept, Handed, Ended
  <2>7. toGateway' \in Seq(ClientFrames) /\ ReqsKept /\ AcksKept /\ FramesKept
    BY <1>1, Queues, OtherWritten, Writes
  <2>8. InboundInv'
    BY <2>4, <2>5, <2>6, <2>7, TakenKept, GwSame, InboundMoves DEF SystemInv
  <2>9. OutboundInv'
    BY <1>1, <2>7, Queues, TakenKept, CallsSame, GwSame, OutboundKept DEF SystemInv
  <2>10. Channelled'
    BY <1>1, <2>1, <2>2 DEF SystemInv, Channelled
  <2> QED
    BY <2>8, <2>9, <2>10 DEF Preserved
<1>3. CASE ~(m.type = "ConnRes" /\ m.status = "ok")
  <2>1. UNCHANGED channel /\ srv' \in {"connecting", "failed", "return"}
    BY <1>1, <1>3 DEF ConnReceive, GiveUp
  <2>2. ~Ended
    BY <1>1 DEF Ended
  <2> QED
    BY <1>1, <2>1, <2>2, TakenKept, Writes, MovesPreserved
<1> QED
  BY <1>2, <1>3

(* A telegram, expected, repeated or of another connection.                *)
LEMMA HandleTunnelReqPreserved ==
  ASSUME SystemInv, Plain, NEW m, Taken(m), HandleTunnelReq(m), srv = "process"
  PROVE  /\ Preserved
         /\ UNCHANGED appVars \/ \E t \in Telegrams : HandsOver(t)
<1>1. /\ UNCHANGED <<channel, srv, epoch, pc, req, beats>> /\ m.type = "TunnelReq"
  BY DEF HandleTunnelReq, callVars, beatVars
<1>2. CASE UNCHANGED <<recvSeq, appVars, toGateway>>
  <2>1. Preserved
    BY <1>1, <1>2, TakenKept, Writes, BeatsSame, CallsSame, StaysPreserved DEF srvVars, appVars
  <2> QED
    BY <1>2, <2>1
<1> DEFINE a == [type |-> "TunnelRes", channel |-> channel, seq |-> m.seq, status |-> "ok"]
<1>3. CASE /\ m.channel = channel /\ SentOrNot(a)
           /\ \/ m.seq = recvSeq /\ recvSeq' = Inc(recvSeq) /\ PushInbound(m.payload)
              \/ m.seq = Dec(recvSeq) /\ UNCHANGED <<recvSeq, appVars>>
  <2>1. /\ 1 \in Tels /\ toClient[1] = m /\ m.channel \in Channels /\ m.seq \in 0..SeqSpace-1
        /\ m.payload \in Telegrams
        /\ \A i \in Tels' : /\ i \in Nat /\ i + 1 > 1 /\ i + 1 \in Tels
                            /\ toClient'[i] = toClient[i + 1]
    BY <1>1, Queues, TelTaken DEF Taken
  <2>2. a \in ClientFrames /\ a.type = "TunnelRes" /\ a.channel = channel /\ a.seq = m.seq
    BY <1>3, <2>1 DEF ClientFrames
  <2>3. Sent(a) \/ UNCHANGED toGateway
    BY <1>3 DEF SentOrNot, SendFails
  <2> HIDE DEF a
  <2>4. /\ InboundInv' /\ toGateway' \in Seq(ClientFrames) /\ ReqsKept
        /\ UNCHANGED appVars \/ \E t \in Telegrams : HandsOver(t)
    <3>1. CASE m.seq = recvSeq /\ recvSeq' = Inc(recvSeq) /\ PushInbound(m.payload)
      <4>1. Handed' = Handed \cup {m.payload}
        BY <2>1, <3>1, Queues, PushHanded DEF TypeOK
      <4>2. /\ InboundInv' /\ toGateway' \in Seq(ClientFrames) /\ ReqsKept
            /\ m.payload \notin Handed
        BY <1>1, <1>3, <2>1, <2>2, <2>3, <3>1, <4>1, Queues, TakenKept, TelegramTaken DEF SystemInv
      <4>3. HandsOver(m.payload)
        BY <3>1, <4>2 DEF HandsOver, Ended
      <4> QED
        BY <2>1, <4>2, <4>3
    <3>2. CASE m.seq = Dec(recvSeq) /\ UNCHANGED <<recvSeq, appVars>>
      <4>1. InboundInv' /\ toGateway' \in Seq(ClientFrames) /\ ReqsKept
        BY <1>1, <1>3, <2>1, <2>2, <2>3, <3>2, Queues, TakenKept, TelegramRepeated
           DEF SystemInv, appVars
      <4> QED
        BY <3>2, <4>1
    <3> QED
      BY <1>3, <3>1, <3>2
  <2>5. OutboundInv'
    BY <1>1, <2>4, Queues, TakenKept, CallsSame, GwSame, OutboundKept DEF SystemInv
  <2>6. Channelled'
    <3>1. FramesKept
      BY <1>3, <2>1, <2>2, <2>3, Queues, FrameWritten
    <3> QED
      BY <1>1, <3>1, CallsSame, BeatsSame, ChannelledKept DEF SystemInv
  <2> QED
    BY <2>4, <2>5, <2>6 DEF Preserved
<1> QED
  BY <1>2, <1>3 DEF HandleTunnelReq, Plain, Refuse, Deliver, Expected, Repeated, CountReceived

(* Any other frame in process.                                             *)
LEMMA HandleOtherPreserved ==
  ASSUME SystemInv, NEW m, Taken(m), srv = "process",
         \/ HandleTunnelRes(m) \/ HandleConnStateRes(m) \/ HandleDisc(m)
         \/ UNCHANGED <<callVars, srvVars, beatVars, appVars, toGateway>>
  PROVE  Preserved
<1>1. /\ UNCHANGED <<channel, epoch, recvSeq, pc, req, beats, pushers, delivered>>
      /\ srv' \in {srv, "dial", "return"}
  BY DEF HandleTunnelRes, HandleConnStateRes, HandleDisc, LeaveProcess,
         callVars, srvVars, beatVars, appVars
<1>2. WritesOther
  <2>1. CASE HandleDisc(m)
    <3>1. m.channel \in Channels
      BY TakenKept, FrameFields
    <3> QED
      BY <2>1, <3>1, Writes DEF HandleDisc, SentOrNot
  <2>2. CASE UNCHANGED toGateway
    BY <2>2, Writes
  <2> QED
    BY <2>1, <2>2 DEF HandleTunnelRes, HandleConnStateRes
<1>3. ~Ended
  BY DEF Ended
<1>4. CASE srv' = srv
  BY <1>1, <1>2, <1>4, TakenKept, BeatsSame, CallsSame, StaysPreserved DEF srvVars
<1>5. CASE srv' \in {"dial", "return"}
  BY <1>1, <1>2, <1>3, <1>5, TakenKept, MovesPreserved
<1> QED
  BY <1>1, <1>4, <1>5

(* Whatever arrives.                                                       *)
LEMMA ArrivesPreserved ==
  ASSUME SystemInv, Plain, Arrives
  PROVE  /\ Preserved
         /\ UNCHANGED appVars \/ \E t \in Telegrams : HandsOver(t)
<1> DEFINE m == Head(toClient)
<1>1. Taken(m) /\ Receive(m)
  BY DEF Arrives, Taken
<1> HIDE DEF m
<1>2. CASE ConnReceive(m)
  BY <1>1, <1>2, ConnReceivePreserved DEF ConnReceive
<1>3. CASE ProcessReceive(m)
  <2>1. srv = "process"
    BY <1>3 DEF ProcessReceive
  <2>2. CASE HandleTunnelReq(m)
    BY <1>1, <2>1, <2>2, HandleTunnelReqPreserved
  <2>3. CASE \/ HandleTunnelRes(m) \/ HandleConnStateRes(m) \/ HandleDisc(m)
             \/ UNCHANGED <<callVars, srvVars, beatVars, appVars, toGateway>>
    <3>1. Preserved
      BY <1>1, <2>1, <2>3, HandleOtherPreserved
    <3>2. UNCHANGED appVars
      BY <2>3 DEF HandleTunnelRes, HandleConnStateRes, HandleDisc
    <3> QED
      BY <3>1, <3>2
  <2> QED
    BY <1>3, <2>2, <2>3 DEF ProcessReceive
<1> QED
  BY <1>1, <1>2, <1>3 DEF Receive
-----------------------------------------------------------------------------
(* The steps of the gateway.  What it knows of each connection:            *)
GwType == [Channels -> [state : {"unused", "open", "closed"}, rseq : 0..SeqSpace-1,
                        sseq : 0..SeqSpace-1, pending : Telegrams \cup {NoTelegram}]]

(* The client does nothing.                                                *)
ClientWaits == UNCHANGED <<callVars, srvVars, beatVars, appVars, endVars>>

(* What the gateway may tell of: a message accepted, a telegram it knows   *)
(* to be handed over.                                                      *)
Told ==
  \/ UNCHANGED <<accepted, confirmed>>
  \/ /\ UNCHANGED confirmed
     /\ \E c \in Calls : c \notin ToSet(accepted) /\ accepted' = Append(accepted, c)
  \/ /\ UNCHANGED accepted
     /\ \E t \in Telegrams : (Ended \/ t \in Handed) /\ confirmed' = confirmed \cup {t}

(* What each of its steps keeps.                                           *)
GatewayPreserved == GatewayTypeOK' /\ Preserved /\ Told

(* A frame is taken by the gateway.                                        *)
Handled(f) ==
  /\ toGateway # <<>> /\ f = Head(toGateway) /\ toGateway' = Tail(toGateway)
  /\ ClientWaits /\ UNCHANGED nextTel

(* It was one the client writes, and none joins behind it.                 *)
LEMMA HandledKept ==
  ASSUME SystemInv, NEW f, Handled(f)
  PROVE  /\ f \in ClientFrames /\ (f.type # "ConnReq" => f.channel \in Channels)
         /\ toGateway' \in Seq(ClientFrames) /\ ReqsKept /\ AcksKept /\ FramesKept
         /\ gw \in GwType
<1>1. toGateway \in Seq(ClientFrames) /\ gw \in GwType
  BY Queues DEF SystemInv, GatewayTypeOK, GwType
<1>2. f \in ClientFrames /\ 1 \in DOMAIN toGateway /\ toGateway[1] = f
  BY <1>1, TailAt DEF Handled
<1>3. f.type # "ConnReq" => f.channel \in Channels
  BY <1>2 DEF SystemInv, Channelled
<1>4. toGateway' \in Seq(ClientFrames) /\ ReqsKept /\ AcksKept /\ FramesKept
  BY <1>1, GatewayTakes, FramesTaken DEF Handled
<1> QED
  BY <1>1, <1>2, <1>3, <1>4

(* The gateway ends connections, or leaves them as they are.               *)
LEMMA GatewayStays ==
  ASSUME SystemInv, ClientWaits, toGateway' \in Seq(ClientFrames), ReqsKept, AcksKept, FramesKept,
         toClient' \in Seq(GatewayFrames), TelsKept, OffersKept, GwKept, CountsKept, gw' \in GwType,
         UNCHANGED <<accepted, confirmed, nextTel>>
  PROVE  GatewayPreserved
<1>1. UNCHANGED <<channel, srv, epoch, recvSeq, pushers, delivered, pc, req, beats>>
  BY DEF ClientWaits, callVars, srvVars, beatVars, appVars
<1>2. InboundInv'
  BY <1>1, ServerStays DEF SystemInv
<1>3. OutboundInv'
  BY <1>1, Queues, CallsSame, OutboundKept DEF SystemInv
<1>4. Channelled'
  BY <1>1, CallsSame, BeatsSame, ChannelledKept DEF SystemInv
<1>5. GatewayTypeOK'
  BY DEF SystemInv, GatewayTypeOK, GwType
<1> QED
  BY <1>2, <1>3, <1>4, <1>5 DEF GatewayPreserved, Preserved, Told

(* A connection is ended.                                                  *)
LEMMA ConnectionEnded ==
  ASSUME gw \in GwType, NEW ch \in Channels, gw[ch].state = "open",
         gw' = [gw EXCEPT ![ch] = Closed]
  PROVE  gw' \in GwType /\ GwKept /\ CountsKept
<1>1. Closed \in [state : {"unused", "open", "closed"}, rseq : 0..SeqSpace-1,
                  sseq : 0..SeqSpace-1, pending : Telegrams \cup {NoTelegram}]
  BY ConstAssumption DEF Closed
<1>2. gw' \in GwType
  BY <1>1 DEF GwType
<1>3. gw'[ch].state = "closed" /\ gw'[ch].pending = NoTelegram
  BY DEF Closed, GwType
<1>4. \A dh \in Channels : dh # ch => gw'[dh] = gw[dh]
  BY DEF GwType
<1>5. GwKept
  BY <1>3, <1>4 DEF GwKept
<1>6. CountsKept
  BY <1>3, <1>4 DEF CountsKept
<1> QED
  BY <1>2, <1>5, <1>6

(* A connection request.                                                   *)
LEMMA GwConnectPreserved ==
  ASSUME SystemInv, Plain, NEW f, Handled(f), GwConnect, UNCHANGED <<accepted, confirmed>>
  PROVE  GatewayPreserved
<1>1. /\ UNCHANGED <<channel, srv, epoch, recvSeq, pushers, delivered, pc, req, beats, nextTel>>
      /\ ClientWaits
  BY DEF Handled, ClientWaits, callVars, srvVars, beatVars, appVars
<1>2. ASSUME NEW ch \in Channels, gw[ch].state = "unused",
             gw' = [gw EXCEPT ![ch] = [Closed EXCEPT !.state = "open"]],
             Answers([type |-> "ConnRes", channel |-> ch, status |-> "ok"])
      PROVE  GatewayPreserved
  <2>1. InboundInv' /\ toClient' \in Seq(GatewayFrames)
    BY <1>1, <1>2, HandledKept, Queues, ConnectionOpened DEF SystemInv
  <2>2. [Closed EXCEPT !.state = "open"]
          \in [state : {"unused", "open", "closed"}, rseq : 0..SeqSpace-1,
               sseq : 0..SeqSpace-1, pending : Telegrams \cup {NoTelegram}]
    BY ConstAssumption DEF Closed
  <2>3. gw' \in GwType
    BY <1>2, <2>2, HandledKept DEF GwType
  <2>4. CountsKept
    <3>1. gw'[ch].state = "open" /\ \A dh \in Channels : dh # ch => gw'[dh] = gw[dh]
      BY <1>2, HandledKept DEF GwType, Closed
    <3> QED
      BY <1>2, <3>1 DEF CountsKept
  <2>5. OutboundInv'
    BY <1>1, <2>4, HandledKept, Queues, CallsSame, OutboundKept DEF SystemInv
  <2>6. Channelled'
    BY <1>1, HandledKept, CallsSame, BeatsSame, ChannelledKept DEF SystemInv
  <2>7. GatewayTypeOK'
    BY <1>1, <2>1, <2>3 DEF SystemInv, GatewayTypeOK, GwType
  <2> QED
    BY <2>1, <2>5, <2>6, <2>7 DEF GatewayPreserved, Preserved, Told
<1>3. ASSUME NEW ch \in Channels, UNCHANGED gw,
             Answers([type |-> "ConnRes", channel |-> ch, status |-> "busy"])
      PROVE  GatewayPreserved
  <2> DEFINE g == [type |-> "ConnRes", channel |-> ch, status |-> "busy"]
  <2>1. g \in GatewayFrames /\ g.type = "ConnRes" /\ g.status # "ok" /\ Answers(g)
    BY <1>3 DEF GatewayFrames
  <2> HIDE DEF g
  <2>2. toClient' \in Seq(GatewayFrames) /\ TelsKept /\ OffersKept
    BY <2>1, Queues, GatewayWrites
  <2>3. gw' \in GwType
    BY <1>3, HandledKept
  <2> QED
    BY <1>1, <1>3, <2>2, <2>3, HandledKept, GwSame, GatewayStays
<1> QED
  BY <1>2, <1>3 DEF GwConnect, Plain, Free

(* A request of a call.                                                    *)
LEMMA GwRequestPreserved ==
  ASSUME SystemInv, NEW f, Handled(f), f.type = "TunnelReq", GwRequest(f), UNCHANGED confirmed
  PROVE  GatewayPreserved
<1>1. /\ UNCHANGED <<channel, srv, epoch, recvSeq, pushers, delivered, pc, req, beats, nextTel>>
      /\ ClientWaits /\ f.channel \in Channels /\ f \in ClientFrames
  BY HandledKept DEF Handled, ClientWaits, callVars, srvVars, beatVars, appVars
<1> DEFINE g == [type |-> "TunnelRes", channel |-> f.channel, seq |-> f.seq, status |-> "ok"]
<1>2. CASE UNCHANGED <<gw, accepted, toClient>>
  <2>1. toClient' \in Seq(GatewayFrames) /\ TelsKept /\ OffersKept
    BY <1>2, Queues, QueueKept
  <2> QED
    BY <1>1, <1>2, <2>1, HandledKept, GwSame, GatewayStays
<1>3. CASE Answers(g)
  <2>1. toClient' \in Seq(GatewayFrames) /\ TelsKept /\ OffersKept
    <3>1. g \in GatewayFrames /\ g.type = "TunnelRes"
      BY <1>1, FrameFields DEF GatewayFrames
    <3> HIDE DEF g
    <3> QED
      BY <1>3, <3>1, Queues, GatewayWrites
  <2>2. CASE UNCHANGED <<gw, accepted>>
    BY <1>1, <2>1, <2>2, HandledKept, GwSame, GatewayStays
  <2>3. CASE /\ gw[f.channel].state = "open" /\ f.seq = gw[f.channel].rseq
             /\ gw' = [gw EXCEPT ![f.channel].rseq = Inc(@)]
             /\ accepted' = Append(accepted, f.payload)
    <3>1. f.payload \in Calls /\ f.payload \notin ToSet(accepted) /\ OutboundInv'
      <4>1. gw \in [Channels -> [state : {"unused", "open", "closed"}, rseq : 0..SeqSpace-1,
                                 sseq : 0..SeqSpace-1, pending : Telegrams \cup {NoTelegram}]]
        BY DEF SystemInv, GatewayTypeOK
      <4> QED
        BY <1>1, <2>3, <4>1, Queues, RequestAccepted DEF SystemInv, Handled
    <3>2. gw' \in GwType /\ GwKept
      <4>1. gw \in GwType /\ gw[f.channel].rseq \in 0..SeqSpace-1
        BY <1>1, HandledKept DEF GwType
      <4>2. Inc(gw[f.channel].rseq) \in 0..SeqSpace-1
        BY <4>1, IncType
      <4>3. gw' \in GwType
        BY <1>1, <2>3, <4>1, <4>2 DEF GwType
      <4>4. \A dh \in Channels : /\ gw'[dh].state = gw[dh].state /\ gw'[dh].sseq = gw[dh].sseq
                                 /\ gw'[dh].pending = gw[dh].pending
        BY <1>1, <2>3, <4>1 DEF GwType
      <4> QED
        BY <4>3, <4>4 DEF GwKept
    <3>3. InboundInv'
      BY <1>1, <2>1, <3>2, HandledKept, ServerStays DEF SystemInv
    <3>4. Channelled'
      BY <1>1, HandledKept, CallsSame, BeatsSame, ChannelledKept DEF SystemInv
    <3>5. GatewayTypeOK'
      <4>1. accepted' \in Seq(Calls)
        BY <2>3, <3>1, Queues, AppendSet
      <4> QED
        BY <1>1, <2>1, <3>2, <4>1 DEF SystemInv, GatewayTypeOK, GwType
    <3> QED
      BY <2>3, <3>1, <3>3, <3>4, <3>5 DEF GatewayPreserved, Preserved, Told
  <2> QED
    BY <1>3, <2>2, <2>3, <1>2 DEF GwRequest
<1> QED
  BY <1>2, <1>3 DEF GwRequest

(* A question for the state of a connection, and a disconnect request.     *)
LEMMA GwAnswersPreserved ==
  ASSUME SystemInv, NEW f, Handled(f), f.type \in {"ConnStateReq", "DiscReq"},
         (GwState(f) /\ UNCHANGED gw) \/ GwDisconnect(f), UNCHANGED <<accepted, confirmed>>
  PROVE  GatewayPreserved
<1>1. ClientWaits /\ UNCHANGED nextTel /\ f.channel \in Channels
  BY HandledKept DEF Handled
<1>2. gw' \in GwType /\ GwKept /\ CountsKept
  BY <1>1, HandledKept, GwSame, ConnectionEnded DEF GwDisconnect, Open
<1>3. toClient' \in Seq(GatewayFrames) /\ TelsKept /\ OffersKept
  <2>1. CASE GwState(f)
    <3> DEFINE g == [type |-> "ConnStateRes", channel |-> f.channel,
                     status |-> IF Open(f.channel) THEN "ok" ELSE "bad"]
    <3>1. g \in GatewayFrames /\ g.type = "ConnStateRes" /\ Answers(g)
      BY <1>1, <2>1 DEF GatewayFrames, GwState
    <3> HIDE DEF g
    <3> QED
      BY <3>1, Queues, GatewayWrites
  <2>2. CASE Answers([type |-> "DiscRes", channel |-> f.channel])
    <3> DEFINE g == [type |-> "DiscRes", channel |-> f.channel]
    <3>1. g \in GatewayFrames /\ g.type = "DiscRes" /\ Answers(g)
      BY <1>1, <2>2 DEF GatewayFrames
    <3> HIDE DEF g
    <3> QED
      BY <3>1, Queues, GatewayWrites
  <2>3. CASE UNCHANGED toClient
    BY <2>3, Queues, QueueKept
  <2> QED
    BY <2>1, <2>2, <2>3 DEF GwDisconnect
<1> QED
  BY <1>1, <1>2, <1>3, HandledKept, GatewayStays

(* An acknowledgement of a telegram.                                       *)
LEMMA GwAcknowledgedPreserved ==
  ASSUME SystemInv, NEW f, Handled(f), f.type = "TunnelRes", GwAcknowledged(f),
         UNCHANGED <<accepted, toClient>>
  PROVE  GatewayPreserved
<1>1. /\ UNCHANGED <<channel, srv, epoch, recvSeq, pushers, delivered, pc, req, beats, nextTel>>
      /\ ClientWaits /\ f.channel \in Channels
  BY HandledKept DEF Handled, ClientWaits, callVars, srvVars, beatVars, appVars
<1>2. toClient' \in Seq(GatewayFrames) /\ TelsKept /\ OffersKept
  BY Queues, QueueKept
<1>3. CASE UNCHANGED <<gw, confirmed>>
  BY <1>1, <1>2, <1>3, HandledKept, GwSame, GatewayStays
<1>4. CASE /\ gw[f.channel].state = "open" /\ gw[f.channel].pending # NoTelegram
           /\ gw[f.channel].sseq = f.seq
           /\ gw' = [gw EXCEPT ![f.channel].sseq = Inc(@), ![f.channel].pending = NoTelegram]
           /\ confirmed' = confirmed \cup {gw[f.channel].pending}
  <2> DEFINE ch == f.channel
             t == gw[ch].pending
  <2>1. /\ 1 \in Acks /\ toGateway[1] = f /\ f.seq \in 0..SeqSpace-1
        /\ \A i \in Acks' : /\ i \in Nat /\ i + 1 > 1 /\ i + 1 \in Acks
                            /\ toGateway'[i] = toGateway[i + 1]
    BY Queues, AckTaken DEF Handled
  <2>2. t \in Telegrams /\ ch \in Channels /\ gw \in GwType
    BY <1>1, <1>4, HandledKept DEF GwType
  <2>3. Inc(f.seq) \in 0..SeqSpace-1
    BY <2>1, IncType
  <2>4. gw' \in GwType
    BY <1>1, <1>4, <2>2, <2>3, TelegramNumbers DEF GwType
  <2>5. /\ gw'[ch].state = "open" /\ gw'[ch].sseq = Inc(f.seq) /\ gw'[ch].pending = NoTelegram
        /\ \A dh \in Channels : dh # ch => gw'[dh] = gw[dh]
    BY <1>1, <1>4, <2>2 DEF GwType
  <2>6. CountsKept
    <3>1. \A dh \in Channels : gw'[dh].state = gw[dh].state /\ gw'[dh].rseq = gw[dh].rseq
      BY <1>1, <1>4, <2>2 DEF GwType
    <3> QED
      BY <3>1 DEF CountsKept
  <2>7. InboundInv' /\ (Ended \/ t \in Handed)
    <3>1. gw[ch].state = "open" /\ gw[ch].sseq = f.seq
      BY <1>4
    <3>2. f.channel = ch
      OBVIOUS
    <3> HIDE DEF ch
    <3>3. InboundInv' /\ (Ended \/ gw[ch].pending \in Handed)
      BY <1>1, <2>1, <2>2, <2>5, <3>1, <3>2, HandledKept, Queues, TelegramConfirmed DEF SystemInv
    <3> QED
      BY <3>3
  <2>8. OutboundInv'
    BY <1>1, <2>6, HandledKept, Queues, CallsSame, OutboundKept DEF SystemInv
  <2>9. Channelled'
    BY <1>1, HandledKept, CallsSame, BeatsSame, ChannelledKept DEF SystemInv
  <2>10. GatewayTypeOK'
    BY <1>1, <1>2, <1>4, <2>2, <2>4 DEF SystemInv, GatewayTypeOK, GwType
  <2> QED
    BY <1>4, <2>2, <2>7, <2>8, <2>9, <2>10 DEF GatewayPreserved, Preserved, Told
<1> QED
  BY <1>3, <1>4 DEF GwAcknowledged, Open

(* Whatever the gateway takes.                                             *)
LEMMA GwHandlePreserved ==
  ASSUME SystemInv, Plain, GwHandle
  PROVE  GatewayPreserved
<1> DEFINE f == Head(toGateway)
<1>1. Handled(f)
  BY DEF GwHandle, Handled, ClientWaits
<1> HIDE DEF f
<1>2. \/ f.type = "ConnReq" /\ GwConnect /\ UNCHANGED <<accepted, confirmed>>
      \/ f.type = "TunnelReq" /\ GwRequest(f) /\ UNCHANGED confirmed
      \/ f.type = "ConnStateReq" /\ GwState(f) /\ UNCHANGED <<gw, accepted, confirmed>>
      \/ f.type = "DiscReq" /\ GwDisconnect(f) /\ UNCHANGED <<accepted, confirmed>>
      \/ f.type = "TunnelRes" /\ GwAcknowledged(f) /\ UNCHANGED <<accepted, toClient>>
      \/ f.type = "DiscRes" /\ UNCHANGED <<gw, accepted, confirmed, toClient>>
  BY DEF GwHandle, f
<1>3. CASE f.type = "DiscRes" /\ UNCHANGED <<gw, accepted, confirmed, toClient>>
  <2>1. toClient' \in Seq(GatewayFrames) /\ TelsKept /\ OffersKept
    BY <1>3, Queues, QueueKept
  <2>2. ClientWaits /\ UNCHANGED nextTel
    BY <1>1 DEF Handled
  <2> QED
    BY <1>1, <1>3, <2>1, <2>2, HandledKept, GwSame, GatewayStays
<1> QED
  BY <1>1, <1>2, <1>3, GwConnectPreserved, GwRequestPreserved, GwAnswersPreserved,
     GwAcknowledgedPreserved

(* A telegram is sent, again or for the first time, or a connection ended. *)
LEMMA GwSpontaneousPreserved ==
  ASSUME SystemInv, NEW ch \in Channels, GwTelegram(ch) \/ GwRepeat(ch) \/ GwDrop(ch)
  PROVE  GatewayPreserved
<1>1. /\ UNCHANGED <<channel, srv, epoch, recvSeq, pushers, delivered, pc, req, beats, toGateway>>
      /\ ClientWaits /\ UNCHANGED <<accepted, confirmed>> /\ gw[ch].state = "open"
  BY DEF GwTelegram, GwRepeat, GwDrop, Open, gwVars, vars, ClientWaits,
         callVars, srvVars, beatVars, appVars
<1>2. /\ toGateway' \in Seq(ClientFrames) /\ ReqsKept /\ AcksKept /\ FramesKept
      /\ gw \in GwType
  BY <1>1, Queues, OtherWritten, Writes DEF SystemInv, GatewayTypeOK, GwType
<1>3. Channelled'
  BY <1>1, <1>2, CallsSame, BeatsSame, ChannelledKept DEF SystemInv
<1>4. ASSUME NEW p \in Telegrams, NEW f \in GatewayFrames, Answers(f),
             f.type = "TunnelReq", f.channel = ch, f.seq = gw[ch].sseq, f.payload = p,
             gw' \in GwType, gw'[ch].pending = p,
             \A dh \in Channels : /\ gw'[dh].state = gw[dh].state /\ gw'[dh].sseq = gw[dh].sseq
                                  /\ gw'[dh].rseq = gw[dh].rseq
                                  /\ dh # ch => gw'[dh].pending = gw[dh].pending,
             \/ p = gw[ch].pending /\ UNCHANGED nextTel
             \/ gw[ch].pending = NoTelegram /\ p = nextTel /\ nextTel' = nextTel + 1
      PROVE  GatewayPreserved
  <2>1. InboundInv' /\ toClient' \in Seq(GatewayFrames)
    BY <1>1, <1>4, Queues, TelegramSent DEF SystemInv
  <2>2. CountsKept
    BY <1>4 DEF CountsKept
  <2>3. OutboundInv'
    BY <1>1, <1>2, <2>2, Queues, CallsSame, OutboundKept DEF SystemInv
  <2>4. nextTel' \in Nat \ {0}
    BY <1>4 DEF SystemInv, GatewayTypeOK
  <2>5. GatewayTypeOK'
    BY <1>1, <1>4, <2>1, <2>4 DEF SystemInv, GatewayTypeOK, GwType
  <2> QED
    BY <1>1, <1>3, <2>1, <2>3, <2>5 DEF GatewayPreserved, Preserved, Told
<1>5. \A p \in Telegrams :
         [type |-> "TunnelReq", channel |-> ch, seq |-> gw[ch].sseq, payload |-> p] \in GatewayFrames
  BY <1>2 DEF GatewayFrames, GwType
<1>6. CASE GwTelegram(ch)
  <2> DEFINE f == [type |-> "TunnelReq", channel |-> ch, seq |-> gw[ch].sseq, payload |-> nextTel]
  <2>1. /\ nextTel \in Telegrams /\ gw[ch].pending = NoTelegram /\ nextTel' = nextTel + 1
        /\ gw' = [gw EXCEPT ![ch].pending = nextTel] /\ Answers(f)
    BY <1>6 DEF GwTelegram
  <2>2. /\ f \in GatewayFrames /\ f.type = "TunnelReq" /\ f.channel = ch
        /\ f.seq = gw[ch].sseq /\ f.payload = nextTel
    BY <1>5, <2>1
  <2>3. /\ gw' \in GwType /\ gw'[ch].pending = nextTel
        /\ \A dh \in Channels : /\ gw'[dh].state = gw[dh].state /\ gw'[dh].sseq = gw[dh].sseq
                                /\ gw'[dh].rseq = gw[dh].rseq
                                /\ dh # ch => gw'[dh].pending = gw[dh].pending
    BY <1>2, <2>1 DEF GwType
  <2> HIDE DEF f
  <2> QED
    BY <1>4, <2>1, <2>2, <2>3
<1>7. CASE GwRepeat(ch)
  <2> DEFINE p == gw[ch].pending
             f == [type |-> "TunnelReq", channel |-> ch, seq |-> gw[ch].sseq, payload |-> p]
  <2>1. p # NoTelegram /\ Answers(f) /\ UNCHANGED <<gw, nextTel>>
    BY <1>7 DEF GwRepeat, gwVars
  <2>2. p \in Telegrams
    BY <1>2, <2>1 DEF GwType
  <2>3. /\ f \in GatewayFrames /\ f.type = "TunnelReq" /\ f.channel = ch
        /\ f.seq = gw[ch].sseq /\ f.payload = p
    BY <1>5, <2>2
  <2>4. gw' \in GwType /\ gw' = gw
    BY <1>2, <2>1
  <2> HIDE DEF f
  <2> QED
    BY <1>4, <2>1, <2>2, <2>3, <2>4
<1>8. CASE GwDrop(ch)
  <2>1. gw' \in GwType /\ GwKept /\ CountsKept
    BY <1>1, <1>2, <1>8, ConnectionEnded DEF GwDrop
  <2>2. toClient' \in Seq(GatewayFrames) /\ TelsKept /\ OffersKept
    <3> DEFINE g == [type |-> "DiscReq", channel |-> ch]
    <3>1. g \in GatewayFrames /\ g.type = "DiscReq" /\ Answers(g)
      BY <1>8 DEF GatewayFrames, GwDrop
    <3> HIDE DEF g
    <3> QED
      BY <3>1, Queues, GatewayWrites
  <2> QED
    BY <1>1, <1>2, <1>8, <2>1, <2>2, GatewayStays DEF GwDrop
<1> QED
  BY <1>6, <1>7, <1>8
-----------------------------------------------------------------------------
(* The client's own invariant, in the closed system.                       *)
LEMMA ClientInvKept ==
  ASSUME SystemInv, [SystemNext]_sysVars
  PROVE  Inv'
<1>1. Inv /\ toGateway \in Seq(ClientFrames) /\ toClient \in Seq(GatewayFrames)
  BY Queues DEF SystemInv
<1>2. CASE Client
  BY <1>1, <1>2, NextInv DEF Next
<1>3. CASE Arrives
  <2>1. Head(toClient) \in GatewayFrames
    BY <1>1, <1>3, TailAt DEF Arrives
  <2> QED
    BY <1>1, <1>3, <2>1, ReceiveInv DEF Arrives
<1>4. CASE GwHandle
  <2>1. NetTypeOK'
    BY <1>1, <1>4, TailAt DEF GwHandle, NetTypeOK
  <2>2. UNCHANGED <<callVars, srvVars, beatVars, appVars, endVars>>
    BY <1>4 DEF GwHandle
  <2> QED
    BY <1>1, <2>1, <2>2, Typed, ServerStep, TypeFrame
       DEF callVars, srvVars, beatVars, appVars, endVars
<1>5. ASSUME NEW ch \in Channels, GwTelegram(ch) \/ GwRepeat(ch) \/ GwDrop(ch)
      PROVE  Inv'
  <2>1. UNCHANGED vars
    BY <1>5 DEF GwTelegram, GwRepeat, GwDrop
  <2> QED
    BY <1>1, <2>1, StutterInv
<1>6. CASE UNCHANGED sysVars
  BY <1>1, <1>6, StutterInv DEF sysVars
<1> QED
  BY <1>2, <1>3, <1>4, <1>5, <1>6 DEF SystemNext, Gateway

(* Every step of the client itself.                                        *)
LEMMA ClientPreserved ==
  ASSUME SystemInv, Plain, Client, Waits
  PROVE  Preserved
BY ConnectPreserved, ResetPreserved, CallPreserved, SendPreserved, ResendPreserved,
   WaitingPreserved, BeatsPreserved, EndsPreserved, ClosePreserved, AppReceivePreserved
DEF Client, Sending, Plain

(* The client does not change what is the gateway's.                       *)
LEMMA GatewayTypeKept ==
  ASSUME GatewayTypeOK, UNCHANGED gwVars, toClient' \in Seq(GatewayFrames)
  PROVE  GatewayTypeOK'
BY DEF GatewayTypeOK, gwVars

(* Nothing happens.                                                        *)
LEMMA SystemStutter ==
  ASSUME SystemInv, UNCHANGED sysVars
  PROVE  Preserved
BY WaitsKept, Writes, BeatsSame, CallsSame, StaysPreserved
DEF sysVars, vars, callVars, srvVars, beatVars, appVars, Waits

(* Every step of the system keeps the invariant.                           *)
THEOREM SystemNextInv == Plain /\ SystemInv /\ [SystemNext]_sysVars => SystemInv'
<1> SUFFICES ASSUME Plain, SystemInv, [SystemNext]_sysVars PROVE SystemInv'
  OBVIOUS
<1>1. CASE Client /\ UNCHANGED <<gwVars, toClient>>
  BY <1>1, ClientInvKept, ClientPreserved, WaitsKept, GatewayTypeKept DEF SystemInv, Preserved, Waits
<1>2. CASE Arrives
  <2>1. UNCHANGED gwVars /\ toClient' \in Seq(GatewayFrames)
    BY <1>2, Queues, ClientTakes DEF Arrives
  <2> QED
    BY <1>2, <2>1, ClientInvKept, ArrivesPreserved, GatewayTypeKept DEF SystemInv, Preserved
<1>3. CASE Gateway
  BY <1>3, ClientInvKept, GwHandlePreserved, GwSpontaneousPreserved
     DEF SystemInv, GatewayPreserved, Preserved, Gateway
<1>4. CASE UNCHANGED sysVars
  <2>1. UNCHANGED gwVars /\ toClient' \in Seq(GatewayFrames)
    BY <1>4, Queues DEF sysVars
  <2> QED
    BY <1>4, <2>1, ClientInvKept, SystemStutter, GatewayTypeKept DEF SystemInv, Preserved
<1> QED
  BY <1>1, <1>2, <1>3, <1>4 DEF SystemNext
-----------------------------------------------------------------------------
(* At the beginning nothing is on its way and no channel in use.           *)
LEMMA SystemInitInv == SystemInit => SystemInv
<1> SUFFICES ASSUME SystemInit PROVE SystemInv
  OBVIOUS
<1>1. /\ Inv /\ toClient = <<>> /\ toGateway = <<>> /\ channel = NoChannel /\ srv = "dial"
      /\ epoch = 0 /\ delivered = <<>> /\ accepted = <<>> /\ confirmed = {} /\ nextTel = 1
      /\ BagToSet(pushers) = {} /\ BagToSet(beats) = {} /\ \A c \in Calls : pc[c] = "new"
  BY InitInv, EmptyBagSet DEF SystemInit, Init
<1>2. Reqs = {} /\ Acks = {} /\ Tels = {} /\ Offers = {} /\ DOMAIN toGateway = {}
  BY <1>1 DEF Reqs, Acks, Tels, Offers
<1>3. Handed = {} /\ Live = {} /\ ToSet(accepted) = {}
  BY <1>1, <1>2 DEF Handed, Live, ToSet
<1>4. \A ch \in Channels : gw[ch] = [Closed EXCEPT !.state = "unused"]
  BY DEF SystemInit
<1>5. \A ch \in Channels : gw[ch].pending = NoTelegram /\ NoTelegram = 0
  BY <1>4 DEF Closed, NoTelegram
<1>6. GatewayTypeOK
  <2>1. [Closed EXCEPT !.state = "unused"]
          \in [state : {"unused", "open", "closed"}, rseq : 0..SeqSpace-1,
               sseq : 0..SeqSpace-1, pending : Telegrams \cup {NoTelegram}]
    BY ConstAssumption DEF Closed
  <2> QED
    BY <1>1, <2>1 DEF SystemInit, GatewayTypeOK
<1>7. Channelled
  BY <1>1, <1>2 DEF Channelled
<1>8. OfferedOnce /\ Opened
  BY <1>1, <1>2, SystemAssumption DEF OfferedOnce, Opened
<1>9. OneOwner /\ Numbered
  BY <1>1, <1>2, <1>3, <1>5 DEF OneOwner, Numbered
<1>10. TelegramsInOrder /\ InStep /\ AcksInOrder
  BY <1>2, <1>3 DEF TelegramsInOrder, InStep, AcksInOrder
<1>11. OutboundInv
  BY <1>2, <1>3 DEF OutboundInv, Requested, Blocks, AcceptedBehind
<1> QED
  BY <1>1, <1>6, <1>7, <1>8, <1>9, <1>10, <1>11 DEF SystemInv, InboundInv

(* The system keeps its invariant, whatever the network loses and however  *)
(* often its two ends repeat themselves.                                   *)
THEOREM SystemInvariance == Plain => (SystemSpec => []SystemInv)
<1> SUFFICES ASSUME Plain PROVE SystemSpec => []SystemInv
  OBVIOUS
<1>1. SystemInv /\ [SystemNext]_sysVars => SystemInv'
  BY SystemNextInv
<1> QED
  BY <1>1, SystemInitInv, PTL DEF SystemSpec

(* Client, gateway and network keep their types.                           *)
THEOREM SystemTypeCorrect == Plain => (SystemSpec => []SystemTypeOK)
<1> SUFFICES ASSUME Plain PROVE SystemSpec => []SystemTypeOK
  OBVIOUS
<1>1. SystemInv => SystemTypeOK
  BY DEF SystemInv, Inv, GatewayTypeOK, SystemTypeOK
<1>2. SystemSpec => []SystemInv
  BY SystemInvariance
<1> QED
  BY <1>1, <1>2, PTL
-----------------------------------------------------------------------------
(* Delivery.tla with the system's variables.                               *)

(* Its bags and sequences are the system's.                                *)
LEMMA SameBags ==
  /\ D!EmptyBag = EmptyBag
  /\ \A B, t : D!BagAdd(B, t) = BagAdd(B, t)
  /\ \A B, t : D!BagRemove(B, t) = BagRemove(B, t)
  /\ \A B, t : D!BagIn(t, B) <=> t \in BagToSet(B)
  /\ \A B : D!BagToSet(B) = BagToSet(B)
  /\ \A s : D!ToSet(s) = ToSet(s)
BY DEF D!EmptyBag, EmptyBag, D!SetToBag, SetToBag, D!BagAdd, BagAdd, D!BagRemove, BagRemove,
       D!BagIn, D!BagToSet, BagToSet, D!ToSet, ToSet

(* Nothing it speaks of changes.                                           *)
Unseen == UNCHANGED <<appVars, accepted, confirmed>> /\ Ended' = Ended

(* Such a step is none of its steps.                                       *)
LEMMA UnseenStutters == ASSUME Unseen PROVE UNCHANGED D!vars
BY DEF Unseen, appVars, D!vars, Ended

(* The steps of the client that are not the application's leave it alone.  *)
LEMMA ClientUnseen ==
  ASSUME Client, Waits, ~CloseInbound, ~AppReceive
  PROVE  Unseen
<1>1. UNCHANGED <<accepted, confirmed>>
  BY DEF Waits, gwVars
<1>2. CASE Dial \/ ConnResend \/ ConnFails \/ ResetSeq
  <2>1. UNCHANGED appVars /\ ~Ended /\ ~Ended'
    BY <1>2 DEF Dial, ConnResend, ConnFails, GiveUp, ResetSeq, srvVars, Ended
  <2> QED
    BY <1>1, <2>1 DEF Unseen, Ended
<1>3. CASE \E c \in Calls : Call(c) \/ Sending(c)
  <2>1. UNCHANGED <<appVars, srvVars>>
    BY <1>3 DEF Call, Sending, Request, Resend, SendTimeout, Acknowledged, AckClosed
  <2> QED
    BY <1>1, <2>1 DEF Unseen, srvVars, Ended
<1>4. CASE AckExpires \/ Heartbeat \/ HeartbeatDue \/ CloseRequest \/ Closing \/ SocketEnds
  <2>1. UNCHANGED <<appVars, srvVars>>
    BY <1>4 DEF AckExpires, Heartbeat, HeartbeatDue, CloseRequest, Closing, CloseDone,
                CloseSocket, SocketEnds
  <2> QED
    BY <1>1, <2>1 DEF Unseen, srvVars, Ended
<1>5. CASE ProcessDone \/ HeartbeatFailed \/ WaitDone \/ CloseAck
  <2>1. UNCHANGED appVars /\ Ended' = Ended
    BY <1>5 DEF ProcessDone, HeartbeatFailed, LeaveProcess, WaitDone, CloseAck, Ended
  <2> QED
    BY <1>1, <2>1 DEF Unseen
<1> QED
  BY <1>2, <1>3, <1>4, <1>5 DEF Client, Serving

(* The application takes a telegram that was held for it.                  *)
LEMMA AppReceiveIsReceive ==
  ASSUME SystemInv, Waits, AppReceive
  PROVE  \E t \in Telegrams : D!Receive(t)
<1>1. PICK t \in BagToSet(pushers) : /\ t \in Telegrams /\ pushers' = BagRemove(pushers, t)
                                     /\ delivered' = Append(delivered, t)
  BY AppReceivePreserved
<1>2. UNCHANGED <<accepted, confirmed>> /\ Ended' = Ended
  BY DEF AppReceive, srvVars, Waits, gwVars, Ended
<1> QED
  BY <1>1, <1>2, SameBags DEF D!Receive, Ended

(* The tunnel ends when the inbound channel is closed.                     *)
LEMMA CloseInboundIsEnd ==
  ASSUME Waits, CloseInbound
  PROVE  D!End
BY SameBags DEF CloseInbound, Waits, gwVars, D!End

(* What a frame hands over was not handed over before.                     *)
LEMMA ArrivesHandsOver ==
  ASSUME SystemInv, Plain, Arrives
  PROVE  Unseen \/ \E t \in Telegrams : D!HandOver(t)
<1>1. UNCHANGED <<accepted, confirmed>>
  BY DEF Arrives, gwVars
<1>2. Ended' = Ended
  BY DEF Arrives, Receive, ConnReceive, GiveUp, ProcessReceive, HandleTunnelReq, HandleTunnelRes,
         HandleConnStateRes, HandleDisc, LeaveProcess, srvVars, Ended
<1>3. ASSUME NEW t \in Telegrams, HandsOver(t)
      PROVE  D!HandOver(t)
  BY <1>1, <1>2, <1>3, SameBags DEF HandsOver, PushInbound, D!HandOver, D!Handed, Handed, Ended
<1> QED
  BY <1>1, <1>2, <1>3, ArrivesPreserved DEF Unseen

(* What the gateway accepts it had not accepted, what it knows to be       *)
(* handed over was.                                                        *)
LEMMA GatewayTells ==
  ASSUME SystemInv, Plain, Gateway
  PROVE  \/ Unseen
         \/ \E t \in Telegrams : D!Acknowledge(t)
         \/ \E c \in Calls : D!Accept(c)
<1>1. Told
  BY GwHandlePreserved, GwSpontaneousPreserved DEF Gateway, GatewayPreserved
<1>2. UNCHANGED <<appVars, srvVars>>
  BY DEF Gateway, GwHandle, GwTelegram, GwRepeat, GwDrop, vars
<1>3. Ended' = Ended
  BY <1>2 DEF srvVars, Ended
<1>4. ASSUME NEW t \in Telegrams, Ended \/ t \in Handed, confirmed' = confirmed \cup {t},
             UNCHANGED accepted
      PROVE  D!Acknowledge(t)
  BY <1>2, <1>3, <1>4, SameBags DEF appVars, D!Acknowledge, D!Handed, Handed, Ended
<1>5. ASSUME NEW c \in Calls, c \notin ToSet(accepted), accepted' = Append(accepted, c),
             UNCHANGED confirmed
      PROVE  D!Accept(c)
  BY <1>2, <1>3, <1>5, SameBags DEF appVars, D!Accept, Ended
<1> QED
  BY <1>1, <1>2, <1>3, <1>4, <1>5 DEF Told, Unseen

(* The system begins like its abstract specification ...                   *)
LEMMA InitRefines == SystemInit => D!Init
BY SameBags DEF SystemInit, Init, D!Init

(* ... and takes its steps, or steps it does not speak of.                 *)
LEMMA StepRefines == Plain /\ SystemInv /\ [SystemNext]_sysVars => [D!Next]_(D!vars)
<1> SUFFICES ASSUME Plain, SystemInv, [SystemNext]_sysVars
             PROVE  D!Next \/ UNCHANGED D!vars
  OBVIOUS
<1>1. CASE Client /\ UNCHANGED <<gwVars, toClient>>
  BY <1>1, ClientUnseen, UnseenStutters, AppReceiveIsReceive, CloseInboundIsEnd DEF Waits, D!Next
<1>2. CASE Arrives
  BY <1>2, ArrivesHandsOver, UnseenStutters DEF D!Next
<1>3. CASE Gateway
  BY <1>3, GatewayTells, UnseenStutters DEF D!Next
<1>4. CASE UNCHANGED sysVars
  BY <1>4, UnseenStutters DEF sysVars, vars, srvVars, gwVars, Unseen, Ended
<1> QED
  BY <1>1, <1>2, <1>3, <1>4 DEF SystemNext

(* A tunnel with its gateway hands each telegram to the application once   *)
(* at most, acknowledges only what it has handed over, and has each        *)
(* message accepted once at most, over lost and repeated frames, timeouts  *)
(* and reconnects (handleTunnelReq, requestTunnel).                        *)
THEOREM Refinement == Plain => (SystemSpec => Delivers)
<1> SUFFICES ASSUME Plain PROVE SystemSpec => Delivers
  OBVIOUS
<1>1. SystemInv /\ [SystemNext]_sysVars => [D!Next]_(D!vars)
  BY StepRefines
<1>2. SystemSpec => []SystemInv
  BY SystemInvariance
<1> QED
  BY <1>1, <1>2, InitRefines, PTL DEF SystemSpec, Delivers, D!Spec
-----------------------------------------------------------------------------
(* What follows from the abstract specification (DeliveryProofs.tla) holds *)
(* of the system.                                                          *)
DP == INSTANCE DeliveryProofs WITH
        held <- pushers, received <- delivered, acknowledged <- confirmed,
        ended <- (srv \in {"inboundClosed", "exited"})

(* Both speak of the same bags and sequences.                              *)
LEMMA SamePromise ==
  /\ DP!EmptyBag = D!EmptyBag
  /\ \A B, t : DP!BagAdd(B, t) = D!BagAdd(B, t)
  /\ \A B, t : DP!BagRemove(B, t) = D!BagRemove(B, t)
  /\ \A B, t : DP!BagIn(t, B) <=> D!BagIn(t, B)
  /\ \A B : DP!BagToSet(B) = D!BagToSet(B)
  /\ \A s : DP!ToSet(s) = D!ToSet(s)
BY DEF DP!EmptyBag, D!EmptyBag, DP!SetToBag, D!SetToBag, DP!BagAdd, D!BagAdd, DP!BagRemove,
       D!BagRemove, DP!BagIn, D!BagIn, DP!BagToSet, D!BagToSet, DP!ToSet, D!ToSet

(* The system is what that module's theorems are about.                    *)
LEMMA Promised == Plain => (SystemSpec => DP!Spec)
<1> SUFFICES ASSUME Plain PROVE SystemSpec => DP!Spec
  OBVIOUS
<1>1. D!Init => DP!Init
  BY SamePromise DEF D!Init, DP!Init
<1>2. [D!Next]_(D!vars) => [DP!Next]_(DP!vars)
  BY SamePromise
     DEF D!Next, DP!Next, D!vars, DP!vars, D!HandOver, DP!HandOver, D!Receive, DP!Receive,
         D!Acknowledge, DP!Acknowledge, D!End, DP!End, D!Accept, DP!Accept, D!Handed, DP!Handed
<1>3. SystemSpec => Delivers
  BY Refinement
<1> QED
  BY <1>1, <1>2, <1>3, PTL DEF Delivers, D!Spec, DP!Spec

(* A telegram is received once, and not while it is still held.            *)
HandedOnce ==
  /\ \A i, j \in DOMAIN delivered : delivered[i] = delivered[j] => i = j
  /\ \A t \in BagToSet(pushers) : t \notin ToSet(delivered)

(* The application never gets a telegram twice, neither from Inbound() nor *)
(* from a goroutine that still holds it (handleTunnelReq, pushInbound).    *)
THEOREM TelegramsOnce == Plain => (SystemSpec => []HandedOnce)
<1> SUFFICES ASSUME Plain PROVE SystemSpec => []HandedOnce
  OBVIOUS
<1>1. SystemSpec => DP!Spec
  BY Promised
<1>2. DP!Spec => []DP!ReceivedOnce
  BY DP!ReceivedOnceCorrect
<1>3. DP!ReceivedOnce => HandedOnce
  BY SamePromise, SameBags DEF DP!ReceivedOnce, HandedOnce
<1> QED
  BY <1>1, <1>2, <1>3, PTL

(* What the gateway takes for delivered, and will not repeat, is with the  *)
(* application or held for it until the tunnel ends (handleTunnelReq).     *)
THEOREM ConfirmedIsHanded ==
  Plain => (SystemSpec => [](~Ended => confirmed \subseteq Handed))
<1> SUFFICES ASSUME Plain PROVE SystemSpec => [](~Ended => confirmed \subseteq Handed)
  OBVIOUS
<1>1. SystemSpec => DP!Spec
  BY Promised
<1>2. DP!Spec => []DP!AcknowledgedIsHanded
  BY DP!AcknowledgedCorrect
<1>3. DP!AcknowledgedIsHanded => (~Ended => confirmed \subseteq Handed)
  BY SamePromise, SameBags DEF DP!AcknowledgedIsHanded, DP!Handed, Handed, Ended
<1> QED
  BY <1>1, <1>2, <1>3, PTL

(* However often a request is repeated, the gateway accepts the message of *)
(* a call of Send once (requestTunnel).                                    *)
THEOREM MessagesOnce ==
  Plain => (SystemSpec => [](\A i, j \in DOMAIN accepted : accepted[i] = accepted[j] => i = j))
<1> SUFFICES ASSUME Plain
             PROVE  SystemSpec =>
                      [](\A i, j \in DOMAIN accepted : accepted[i] = accepted[j] => i = j)
  OBVIOUS
<1>1. SystemSpec => DP!Spec
  BY Promised
<1>2. DP!Spec => []DP!AcceptedOnce
  BY DP!AcceptedOnceCorrect
<1> QED
  BY <1>1, <1>2, PTL DEF DP!AcceptedOnce
-----------------------------------------------------------------------------
(* What Send confirms.                                                     *)

(* The first connection, before a call times out or the numbers come round *)
(* to one that an earlier call had.                                        *)
Undisturbed ==
  epoch <= 1 /\ (\A c \in Calls : pc[c] # "timeout") /\ Len(accepted) < SeqSpace

(* Where the server is, and what of it is left then.                       *)
ServerPlaces ==
  /\ epoch = 0 => srv \in {"dial", "connecting", "reset", "failed"}
  /\ srv = "failed" => epoch = 0
  /\ srv = "exited" => BagToSet(acks) = {}
  /\ closer = "closed" => ServerLeft

(* Acknowledgements on their way to the client.                            *)
Answered == {i \in DOMAIN toClient : toClient[i].type = "TunnelRes"}

(* Before there is a connection nothing is sent and nothing counted.       *)
NothingYet ==
  epoch = 0 => /\ accepted = <<>> /\ BagToSet(acks) = {} /\ seqNumber = 0
               /\ Reqs = {} /\ Answered = {} /\ \A ch \in Channels : gw[ch].rseq = 0

(* An acknowledgement that is relayed has the number of a call that was    *)
(* accepted: one before the current, or the one that waits, unless the     *)
(* socket is closed and none can wait any more.                            *)
RelaysBehind ==
  /\ seqNumber <= Len(accepted)
  /\ ConfirmedIsAccepted
  /\ \A a \in BagToSet(acks) :
        /\ a.seq <= seqNumber
        /\ a.seq = seqNumber => (seqMu = NoOne /\ SockClosed) \/ seqMu \in ToSet(accepted)
  /\ seqMu \in ToSet(accepted) => seqNumber < Len(accepted)

(* While the connection is served the gateway has accepted what was        *)
(* confirmed, and perhaps what waits; both count the same, the requests on *)
(* their way are not ahead and the acknowledgements behind.                *)
InCount ==
  /\ \A i \in Answered : toClient[i].seq < Len(accepted)
  /\ gw[channel].state = "open" => gw[channel].rseq = Len(accepted)
  /\ \A i \in Reqs : /\ toGateway[i].channel = channel /\ toGateway[i].seq <= seqNumber
                     /\ toGateway[i].seq = seqNumber => seqMu = toGateway[i].payload
  /\ \/ Len(accepted) = seqNumber
     \/ Len(accepted) = seqNumber + 1 /\ accepted[Len(accepted)] = seqMu

CountInv == Undisturbed => RelaysBehind /\ (srv = "process" => InCount)

ConfirmInv == ServerPlaces /\ NothingYet /\ CountInv

(* No write fails but that to a closed socket.                             *)
Writable == "send" \notin Faults
-----------------------------------------------------------------------------
(* Numbers and owners are of their types.                                  *)
LEMMA CountTypes ==
  ASSUME SystemInv
  PROVE  /\ seqNumber \in Nat /\ seqNumber < SeqSpace /\ epoch \in Nat
         /\ Len(accepted) \in Nat /\ \A a \in BagToSet(acks) : a.seq \in Nat
         /\ NoOne \notin ToSet(accepted) /\ ToSet(accepted) \subseteq Calls
         /\ \A i \in DOMAIN accepted : accepted[i] \in ToSet(accepted)
         /\ Len(accepted) > 0 => Len(accepted) \in DOMAIN accepted
<1>1. /\ seqNumber \in 0..SeqSpace-1 /\ epoch \in 0..MaxConns /\ accepted \in Seq(Calls)
      /\ BagToSet(acks) \subseteq [seq : 0..SeqSpace-1, status : {"ok", "bad"}]
  BY Queues DEF TypeOK, CallTypeOK, ServerTypeOK
<1>2. /\ ToSet(accepted) \subseteq Calls
      /\ \A i \in DOMAIN accepted : accepted[i] \in ToSet(accepted)
  BY <1>1 DEF ToSet
<1>3. Len(accepted) \in Nat /\ (Len(accepted) > 0 => Len(accepted) \in DOMAIN accepted)
  BY <1>1
<1>4. \A a \in BagToSet(acks) : a.seq \in Nat
  BY <1>1
<1> QED
  BY <1>1, <1>2, <1>3, <1>4, ConstAssumption

(* What has to be shown of a step: of the frames for the calls none joins, *)
(* counters and owner stay, and the gateway forgets connections at most.   *)
AnswersStay == \A i \in Answered' : \E j \in Answered : toClient'[i] = toClient[j]

Calm ==
  /\ UNCHANGED <<seqNumber, seqMu, accepted, epoch>>
  /\ BagToSet(acks') \subseteq BagToSet(acks)
  /\ ReqsKept /\ AnswersStay
  /\ CountsKept /\ \A ch \in Channels : gw'[ch].rseq \in {gw[ch].rseq, 0}
  /\ srv' = "process" => srv = "process" /\ UNCHANGED channel
  /\ SockClosed => SockClosed'
  /\ \A c \in Calls : (pc'[c] = "ok" => pc[c] = "ok") /\ (pc[c] = "timeout" => pc'[c] = "timeout")

(* Such a step keeps the counts.                                           *)
LEMMA CalmKept ==
  ASSUME SystemInv, ConfirmInv, Calm
  PROVE  NothingYet' /\ CountInv'
<1>1. \A i \in Reqs' : \E j \in Reqs : toGateway'[i] = toGateway[j]
  BY DEF Calm, ReqsKept
<1>2. NothingYet'
  BY <1>1 DEF ConfirmInv, NothingYet, Calm, AnswersStay
<1>3. ASSUME Undisturbed'
      PROVE  RelaysBehind'
  <2>1. RelaysBehind
    BY <1>3 DEF ConfirmInv, CountInv, Undisturbed, Calm
  <2> QED
    BY <2>1 DEF RelaysBehind, ConfirmedIsAccepted, Calm
<1>4. ASSUME Undisturbed', srv' = "process"
      PROVE  InCount'
  <2>1. InCount /\ srv = "process" /\ UNCHANGED <<channel, seqNumber, seqMu, accepted>>
    BY <1>4 DEF ConfirmInv, CountInv, Undisturbed, Calm
  <2>2. channel \in Channels /\ gw[channel].state # "unused"
    BY <2>1, Queues DEF SystemInv, InboundInv, Opened
  <2>3. gw'[channel].state = "open" => gw'[channel].rseq = Len(accepted)
    BY <2>1, <2>2 DEF InCount, Calm, CountsKept
  <2>4. \A i \in Answered' : toClient'[i].seq < Len(accepted)
    BY <2>1 DEF InCount, Calm, AnswersStay
  <2>5. \A i \in Reqs' : /\ toGateway'[i].channel = channel /\ toGateway'[i].seq <= seqNumber
                         /\ toGateway'[i].seq = seqNumber => seqMu = toGateway'[i].payload
    BY <1>1, <2>1 DEF InCount
  <2> QED
    BY <2>1, <2>3, <2>4, <2>5 DEF InCount
<1> QED
  BY <1>2, <1>3, <1>4 DEF CountInv

(* The server stays where it is, and no relay joins.                       *)
LEMMA PlacesKept ==
  ASSUME ServerPlaces, UNCHANGED <<srv, epoch, closer>>, BagToSet(acks') \subseteq BagToSet(acks)
  PROVE  ServerPlaces' /\ (SockClosed => SockClosed')
BY DEF ServerPlaces, ServerLeft, SockClosed

(* A step of the client leaves what is on its way to it and the gateway.   *)
LEMMA WaitsCalm ==
  ASSUME SystemInv, Waits
  PROVE  /\ UNCHANGED accepted /\ AnswersStay /\ CountsKept
         /\ \A ch \in Channels : gw'[ch].rseq \in {gw[ch].rseq, 0}
BY GwSame DEF Waits, gwVars, AnswersStay, Answered

(* A frame is taken from the client's queue.                               *)
LEMMA TakenCalm ==
  ASSUME SystemInv, NEW m, Taken(m)
  PROVE  /\ UNCHANGED accepted /\ AnswersStay /\ CountsKept
         /\ \A ch \in Channels : gw'[ch].rseq \in {gw[ch].rseq, 0}
<1>1. \A i \in DOMAIN toClient' : i + 1 \in DOMAIN toClient /\ toClient'[i] = toClient[i + 1]
  BY Queues, TailAt DEF Taken
<1>2. AnswersStay
  BY <1>1 DEF AnswersStay, Answered
<1> QED
  BY <1>2, TakenKept, GwSame

(* The gateway writes no acknowledgement of a request.                     *)
LEMMA AnswersCalm ==
  ASSUME SystemInv, NEW f \in GatewayFrames, f.type # "TunnelRes", Answers(f)
  PROVE  AnswersStay
<1>1. CASE toClient' = Append(toClient, f)
  <2>1. \A i \in DOMAIN toClient' : \/ i \in DOMAIN toClient /\ toClient'[i] = toClient[i]
                                    \/ toClient'[i] = f
    BY <1>1, Queues, AppendAt
  <2> QED
    BY <2>1 DEF AnswersStay, Answered
<1>2. CASE UNCHANGED toClient
  BY <1>2 DEF AnswersStay, Answered
<1> QED
  BY <1>1, <1>2 DEF Answers
-----------------------------------------------------------------------------
(* The client's steps that neither begin nor end a call that waits.        *)

(* What has to be shown of them.                                           *)
LEMMA ClientCalm ==
  ASSUME SystemInv, ConfirmInv, Waits, WritesOther, UNCHANGED <<seqNumber, seqMu, epoch>>,
         BagToSet(acks') \subseteq BagToSet(acks),
         srv' = "process" => srv = "process" /\ UNCHANGED channel,
         \A c \in Calls : (pc'[c] = "ok" => pc[c] = "ok") /\ (pc[c] = "timeout" => pc'[c] = "timeout"),
         ServerPlaces', SockClosed => SockClosed'
  PROVE  ConfirmInv'
<1>1. ReqsKept
  BY Queues, OtherWritten
<1>2. Calm
  BY <1>1, WaitsCalm DEF Calm
<1> QED
  BY <1>2, CalmKept DEF ConfirmInv

(* requestConn, until it is answered.                                      *)
LEMMA ConnectConfirm ==
  ASSUME SystemInv, ConfirmInv, Waits, Dial \/ ConnResend \/ ConnFails
  PROVE  ConfirmInv'
<1>1. /\ UNCHANGED <<channel, epoch, pc, seqNumber, seqMu, acks, closer>>
      /\ srv \in {"dial", "connecting"}
      /\ \/ srv' = "connecting" \/ srv' = IF epoch = 0 THEN "failed" ELSE "return"
  BY DEF Dial, ConnResend, ConnFails, GiveUp, callVars, srvVars, endVars
<1>2. WritesOther
  BY Writes DEF Dial, ConnResend, ConnFails
<1>3. closer # "closed"
  BY <1>1 DEF ConfirmInv, ServerPlaces, ServerLeft
<1>4. ServerPlaces' /\ ~SockClosed
  BY <1>1, <1>3 DEF ServerPlaces, ServerLeft, SockClosed
<1> QED
  BY <1>1, <1>2, <1>4, ClientCalm

(* Relays and workers, the end of the socket, the application, and Close   *)
(* until the server has left.                                              *)
LEMMA StaysConfirm ==
  ASSUME SystemInv, ConfirmInv, Waits,
         AckExpires \/ Heartbeat \/ HeartbeatDue \/ CloseRequest \/ CloseDone \/ SocketEnds
           \/ AppReceive
  PROVE  ConfirmInv'
<1>1. /\ UNCHANGED <<srvVars, seqNumber, seqMu, pc>> /\ BagToSet(acks') \subseteq BagToSet(acks)
  BY BagRemoveSet DEF AckExpires, Heartbeat, HeartbeatDue, CloseRequest, CloseDone,
     SocketEnds, AppReceive, callVars
<1>2. WritesOther
  <2>1. ASSUME NEW w \in BagToSet(beats)
        PROVE  channel \in Channels /\ (w.at = "wait" => w.channel \in Channels)
    <3>1. w.epoch \in Nat /\ w.epoch > 0 /\ w.epoch <= epoch /\ epoch \in Nat
      BY ConstAssumption DEF SystemInv, Inv, TypeOK, BeatTypeOK, ServerTypeOK, BeatsOfConnections
    <3>2. epoch > 0
      BY <3>1
    <3> QED
      BY <3>2, Queues DEF SystemInv, Channelled
  <2>2. ASSUME NEW w \in BagToSet(beats), BeatStart(w) PROVE WritesOther
    BY <2>1, <2>2, Writes DEF BeatStart
  <2>3. ASSUME NEW w \in BagToSet(beats), BeatResend(w) PROVE WritesOther
    BY <2>1, <2>3, Writes DEF BeatResend
  <2>4. CASE UNCHANGED toGateway
    BY <2>4, Writes
  <2>5. CASE CloseRequest
    BY <2>5, Queues, Writes DEF CloseRequest, SentOrNot
  <2> QED
    BY <2>2, <2>3, <2>4, <2>5 DEF AckExpires, Heartbeat, HeartbeatDue, CloseDone, SocketEnds,
       AppReceive, BeatFails, BeatAnswered, BeatEnds, BeatResExpires
<1>3. UNCHANGED closer \/ (closer # "closed" /\ closer' # "closed")
  BY DEF AckExpires, Heartbeat, HeartbeatDue, CloseRequest, CloseDone, SocketEnds, AppReceive,
     endVars
<1>4. ServerPlaces' /\ (SockClosed => SockClosed')
  BY <1>1, <1>3 DEF ConfirmInv, ServerPlaces, ServerLeft, SockClosed, srvVars
<1> QED
  BY <1>1, <1>2, <1>4, ClientCalm DEF srvVars

(* A call asks for seqMu.                                                  *)
LEMMA CallConfirm ==
  ASSUME SystemInv, ConfirmInv, Waits, NEW c \in Calls, Call(c)
  PROVE  ConfirmInv'
<1>1. /\ UNCHANGED <<srvVars, seqNumber, seqMu, acks, closer, toGateway>>
      /\ pc[c] = "new" /\ pc' = [pc EXCEPT ![c] = "locking"]
  BY DEF Call, endVars
<1>2. \A d \in Calls : (pc'[d] = "ok" => pc[d] = "ok") /\ (pc[d] = "timeout" => pc'[d] = "timeout")
  BY <1>1, Queues DEF TypeOK, CallTypeOK
<1>3. UNCHANGED <<channel, srv, epoch>>
  BY <1>1 DEF srvVars
<1>4. ServerPlaces' /\ (SockClosed => SockClosed')
  BY <1>1, <1>3, PlacesKept DEF ConfirmInv
<1> QED
  BY <1>1, <1>2, <1>3, <1>4, Writes, ClientCalm

(* The server and Close come to their end.                                 *)
LEMMA EndsConfirm ==
  ASSUME SystemInv, ConfirmInv, Waits, ProcessDone \/ HeartbeatFailed \/ Serving \/ CloseSocket
  PROVE  ConfirmInv'
<1>1. /\ UNCHANGED <<epoch, seqNumber, seqMu, pc, toGateway>>
      /\ BagToSet(acks') \subseteq BagToSet(acks)
  BY EmptyBagSet DEF ProcessDone, HeartbeatFailed, Serving, WaitDone, CloseInbound, CloseAck,
     CloseSocket, callVars, srvVars
<1>2. /\ srv' # "process" \/ UNCHANGED <<srv, channel>>
      /\ closer = "closed" => closer' = "closed"
      /\ srv = "failed" => UNCHANGED srv
  BY DEF ProcessDone, HeartbeatFailed, Serving, WaitDone, CloseInbound, CloseAck, LeaveProcess,
     CloseSocket, endVars, srvVars
<1>3. ServerPlaces'
  <2>1. ServerPlaces
    BY DEF ConfirmInv
  <2>2. CASE ProcessDone \/ HeartbeatFailed
    BY <1>1, <2>1, <2>2 DEF ProcessDone, HeartbeatFailed, LeaveProcess, ServerPlaces, ServerLeft,
       endVars
  <2>3. CASE WaitDone \/ CloseInbound
    BY <1>1, <2>1, <2>3 DEF WaitDone, CloseInbound, ServerPlaces, ServerLeft, endVars
  <2>4. CASE CloseAck
    BY <1>1, <2>1, <2>4, EmptyBagSet DEF CloseAck, ServerPlaces, ServerLeft, endVars
  <2>5. CASE CloseSocket
    BY <1>1, <2>1, <2>5 DEF CloseSocket, ServerPlaces, ServerLeft, srvVars
  <2> QED
    BY <2>2, <2>3, <2>4, <2>5 DEF Serving
<1>4. SockClosed => SockClosed'
  BY <1>2 DEF SockClosed
<1> QED
  BY <1>1, <1>2, <1>3, <1>4, Writes, ClientCalm

(* The number is reset and the connection used: the first one begins with  *)
(* nothing sent, and what is said of it ends with the second.              *)
LEMMA ResetConfirm ==
  ASSUME SystemInv, ConfirmInv, Waits, ResetSeq
  PROVE  ConfirmInv'
<1>1. /\ UNCHANGED <<channel, pc, req, seqMu, acks, closer, toGateway, toClient, gw, accepted>>
      /\ srv = "reset" /\ srv' = "process" /\ epoch' = epoch + 1 /\ seqMu = NoOne /\ seqNumber' = 0
  BY DEF ResetSeq, ResetLockFree, endVars, Waits, gwVars
<1>2. epoch' > 0 /\ epoch' # 0
  BY <1>1, CountTypes
<1>3. ServerPlaces'
  BY <1>1, <1>2 DEF ConfirmInv, ServerPlaces, ServerLeft
<1>4. ASSUME Undisturbed'
      PROVE  RelaysBehind' /\ InCount'
  <2>1. epoch = 0
    BY <1>1, <1>4, CountTypes DEF Undisturbed
  <2>2. /\ accepted = <<>> /\ BagToSet(acks) = {} /\ Reqs = {} /\ Answered = {}
        /\ \A ch \in Channels : gw[ch].rseq = 0
    BY <2>1 DEF ConfirmInv, NothingYet
  <2>3. \A c \in Calls : pc[c] = "new"
    BY <2>1 DEF SystemInv, Channelled
  <2>4. Reqs' = {} /\ Answered' = {} /\ Len(accepted) = 0
    BY <1>1, <2>2 DEF Reqs, Answered
  <2>5. NoOne \notin ToSet(accepted)
    BY CountTypes
  <2>6. RelaysBehind'
    BY <1>1, <2>2, <2>3, <2>4, <2>5 DEF RelaysBehind, ConfirmedIsAccepted
  <2>7. channel \in Channels
    BY <1>1, Queues
  <2>8. InCount'
    BY <1>1, <2>2, <2>4, <2>7 DEF InCount
  <2> QED
    BY <2>6, <2>8
<1> QED
  BY <1>2, <1>3, <1>4 DEF ConfirmInv, NothingYet, CountInv
-----------------------------------------------------------------------------
(* The calls.                                                              *)

(* What a call that has the lock knows.                                    *)
LEMMA OwnCall ==
  ASSUME SystemInv, NEW c \in Calls, pc[c] = "await"
  PROVE  /\ seqMu = c /\ epoch > 0 /\ req[c].channel \in Channels /\ req[c].seq = seqNumber
         /\ srv = "process" => req[c].channel = channel
BY DEF SystemInv, Channelled, Inv, SeqMuHeld, AwaitsOwnNumber, AwaitsOnThisConnection

(* A request that cannot be sent.                                          *)
LEMMA RefusedConfirm ==
  ASSUME SystemInv, ConfirmInv, Waits, NEW c \in Calls, pc[c] = "locking", seqMu = NoOne,
         Return(c, "error"), UNCHANGED <<seqNumber, acks, srvVars, endVars, toGateway>>
  PROVE  ConfirmInv'
<1>1. \A d \in Calls : (pc'[d] = "ok" => pc[d] = "ok") /\ (pc[d] = "timeout" => pc'[d] = "timeout")
  BY Queues DEF Return, TypeOK, CallTypeOK
<1>2. UNCHANGED <<channel, srv, epoch, closer, seqMu>>
  BY DEF srvVars, endVars, Return
<1>3. ServerPlaces' /\ (SockClosed => SockClosed')
  BY <1>2, PlacesKept DEF ConfirmInv
<1> QED
  BY <1>1, <1>2, <1>3, Writes, ClientCalm

(* A request joins those on their way, with the number of the moment.      *)
LEMMA RequestJoins ==
  ASSUME SystemInv, NEW f \in ClientFrames, Sent(f)
  PROVE  \A i \in Reqs' : toGateway'[i] = f \/ \E j \in Reqs : toGateway'[i] = toGateway[j]
<1>1. CASE toGateway' = Append(toGateway, f)
  <2>1. \A i \in DOMAIN toGateway' : \/ i \in DOMAIN toGateway /\ toGateway'[i] = toGateway[i]
                                     \/ toGateway'[i] = f
    BY <1>1, Queues, AppendAt
  <2> QED
    BY <2>1 DEF Reqs
<1>2. CASE UNCHANGED toGateway
  BY <1>2 DEF Reqs
<1> QED
  BY <1>1, <1>2 DEF Sent

(* A call begins to wait: no relay has its number, and no request.         *)
LEMMA SendConfirm ==
  ASSUME SystemInv, ConfirmInv, Waits, NEW c \in Calls, NEW f \in ClientFrames, Sent(f),
         f.channel = channel, f.seq = seqNumber, f.payload = c, pc[c] = "locking", seqMu = NoOne,
         pc' = [pc EXCEPT ![c] = "await"], seqMu' = c,
         UNCHANGED <<seqNumber, acks, srvVars, endVars>>
  PROVE  ConfirmInv'
<1>1. UNCHANGED <<channel, srv, epoch, closer, gw, accepted, toClient>> /\ ~SockClosed
  BY DEF srvVars, endVars, Waits, gwVars, Sent
<1>2. epoch > 0 /\ c \notin ToSet(accepted)
  BY DEF SystemInv, Channelled, OutboundInv, AcceptedBehind
<1>3. \A d \in Calls : pc'[d] = pc[d] \/ (pc[d] = "locking" /\ pc'[d] = "await")
  BY Queues DEF TypeOK, CallTypeOK
<1>4. ServerPlaces' /\ epoch' # 0
  BY <1>1, <1>2, PlacesKept, CountTypes DEF ConfirmInv
<1>5. Undisturbed' => Undisturbed
  BY <1>1, <1>3 DEF Undisturbed
<1>6. ASSUME Undisturbed
      PROVE  RelaysBehind'
  <2>1. RelaysBehind
    BY <1>6 DEF ConfirmInv, CountInv
  <2>2. \A a \in BagToSet(acks) : a.seq <= seqNumber /\ a.seq # seqNumber
    BY <1>1, <2>1, CountTypes DEF RelaysBehind
  <2>3. ConfirmedIsAccepted'
    BY <1>1, <1>3, <2>1 DEF RelaysBehind, ConfirmedIsAccepted
  <2> QED
    BY <1>1, <1>2, <2>1, <2>2, <2>3 DEF RelaysBehind
<1>7. ASSUME Undisturbed, srv = "process"
      PROVE  InCount'
  <2>1. InCount
    BY <1>7 DEF ConfirmInv, CountInv
  <2>2. Len(accepted) = seqNumber
    BY <2>1, CountTypes DEF InCount
  <2>3. \A j \in Reqs : toGateway[j].channel = channel /\ toGateway[j].seq <= seqNumber
                        /\ toGateway[j].seq # seqNumber
    BY <2>1, Queues, ReqPayload, ConstAssumption DEF InCount
  <2>4. \A i \in Reqs' : /\ toGateway'[i].channel = channel /\ toGateway'[i].seq <= seqNumber
                         /\ toGateway'[i].seq = seqNumber => toGateway'[i].payload = c
    BY <2>3, RequestJoins, CountTypes
  <2>5. \A i \in Answered' : toClient'[i].seq < Len(accepted)
    BY <1>1, <2>1 DEF InCount, Answered
  <2> QED
    BY <1>1, <2>1, <2>2, <2>4, <2>5 DEF InCount
<1> QED
  BY <1>1, <1>4, <1>5, <1>6, <1>7 DEF ConfirmInv, NothingYet, CountInv

(* seqMu is taken, and the request written or not.                         *)
LEMMA RequestConfirm ==
  ASSUME SystemInv, ConfirmInv, ~UseTCP, Waits, NEW c \in Calls, Request(c)
  PROVE  ConfirmInv'
<1>1. /\ UNCHANGED <<seqNumber, acks, srvVars, endVars>>
      /\ pc[c] = "locking" /\ seqMu = NoOne
  BY DEF Request
<1>2. CASE UNCHANGED toGateway /\ Return(c, "error")
  BY <1>1, <1>2, RefusedConfirm
<1>3. CASE /\ Sent([type |-> "TunnelReq", channel |-> channel, seq |-> seqNumber, payload |-> c])
           /\ pc' = [pc EXCEPT ![c] = "await"] /\ seqMu' = c
  <2> DEFINE f == [type |-> "TunnelReq", channel |-> channel, seq |-> seqNumber, payload |-> c]
  <2>1. channel \in Channels /\ seqNumber \in 0..SeqSpace-1
    BY <1>1, Queues DEF SystemInv, Channelled, TypeOK, CallTypeOK
  <2>2. f \in ClientFrames /\ f.payload = c /\ f.channel = channel /\ f.seq = seqNumber
    BY <2>1 DEF ClientFrames
  <2>3. Sent(f)
    BY <1>3
  <2> HIDE DEF f
  <2> QED
    BY <1>1, <1>3, <2>2, <2>3, SendConfirm
<1> QED
  BY <1>2, <1>3 DEF Request, SendFails

(* The request is repeated, or cannot be since the socket is closed.       *)
LEMMA ResendConfirm ==
  ASSUME SystemInv, ConfirmInv, Writable, Waits, NEW c \in Calls, Resend(c)
  PROVE  ConfirmInv'
<1>1. /\ UNCHANGED <<seqNumber, req, acks, channel, srv, epoch, closer, gw, accepted, toClient>>
      /\ pc[c] = "await"
  BY DEF Resend, srvVars, endVars, Waits, gwVars
<1>2. ServerPlaces' /\ epoch' # 0
  BY <1>1, OwnCall, PlacesKept, CountTypes DEF ConfirmInv
<1>3. CASE SendFails /\ Return(c, "error")
  <2>1. SockClosed /\ SockClosed' /\ seqMu' = NoOne
    BY <1>1, <1>3 DEF SendFails, Writable, Return, SockClosed
  <2>2. srv # "process"
    BY <2>1 DEF SockClosed, ConfirmInv, ServerPlaces, ServerLeft
  <2>3. \A d \in Calls : pc'[d] = pc[d] \/ (d = c /\ pc'[d] = "error")
    BY <1>3, Queues DEF Return, TypeOK, CallTypeOK
  <2>4. ASSUME Undisturbed'
        PROVE  RelaysBehind'
    <3>1. RelaysBehind
      BY <1>1, <2>3, <2>4 DEF Undisturbed, ConfirmInv, CountInv
    <3> QED
      BY <1>1, <2>1, <2>3, <3>1, CountTypes DEF RelaysBehind, ConfirmedIsAccepted
  <2> QED
    BY <1>1, <1>2, <2>2, <2>4 DEF ConfirmInv, NothingYet, CountInv
<1>4. CASE /\ Sent([type |-> "TunnelReq", channel |-> req[c].channel, seq |-> req[c].seq, payload |-> c])
           /\ UNCHANGED <<pc, seqMu>>
  <2> DEFINE f == [type |-> "TunnelReq", channel |-> req[c].channel, seq |-> req[c].seq, payload |-> c]
  <2>1. req[c].channel \in Channels /\ req[c].seq \in 0..SeqSpace-1
    BY <1>1, OwnCall, Queues DEF TypeOK, CallTypeOK
  <2>2. f \in ClientFrames /\ f.payload = c /\ f.channel = req[c].channel /\ f.seq = req[c].seq
    BY <2>1 DEF ClientFrames
  <2>3. Sent(f)
    BY <1>4
  <2> HIDE DEF f
  <2>4. SockClosed' = SockClosed
    BY <1>1 DEF SockClosed
  <2>5. ASSUME Undisturbed'
        PROVE  RelaysBehind' /\ (srv = "process" => InCount')
    <3>1. RelaysBehind /\ (srv = "process" => InCount)
      BY <1>1, <1>4, <2>5 DEF Undisturbed, ConfirmInv, CountInv
    <3>2. RelaysBehind'
      BY <1>1, <1>4, <2>4, <3>1 DEF RelaysBehind, ConfirmedIsAccepted
    <3>3. ASSUME srv = "process"
          PROVE  InCount'
      <4>1. f.channel = channel /\ f.seq = seqNumber /\ f.payload = seqMu /\ InCount
        BY <1>1, <2>2, <3>1, <3>3, OwnCall
      <4>2. \A i \in Reqs' : /\ toGateway'[i].channel = channel /\ toGateway'[i].seq <= seqNumber
                             /\ toGateway'[i].seq = seqNumber => seqMu = toGateway'[i].payload
        BY <2>2, <2>3, <4>1, RequestJoins, CountTypes DEF InCount
      <4>3. \A i \in Answered' : toClient'[i].seq < Len(accepted)
        BY <1>1, <4>1 DEF InCount, Answered
      <4> QED
        BY <1>1, <1>4, <4>1, <4>2, <4>3 DEF InCount
    <3> QED
      BY <3>2, <3>3
  <2> QED
    BY <1>1, <1>2, <2>5 DEF ConfirmInv, NothingYet, CountInv
<1> QED
  BY <1>3, <1>4 DEF Resend, RepeatedSeq
(* A timeout ends what is said of the connection, and the end of the       *)
(* server leaves no acknowledgement.                                       *)
LEMMA GivesUpConfirm ==
  ASSUME SystemInv, ConfirmInv, Waits, NEW c \in Calls, SendTimeout(c) \/ AckClosed(c)
  PROVE  ConfirmInv'
<1>1. /\ UNCHANGED <<seqNumber, acks, channel, srv, epoch, closer, gw, accepted>>
      /\ pc[c] = "await" /\ seqMu' = NoOne
      /\ pc' = [pc EXCEPT ![c] = "timeout"] \/ (srv = "exited" /\ pc' = [pc EXCEPT ![c] = "terminated"])
  BY DEF SendTimeout, AckClosed, Return, srvVars, endVars, Waits, gwVars
<1>2. ServerPlaces' /\ epoch' # 0
  BY <1>1, OwnCall, PlacesKept, CountTypes DEF ConfirmInv
<1>3. pc \in [Calls -> {"new"} \cup Waiting \cup Returned]
  BY Queues DEF TypeOK, CallTypeOK
<1>4. ASSUME Undisturbed'
      PROVE  srv = "exited" /\ RelaysBehind'
  <2>1. pc'[c] # "timeout"
    BY <1>4 DEF Undisturbed
  <2>2. srv = "exited" /\ pc' = [pc EXCEPT ![c] = "terminated"]
    BY <1>1, <1>3, <2>1
  <2>3. \A d \in Calls : pc'[d] = pc[d] \/ pc'[d] = "terminated"
    BY <1>3, <2>2
  <2>4. RelaysBehind
    BY <1>1, <1>3, <1>4, <2>2 DEF Undisturbed, ConfirmInv, CountInv
  <2>5. BagToSet(acks') = {}
    BY <1>1, <2>2 DEF ConfirmInv, ServerPlaces
  <2> QED
    BY <1>1, <2>2, <2>3, <2>4, <2>5, CountTypes DEF RelaysBehind, ConfirmedIsAccepted
<1> QED
  BY <1>1, <1>2, <1>4 DEF ConfirmInv, NothingYet, CountInv

(* An acknowledgement with the number of the call that waits: the gateway  *)
(* has accepted this call, and both count on.                              *)
LEMMA AcknowledgedConfirm ==
  ASSUME SystemInv, ConfirmInv, Waits, NEW c \in Calls, Acknowledged(c)
  PROVE  ConfirmInv'
<1>1. /\ UNCHANGED <<channel, srv, epoch, closer, gw, accepted, toClient, toGateway>>
      /\ pc[c] = "await"
  BY DEF Acknowledged, srvVars, endVars, Waits, gwVars
<1>2. /\ ServerPlaces' /\ epoch' # 0 /\ BagToSet(acks') \subseteq BagToSet(acks)
      /\ SockClosed' = SockClosed
  BY <1>1, OwnCall, BagRemoveSet, PlacesKept, CountTypes DEF ConfirmInv, Acknowledged, SockClosed
<1>3. PICK a \in BagToSet(acks) :
         IF a.seq = seqNumber
         THEN /\ seqNumber' = Inc(seqNumber)
              /\ Return(c, IF a.status = "ok" THEN "ok" ELSE "rejected")
         ELSE UNCHANGED <<seqNumber, pc, seqMu>>
  BY DEF Acknowledged, Matches
<1>4. CASE UNCHANGED <<seqNumber, pc, seqMu>>
  BY <1>1, <1>2, <1>4, Writes, ClientCalm
<1>5. CASE /\ a.seq = seqNumber /\ seqNumber' = Inc(seqNumber)
           /\ Return(c, IF a.status = "ok" THEN "ok" ELSE "rejected")
  <2>1. /\ \A d \in Calls : d # c => pc'[d] = pc[d]
        /\ pc'[c] \in {"ok", "rejected"} /\ seqMu' = NoOne
    BY <1>5, Queues DEF Return, TypeOK, CallTypeOK
  <2>2. Undisturbed' => Undisturbed
    BY <1>1, <2>1 DEF Undisturbed
  <2>3. ASSUME Undisturbed
        PROVE  /\ RelaysBehind /\ c \in ToSet(accepted) /\ seqNumber < Len(accepted)
               /\ seqNumber' = seqNumber + 1
    <3>1. RelaysBehind /\ Len(accepted) < SeqSpace
      BY <2>3 DEF ConfirmInv, CountInv, Undisturbed
    <3>2. seqMu = c /\ c # NoOne
      BY <1>1, OwnCall, ConstAssumption
    <3>3. c \in ToSet(accepted) /\ seqNumber < Len(accepted)
      BY <1>5, <3>1, <3>2 DEF RelaysBehind
    <3>4. seqNumber + 1 < SeqSpace /\ seqNumber + 1 \in Nat
      BY <3>1, <3>3, CountTypes, ConstAssumption
    <3>5. Inc(seqNumber) = seqNumber + 1
      BY <3>4, ConstAssumption DEF Inc
    <3> QED
      BY <1>5, <3>1, <3>3, <3>5
  <2>4. ASSUME Undisturbed
        PROVE  RelaysBehind'
    <3>1. ConfirmedIsAccepted'
      BY <1>1, <2>1, <2>3, <2>4 DEF RelaysBehind, ConfirmedIsAccepted
    <3>2. seqNumber' <= Len(accepted)
      BY <2>3, <2>4, CountTypes
    <3>3. \A b \in BagToSet(acks') : b.seq <= seqNumber' /\ b.seq # seqNumber'
      <4>1. \A b \in BagToSet(acks') : b.seq <= seqNumber /\ b.seq \in Nat
        BY <1>2, <2>3, <2>4, CountTypes DEF RelaysBehind
      <4> QED
        BY <2>3, <2>4, <4>1, CountTypes
    <3> QED
      BY <1>1, <2>1, <3>1, <3>2, <3>3, CountTypes DEF RelaysBehind
  <2>5. ASSUME Undisturbed, srv = "process"
        PROVE  InCount'
    <3>1. InCount
      BY <2>5 DEF ConfirmInv, CountInv
    <3>2. Len(accepted) = seqNumber'
      BY <2>3, <2>5, <3>1, CountTypes DEF InCount
    <3>3. \A i \in Reqs : /\ toGateway[i].channel = channel /\ toGateway[i].seq <= seqNumber'
                          /\ toGateway[i].seq # seqNumber'
      <4>1. \A i \in Reqs : toGateway[i].seq \in Nat
        BY Queues, FrameFields DEF Reqs
      <4>2. \A i \in Reqs : toGateway[i].channel = channel /\ toGateway[i].seq <= seqNumber
        BY <3>1 DEF InCount
      <4> QED
        BY <2>3, <2>5, <4>1, <4>2, CountTypes
    <3>4. Reqs' = Reqs /\ Answered' = Answered
      BY <1>1 DEF Reqs, Answered
    <3> QED
      BY <1>1, <3>1, <3>2, <3>3, <3>4 DEF InCount
  <2> QED
    BY <1>1, <1>2, <2>2, <2>4, <2>5 DEF ConfirmInv, NothingYet, CountInv
<1> QED
  BY <1>3, <1>4, <1>5
-----------------------------------------------------------------------------
(* A frame reaches the client.                                             *)

(* What has to be shown when it is no acknowledgement.                     *)
LEMMA ArrivalCalm ==
  ASSUME SystemInv, ConfirmInv, NEW m, Taken(m), toGateway' \in Seq(ClientFrames), ReqsKept,
         UNCHANGED <<seqNumber, seqMu, pc, epoch, closer>>,
         BagToSet(acks') \subseteq BagToSet(acks),
         srv' = "process" => srv = "process" /\ UNCHANGED channel,
         srv = "process" \/ srv = "connecting",
         srv' \in {srv, "reset", "dial", "return"} \/ (srv' = "failed" /\ epoch = 0),
         srv' = "return" => epoch > 0
  PROVE  ConfirmInv'
<1>1. Calm
  BY TakenCalm DEF Calm, SockClosed
<1>2. ServerPlaces'
  BY CountTypes DEF ConfirmInv, ServerPlaces, ServerLeft
<1> QED
  BY <1>1, <1>2, CalmKept DEF ConfirmInv

(* An answer to the connection request.                                    *)
LEMMA ConnReceiveConfirm ==
  ASSUME SystemInv, ConfirmInv, NEW m, Taken(m), ConnReceive(m)
  PROVE  ConfirmInv'
<1>1. /\ UNCHANGED <<seqNumber, seqMu, pc, epoch, closer, acks, toGateway>> /\ srv = "connecting"
      /\ \/ srv' \in {srv, "reset"} \/ srv' = IF epoch = 0 THEN "failed" ELSE "return"
  BY DEF ConnReceive, GiveUp, callVars, endVars
<1>2. toGateway' \in Seq(ClientFrames) /\ ReqsKept
  BY <1>1, Queues, QueueKept
<1>3. epoch = 0 \/ epoch > 0
  BY CountTypes
<1> QED
  BY <1>1, <1>2, <1>3, ArrivalCalm

(* A frame for process that is no acknowledgement.                         *)
LEMMA HandleConfirm ==
  ASSUME SystemInv, ConfirmInv, NEW m, Taken(m), srv = "process", UNCHANGED endVars,
         \/ HandleTunnelReq(m) \/ HandleConnStateRes(m) \/ HandleDisc(m)
         \/ UNCHANGED <<callVars, srvVars, toGateway>>
  PROVE  ConfirmInv'
<1>1. /\ UNCHANGED <<seqNumber, seqMu, pc, epoch, channel, acks, closer>>
      /\ srv' \in {"process", "dial", "return"}
  BY DEF HandleTunnelReq, HandleConnStateRes, HandleDisc, LeaveProcess, callVars, srvVars, endVars
<1>2. epoch > 0 /\ channel \in Channels
  BY Queues, CountTypes DEF ConfirmInv, ServerPlaces
<1>3. m \in GatewayFrames
  BY TakenKept
<1>4. toGateway' \in Seq(ClientFrames) /\ ReqsKept
  <2>1. CASE UNCHANGED toGateway
    BY <2>1, Queues, QueueKept
  <2>2. CASE /\ m.type = "TunnelReq"
             /\ Sent([type |-> "TunnelRes", channel |-> channel, seq |-> m.seq, status |-> "ok"])
    <3> DEFINE f == [type |-> "TunnelRes", channel |-> channel, seq |-> m.seq, status |-> "ok"]
    <3>1. f \in ClientFrames /\ f.type = "TunnelRes" /\ Sent(f)
      BY <1>2, <1>3, <2>2, FrameFields DEF ClientFrames
    <3> HIDE DEF f
    <3> QED
      BY <3>1, Queues, ClientWrites
  <2>3. CASE Sent([type |-> "DiscRes", channel |-> m.channel])
    <3>1. m.channel \in Channels
      BY <1>3, FrameFields
    <3> QED
      BY <2>3, <3>1, Queues, Writes, OtherWritten
  <2> QED
    BY <2>1, <2>2, <2>3 DEF HandleTunnelReq, HandleConnStateRes, HandleDisc, Refuse, SentOrNot, SendFails
<1> QED
  BY <1>1, <1>2, <1>4, ArrivalCalm

(* An acknowledgement of the connection in use: it is behind the gateway's *)
(* number, and relayed while the call it is for waits, or in vain.         *)
LEMMA HandleTunnelResConfirm ==
  ASSUME SystemInv, ConfirmInv, NEW m, Taken(m), srv = "process", UNCHANGED endVars,
         HandleTunnelRes(m)
  PROVE  ConfirmInv'
<1>1. /\ UNCHANGED <<seqNumber, seqMu, pc, srv, epoch, channel, toGateway, closer, gw, accepted>>
      /\ m.type = "TunnelRes"
  BY TakenKept DEF HandleTunnelRes, srvVars, endVars
<1>2. CASE UNCHANGED acks
  <2>1. toGateway' \in Seq(ClientFrames) /\ ReqsKept
    BY <1>1, Queues, QueueKept
  <2> QED
    BY <1>1, <1>2, <2>1, ArrivalCalm
<1>3. CASE acks' = BagAdd(acks, [seq |-> m.seq, status |-> m.status])
  <2>1. BagToSet(acks') = BagToSet(acks) \cup {[seq |-> m.seq, status |-> m.status]}
    BY <1>3, BagAddSet
  <2>2. epoch # 0 /\ ServerPlaces'
    BY <1>1 DEF ConfirmInv, ServerPlaces, ServerLeft
  <2>3. 1 \in Answered /\ toClient[1] = m /\ m.seq \in Nat
    <3>1. 1 \in DOMAIN toClient /\ toClient[1] = m
      BY Queues, TailAt DEF Taken
    <3>2. m.seq \in Nat
      BY <1>1, TakenKept DEF GatewayFrames
    <3> QED
      BY <1>1, <3>1, <3>2 DEF Answered
  <2>4. AnswersStay
    BY TakenCalm
  <2>5. ASSUME Undisturbed
        PROVE  RelaysBehind' /\ InCount'
    <3>1. RelaysBehind /\ InCount
      BY <2>5 DEF ConfirmInv, CountInv
    <3>2. m.seq < Len(accepted)
      BY <2>3, <3>1 DEF InCount
    <3>3. m.seq <= seqNumber
      BY <2>3, <3>1, <3>2, CountTypes DEF InCount
    <3>4. m.seq = seqNumber => seqMu \in ToSet(accepted)
      <4>1. m.seq = seqNumber => Len(accepted) # seqNumber
        BY <3>2, CountTypes
      <4>2. Len(accepted) \in DOMAIN accepted
        BY <2>3, <3>2, CountTypes
      <4> QED
        BY <3>1, <4>1, <4>2, CountTypes DEF InCount
    <3>5. \A a \in BagToSet(acks') : a \in BagToSet(acks) \/ a.seq = m.seq
      BY <2>1
    <3>6. SockClosed' = SockClosed
      BY <1>1 DEF SockClosed
    <3>7. RelaysBehind'
      BY <1>1, <3>1, <3>3, <3>4, <3>5, <3>6 DEF RelaysBehind, ConfirmedIsAccepted
    <3>8. \A i \in Answered' : toClient'[i].seq < Len(accepted)
      BY <2>4, <3>1 DEF AnswersStay, InCount
    <3>9. Reqs' = Reqs
      BY <1>1 DEF Reqs
    <3>10. InCount'
      BY <1>1, <3>1, <3>8, <3>9 DEF InCount
    <3> QED
      BY <3>7, <3>10
  <2> QED
    BY <1>1, <2>2, <2>5 DEF ConfirmInv, NothingYet, CountInv, Undisturbed
<1> QED
  BY <1>1, <1>2, <1>3 DEF HandleTunnelRes

(* Every frame that reaches the client.                                    *)
LEMMA ArrivesConfirm ==
  ASSUME SystemInv, ConfirmInv, Arrives
  PROVE  ConfirmInv'
<1> DEFINE m == Head(toClient)
<1>1. Taken(m) /\ (ConnReceive(m) \/ ProcessReceive(m))
  BY DEF Arrives, Receive, Taken
<1> HIDE DEF m
<1>2. CASE ProcessReceive(m)
  BY <1>1, <1>2, HandleConfirm, HandleTunnelResConfirm DEF ProcessReceive
<1> QED
  BY <1>1, <1>2, ConnReceiveConfirm
-----------------------------------------------------------------------------
(* The gateway.                                                            *)

(* What has to be shown of a step that accepts nothing.                    *)
LEMMA GatewayCalm ==
  ASSUME SystemInv, ConfirmInv, ClientWaits, UNCHANGED accepted, ReqsKept, AnswersStay, CountsKept,
         \A ch \in Channels : gw'[ch].rseq \in {gw[ch].rseq, 0}
  PROVE  ConfirmInv'
<1>1. /\ UNCHANGED <<seqNumber, seqMu, pc, acks, channel, srv, epoch, closer>>
  BY DEF ClientWaits, callVars, srvVars, endVars
<1>2. Calm
  BY <1>1 DEF Calm, SockClosed
<1>3. ServerPlaces'
  BY <1>1, PlacesKept DEF ConfirmInv
<1> QED
  BY <1>2, <1>3, CalmKept DEF ConfirmInv

(* A connection is opened, or none is left.                                *)
LEMMA GwConnectConfirm ==
  ASSUME SystemInv, Plain, ConfirmInv, NEW f, Handled(f), GwConnect, UNCHANGED accepted
  PROVE  ConfirmInv'
<1>1. ASSUME NEW ch \in Channels, NEW status \in {"ok", "busy"},
             Answers([type |-> "ConnRes", channel |-> ch, status |-> status])
      PROVE  AnswersStay
  <2> DEFINE g == [type |-> "ConnRes", channel |-> ch, status |-> status]
  <2>1. g \in GatewayFrames /\ g.type # "TunnelRes" /\ Answers(g)
    BY <1>1 DEF GatewayFrames
  <2> HIDE DEF g
  <2> QED
    BY <2>1, AnswersCalm
<1>2. ASSUME NEW ch \in Channels, gw[ch].state = "unused",
             gw' = [gw EXCEPT ![ch] = [Closed EXCEPT !.state = "open"]]
      PROVE  CountsKept /\ \A dh \in Channels : gw'[dh].rseq \in {gw[dh].rseq, 0}
  <2>1. /\ gw'[ch].state = "open" /\ gw'[ch].rseq = 0
        /\ \A dh \in Channels : dh # ch => gw'[dh] = gw[dh]
    BY <1>2, HandledKept DEF GwType, Closed
  <2> QED
    BY <1>2, <2>1 DEF CountsKept
<1>3. AnswersStay /\ CountsKept /\ \A dh \in Channels : gw'[dh].rseq \in {gw[dh].rseq, 0}
  BY <1>1, <1>2, GwSame DEF GwConnect, Plain, Free
<1> QED
  BY <1>3, HandledKept, GatewayCalm DEF Handled

(* A connection is ended, or a telegram counted.                           *)
LEMMA GwOtherConfirm ==
  ASSUME SystemInv, ConfirmInv, NEW f, Handled(f), f.type # "ConnReq", UNCHANGED accepted,
         \/ GwState(f) /\ UNCHANGED gw
         \/ GwDisconnect(f)
         \/ GwAcknowledged(f) /\ UNCHANGED toClient
         \/ UNCHANGED <<gw, toClient>>
  PROVE  ConfirmInv'
<1>1. f.channel \in Channels /\ gw \in GwType
  BY HandledKept
<1>2. AnswersStay
  <2>1. ASSUME NEW g \in GatewayFrames, g.type # "TunnelRes", Answers(g) PROVE AnswersStay
    BY <2>1, AnswersCalm
  <2>2. CASE GwState(f)
    <3> DEFINE g == [type |-> "ConnStateRes", channel |-> f.channel,
                     status |-> IF Open(f.channel) THEN "ok" ELSE "bad"]
    <3>1. g \in GatewayFrames /\ g.type # "TunnelRes" /\ Answers(g)
      BY <1>1, <2>2 DEF GatewayFrames, GwState
    <3> HIDE DEF g
    <3> QED
      BY <3>1, <2>1
  <2>3. CASE Answers([type |-> "DiscRes", channel |-> f.channel])
    <3> DEFINE g == [type |-> "DiscRes", channel |-> f.channel]
    <3>1. g \in GatewayFrames /\ g.type # "TunnelRes" /\ Answers(g)
      BY <1>1, <2>3 DEF GatewayFrames
    <3> HIDE DEF g
    <3> QED
      BY <3>1, <2>1
  <2>4. CASE UNCHANGED toClient
    BY <2>4 DEF AnswersStay, Answered
  <2> QED
    BY <2>2, <2>3, <2>4 DEF GwDisconnect
<1>3. CountsKept /\ \A ch \in Channels : gw'[ch].rseq \in {gw[ch].rseq, 0}
  <2>1. CASE UNCHANGED gw
    BY <2>1, GwSame
  <2>2. CASE Open(f.channel) /\ gw' = [gw EXCEPT ![f.channel] = Closed]
    <3>1. CountsKept
      BY <1>1, <2>2, ConnectionEnded DEF Open
    <3> QED
      BY <1>1, <2>2, <3>1 DEF GwType, Closed
  <2>3. CASE gw' = [gw EXCEPT ![f.channel].sseq = Inc(@), ![f.channel].pending = NoTelegram]
    <3>1. \A ch \in Channels : gw'[ch].state = gw[ch].state /\ gw'[ch].rseq = gw[ch].rseq
      BY <1>1, <2>3 DEF GwType
    <3> QED
      BY <3>1 DEF CountsKept
  <2> QED
    BY <2>1, <2>2, <2>3 DEF GwDisconnect, GwAcknowledged
<1> QED
  BY <1>2, <1>3, HandledKept, GatewayCalm DEF Handled

(* The gateway accepts a request or knows it already: on the connection in *)
(* use it is the one of the call that waits, or an earlier one.            *)
LEMMA GwRequestConfirm ==
  ASSUME SystemInv, ConfirmInv, NEW f, Handled(f), f.type = "TunnelReq", GwRequest(f)
  PROVE  ConfirmInv'
<1>1. /\ UNCHANGED <<seqNumber, seqMu, pc, acks, channel, srv, epoch, closer>>
      /\ f.channel \in Channels /\ gw \in GwType /\ f \in ClientFrames /\ ReqsKept
  BY HandledKept DEF Handled, ClientWaits, callVars, srvVars, endVars
<1>2. /\ f.payload \in Calls /\ f.seq \in Nat
      /\ gw[f.channel].rseq \in 0..SeqSpace-1
  BY <1>1, FrameFields DEF GwType
<1>3. 1 \in Reqs /\ toGateway[1] = f
  BY Queues, TailAt DEF Handled, Reqs
<1>4. epoch # 0 /\ ServerPlaces'
  BY <1>1, <1>3, PlacesKept DEF ConfirmInv, NothingYet
<1>5. CASE UNCHANGED <<gw, accepted, toClient>>
  <2>1. AnswersStay
    BY <1>5 DEF AnswersStay, Answered
  <2> QED
    BY <1>1, <1>5, <2>1, GwSame, GatewayCalm DEF Handled
<1>6. CASE /\ gw[f.channel].state = "open" /\ f.seq \in {gw[f.channel].rseq, Dec(gw[f.channel].rseq)}
           /\ Answers([type |-> "TunnelRes", channel |-> f.channel, seq |-> f.seq, status |-> "ok"])
           /\ IF f.seq = gw[f.channel].rseq
              THEN /\ gw' = [gw EXCEPT ![f.channel].rseq = Inc(@)]
                   /\ accepted' = Append(accepted, f.payload)
              ELSE UNCHANGED <<gw, accepted>>
  <2>1. \A i \in Answered' : toClient'[i].seq = f.seq \/ \E j \in Answered : toClient'[i] = toClient[j]
    <3> DEFINE g == [type |-> "TunnelRes", channel |-> f.channel, seq |-> f.seq, status |-> "ok"]
    <3>1. g \in GatewayFrames /\ g.seq = f.seq /\ Answers(g)
      BY <1>1, <1>6, FrameFields DEF GatewayFrames
    <3> HIDE DEF g
    <3>2. CASE toClient' = Append(toClient, g)
      <4>1. \A i \in DOMAIN toClient' : \/ i \in DOMAIN toClient /\ toClient'[i] = toClient[i]
                                        \/ toClient'[i] = g
        BY <3>1, <3>2, Queues, AppendAt
      <4> QED
        BY <3>1, <4>1 DEF Answered
    <3>3. CASE UNCHANGED toClient
      BY <3>3 DEF Answered
    <3> QED
      BY <3>1, <3>2, <3>3 DEF Answers
  <2>2. \A i \in Reqs' : \E j \in Reqs : toGateway'[i] = toGateway[j]
    BY <1>1 DEF ReqsKept
  <2>3. /\ Len(accepted') \in {Len(accepted), Len(accepted) + 1}
        /\ ToSet(accepted') = ToSet(accepted) \/ ToSet(accepted') = ToSet(accepted) \cup {f.payload}
        /\ accepted' # accepted => Len(accepted') = Len(accepted) + 1
    <3>1. accepted \in Seq(Calls)
      BY Queues
    <3>2. CASE accepted' = Append(accepted, f.payload)
      <4>1. Len(accepted') = Len(accepted) + 1
        BY <3>1, <3>2
      <4> QED
        BY <1>2, <3>1, <3>2, <4>1, AppendSet
    <3> QED
      BY <1>6, <3>2
  <2>4. Undisturbed' => Undisturbed
    BY <1>1, <2>3, CountTypes, ConstAssumption DEF Undisturbed
  <2>5. ASSUME Undisturbed'
        PROVE  RelaysBehind'
    <3>1. RelaysBehind
      BY <2>4, <2>5 DEF ConfirmInv, CountInv
    <3>2. seqNumber <= Len(accepted')
      BY <2>3, <3>1, CountTypes DEF RelaysBehind
    <3>3. seqMu \in ToSet(accepted') => seqNumber < Len(accepted')
      <4>1. accepted' = accepted \/ seqNumber < Len(accepted')
        BY <2>3, <3>1, CountTypes DEF RelaysBehind
      <4> QED
        BY <3>1, <4>1 DEF RelaysBehind
    <3>4. SockClosed' = SockClosed
      BY <1>1 DEF SockClosed
    <3> QED
      BY <1>1, <2>3, <3>1, <3>2, <3>3, <3>4 DEF RelaysBehind, ConfirmedIsAccepted
  <2>6. ASSUME Undisturbed', srv = "process"
        PROVE  InCount'
    <3>1. InCount /\ RelaysBehind /\ Undisturbed
      BY <2>4, <2>6 DEF ConfirmInv, CountInv
    <3>2. /\ f.channel = channel /\ f.seq <= seqNumber /\ (f.seq = seqNumber => seqMu = f.payload)
          /\ gw[channel].rseq = Len(accepted) /\ seqNumber <= Len(accepted)
      BY <1>3, <1>6, <3>1 DEF InCount, RelaysBehind
    <3>3. CASE f.seq # gw[f.channel].rseq
      <4>1. UNCHANGED <<gw, accepted>> /\ f.seq = Dec(Len(accepted)) /\ f.seq # Len(accepted)
        BY <1>6, <3>2, <3>3
      <4>2. f.seq < Len(accepted)
        BY <1>2, <3>2, <4>1, CountTypes
      <4>3. \A i \in Answered' : toClient'[i].seq < Len(accepted)
        BY <2>1, <3>1, <4>2 DEF InCount
      <4>4. \A i \in Reqs' : /\ toGateway'[i].channel = channel /\ toGateway'[i].seq <= seqNumber
                             /\ toGateway'[i].seq = seqNumber => seqMu = toGateway'[i].payload
        BY <2>2, <3>1 DEF InCount
      <4> QED
        BY <1>1, <3>1, <4>1, <4>3, <4>4 DEF InCount
    <3>4. CASE f.seq = gw[f.channel].rseq
      <4>1. gw' = [gw EXCEPT ![f.channel].rseq = Inc(@)] /\ accepted' = Append(accepted, f.payload)
        BY <1>6, <3>4
      <4>2. /\ f.seq = Len(accepted) /\ Len(accepted) = seqNumber /\ seqMu = f.payload
        BY <1>2, <3>2, <3>4, CountTypes
      <4>3. /\ Len(accepted') = seqNumber + 1 /\ accepted'[Len(accepted')] = seqMu
        <5>1. accepted \in Seq(Calls)
          BY Queues
        <5>2. Len(accepted') = Len(accepted) + 1 /\ accepted'[Len(accepted) + 1] = f.payload
          BY <1>2, <4>1, <5>1
        <5> QED
          BY <4>2, <5>2
      <4>4. gw'[channel].rseq = Len(accepted')
        <5>1. Len(accepted) + 1 < SeqSpace
          BY <2>6, <4>2, <4>3 DEF Undisturbed
        <5>2. Inc(Len(accepted)) = Len(accepted) + 1
          BY <5>1, ConstAssumption, CountTypes DEF Inc
        <5>3. gw'[channel].rseq = Inc(gw[channel].rseq)
          BY <1>1, <3>2, <4>1 DEF GwType
        <5> QED
          BY <3>2, <4>2, <4>3, <5>2, <5>3
      <4>5. \A i \in Answered' : toClient'[i].seq < Len(accepted')
        <5>1. f.seq < Len(accepted')
          BY <4>2, <4>3, CountTypes
        <5>2. \A j \in Answered : toClient[j].seq < Len(accepted')
          <6>1. \A j \in Answered : toClient[j].seq < Len(accepted) /\ toClient[j].seq \in Nat
            BY <3>1, Queues DEF InCount, Answered, GatewayFrames
          <6> QED
            BY <4>2, <4>3, <6>1, CountTypes
        <5> QED
          BY <2>1, <5>1, <5>2
      <4>6. \A i \in Reqs' : /\ toGateway'[i].channel = channel /\ toGateway'[i].seq <= seqNumber
                             /\ toGateway'[i].seq = seqNumber => seqMu = toGateway'[i].payload
        BY <2>2, <3>1 DEF InCount
      <4> QED
        BY <1>1, <4>3, <4>4, <4>5, <4>6 DEF InCount
    <3> QED
      BY <3>3, <3>4
  <2> QED
    BY <1>1, <1>4, <2>5, <2>6 DEF ConfirmInv, NothingYet, CountInv
<1> QED
  BY <1>5, <1>6 DEF GwRequest

(* Every step of the gateway.                                              *)
LEMMA GatewayConfirm ==
  ASSUME SystemInv, Plain, ConfirmInv, Gateway
  PROVE  ConfirmInv'
<1>1. CASE GwHandle
  <2> DEFINE f == Head(toGateway)
  <2>1. Handled(f)
    BY <1>1 DEF GwHandle, Handled, ClientWaits
  <2> HIDE DEF f
  <2>2. \/ f.type = "ConnReq" /\ GwConnect /\ UNCHANGED <<accepted, confirmed>>
        \/ f.type = "TunnelReq" /\ GwRequest(f) /\ UNCHANGED confirmed
        \/ f.type = "ConnStateReq" /\ GwState(f) /\ UNCHANGED <<gw, accepted, confirmed>>
        \/ f.type = "DiscReq" /\ GwDisconnect(f) /\ UNCHANGED <<accepted, confirmed>>
        \/ f.type = "TunnelRes" /\ GwAcknowledged(f) /\ UNCHANGED <<accepted, toClient>>
        \/ f.type = "DiscRes" /\ UNCHANGED <<gw, accepted, confirmed, toClient>>
    BY <1>1 DEF GwHandle, f
  <2> QED
    BY <2>1, <2>2, GwConnectConfirm, GwRequestConfirm, GwOtherConfirm
<1>2. ASSUME NEW ch \in Channels, GwTelegram(ch) \/ GwRepeat(ch) \/ GwDrop(ch)
      PROVE  ConfirmInv'
  <2>1. ClientWaits /\ UNCHANGED <<accepted, toGateway>> /\ gw \in GwType
    BY <1>2 DEF GwTelegram, GwRepeat, GwDrop, gwVars, vars, ClientWaits, SystemInv, GatewayTypeOK,
       GwType
  <2>2. ReqsKept
    BY <2>1, Queues, QueueKept
  <2>3. AnswersStay
    <3>1. CASE GwDrop(ch)
      <4> DEFINE g == [type |-> "DiscReq", channel |-> ch]
      <4>1. g \in GatewayFrames /\ g.type # "TunnelRes" /\ Answers(g)
        BY <3>1 DEF GatewayFrames, GwDrop
      <4> HIDE DEF g
      <4> QED
        BY <4>1, AnswersCalm
    <3>2. ASSUME NEW t \in Telegrams,
                 Answers([type |-> "TunnelReq", channel |-> ch, seq |-> gw[ch].sseq, payload |-> t])
          PROVE  AnswersStay
      <4> DEFINE g == [type |-> "TunnelReq", channel |-> ch, seq |-> gw[ch].sseq, payload |-> t]
      <4>1. g \in GatewayFrames /\ g.type # "TunnelRes" /\ Answers(g)
        BY <2>1, <3>2 DEF GatewayFrames, GwType
      <4> HIDE DEF g
      <4> QED
        BY <4>1, AnswersCalm
    <3>3. CASE GwTelegram(ch)
      BY <3>2, <3>3 DEF GwTelegram
    <3>4. CASE GwRepeat(ch)
      BY <2>1, <3>2, <3>4 DEF GwRepeat, GwType
    <3> QED
      BY <1>2, <3>1, <3>3, <3>4
  <2>4. CountsKept /\ \A dh \in Channels : gw'[dh].rseq \in {gw[dh].rseq, 0}
    <3>1. CASE GwDrop(ch)
      <4>1. gw[ch].state = "open" /\ gw' = [gw EXCEPT ![ch] = Closed]
        BY <3>1 DEF GwDrop, Open
      <4>2. CountsKept
        BY <2>1, <4>1, ConnectionEnded
      <4> QED
        BY <2>1, <4>1, <4>2 DEF GwType, Closed
    <3>2. CASE GwTelegram(ch)
      <4>1. \A dh \in Channels : gw'[dh].state = gw[dh].state /\ gw'[dh].rseq = gw[dh].rseq
        BY <2>1, <3>2 DEF GwTelegram, GwType
      <4> QED
        BY <4>1 DEF CountsKept
    <3>3. CASE GwRepeat(ch)
      BY <3>3, GwSame DEF GwRepeat, gwVars
    <3> QED
      BY <1>2, <3>1, <3>2, <3>3
  <2> QED
    BY <2>1, <2>2, <2>3, <2>4, GatewayCalm
<1> QED
  BY <1>1, <1>2 DEF Gateway
-----------------------------------------------------------------------------
(* Nothing has happened at the beginning.                                  *)
LEMMA ConfirmInit == SystemInit => ConfirmInv
<1> SUFFICES ASSUME SystemInit PROVE ConfirmInv
  OBVIOUS
<1>1. /\ toClient = <<>> /\ toGateway = <<>> /\ srv = "dial" /\ epoch = 0 /\ closer = "open"
      /\ accepted = <<>> /\ BagToSet(acks) = {} /\ seqNumber = 0 /\ seqMu = NoOne
      /\ \A c \in Calls : pc[c] = "new"
  BY EmptyBagSet DEF SystemInit, Init
<1>2. Reqs = {} /\ Answered = {} /\ ToSet(accepted) = {} /\ Len(accepted) = 0
  BY <1>1 DEF Reqs, Answered, ToSet
<1>3. \A ch \in Channels : gw[ch].rseq = 0
  BY DEF SystemInit, Closed
<1>4. ServerPlaces /\ NothingYet
  BY <1>1, <1>2, <1>3 DEF ServerPlaces, NothingYet
<1>5. RelaysBehind
  BY <1>1, <1>2 DEF RelaysBehind, ConfirmedIsAccepted
<1> QED
  BY <1>1, <1>4, <1>5 DEF ConfirmInv, CountInv

(* Every step keeps the counts, if no write to an open socket fails.       *)
LEMMA ConfirmNext ==
  ASSUME Plain, Writable, SystemInv, ConfirmInv, [SystemNext]_sysVars
  PROVE  ConfirmInv'
<1>1. CASE Client /\ UNCHANGED <<gwVars, toClient>>
  <2>1. Waits
    BY <1>1 DEF Waits
  <2> QED
    BY <1>1, <2>1, ConnectConfirm, ResetConfirm, CallConfirm, RequestConfirm, ResendConfirm,
       GivesUpConfirm, AcknowledgedConfirm, StaysConfirm, EndsConfirm
       DEF Client, Sending, Closing, Plain
<1>2. CASE Arrives
  BY <1>2, ArrivesConfirm
<1>3. CASE Gateway
  BY <1>3, GatewayConfirm
<1>4. CASE UNCHANGED sysVars
  <2>1. /\ UNCHANGED <<seqNumber, seqMu, acks, pc, channel, srv, epoch, closer, toGateway>> /\ Waits
    BY <1>4 DEF sysVars, vars, callVars, srvVars, endVars, Waits
  <2>2. ServerPlaces' /\ (SockClosed => SockClosed')
    BY <2>1, PlacesKept DEF ConfirmInv
  <2> QED
    BY <2>1, <2>2, Writes, ClientCalm
<1> QED
  BY <1>1, <1>2, <1>3, <1>4 DEF SystemNext

(* Send returns nil only for a message the gateway has accepted, on the    *)
(* first connection, until a call times out or has been given a number a   *)
(* second time (requestTunnel): acknowledgements that are late, repeated   *)
(* or overtaken by the end of the server never confirm the next call.      *)
THEOREM ConfirmedUndisturbedCorrect ==
  Plain /\ Writable => (SystemSpec => [](Len(accepted) < SeqSpace => ConfirmedUndisturbed))
<1> SUFFICES ASSUME Plain, Writable
             PROVE  SystemSpec => [](Len(accepted) < SeqSpace => ConfirmedUndisturbed)
  OBVIOUS
<1>1. SystemSpec => []SystemInv
  BY SystemInvariance
<1>2. SystemInv /\ ConfirmInv /\ [SystemNext]_sysVars => ConfirmInv'
  BY ConfirmNext
<1>3. ConfirmInv => (Len(accepted) < SeqSpace => ConfirmedUndisturbed)
  BY DEF ConfirmInv, CountInv, Undisturbed, RelaysBehind, ConfirmedUndisturbed
<1> QED
  BY <1>1, <1>2, <1>3, ConfirmInit, PTL DEF SystemSpec
=============================================================================
