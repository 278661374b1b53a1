------------------------------- MODULE KNXnet -------------------------------
(***************************************************************************)
(* knx/knxnet: the services of KNXnet/IP and the packets they travel in.   *)
(* A service names its Go type.  ServicePackable is implemented by all but *)
(* RoutingLost and RoutingBusy, which are only received.                   *)
(***************************************************************************)
EXTENDS CEMI

IDs ==
  [SearchReq |-> 513, SearchRes |-> 514, DescriptionReq |-> 515,
   DescriptionRes |-> 516, ConnReq |-> 517, ConnRes |-> 518,
   ConnStateReq |-> 519, ConnStateRes |-> 520, DiscReq |-> 521,
   DiscRes |-> 522, TunnelReq |-> 1056, TunnelRes |-> 1057,
   RoutingInd |-> 1328, RoutingLost |-> 1329, RoutingBusy |-> 1330]

ServiceID(srv) ==
  IF srv.service = "Unknown" THEN srv.id ELSE IDs[srv.service]

-----------------------------------------------------------------------------
(* Host information: the protocol (1 UDP, 2 TCP), an IPv4 address and a    *)
(* port.                                                                   *)
HostInfos == [protocol : Byte, address : Bytes(4), port : Word]

PackHostInfo(h) == <<8, h.protocol>> \o h.address \o U16(h.port)

UnpackHostInfo(data) ==
  IF Len(data) < 8 \/ data[1] # 8 THEN Fails
  ELSE Got([protocol |-> data[2], address |-> SubSeq(data, 3, 6),
            port |-> N16(data, 7)], 8)

(* What a socket's address becomes; an address is its IP version, its      *)
(* octets (none when there is no IP), its port and its network.            *)
HostInfoFromAddress(addr) ==
  IF \/ addr.version # 4 \/ addr.port = 0
     \/ addr.network \notin {"udp", "tcp"}
    THEN Fails
    ELSE Got([protocol |-> IF addr.network = "udp" THEN 1 ELSE 2,
              address |-> addr.octets, port |-> addr.port], 8)

-----------------------------------------------------------------------------
(* Blocks of a device's description.  The device block has 54 octets, the  *)
(* last 30 of them the device's name.                                      *)
NameWidth == 30
SizeDevice == 54
SizeServices(families) == 2 + 2 * Len(families)

(* A name is shorter than its field and does not end in a zero; the blocks *)
(* of one length octet hold up to 126 families.                            *)
Devices ==
  [type : Byte, medium : Byte, status : Byte, source : Word, project : Word,
   serial : Bytes(6), multicast : Bytes(4), hardware : Bytes(6),
   name : {s \in Seq(Byte) : Len(s) < NameWidth /\ (s = <<>> \/ s[Len(s)] # 0)}]

Families ==
  [type : Byte, families : {s \in Seq([type : Byte, version : Byte]) : Len(s) <= 126}]

PackDevice(d) ==
  Then(PackString(NameWidth, d.name), LAMBDA name, n :
    Got(<<SizeDevice, d.type, d.medium, d.status>> \o U16(d.source)
          \o U16(d.project) \o d.serial \o d.multicast \o d.hardware \o name,
        SizeDevice))

PackServices(s) ==
  <<SizeServices(s.families) % 256, s.type>>
    \o [i \in 1..2 * Len(s.families) |->
          LET f == s.families[(i + 1) \div 2]
          IN  IF i % 2 = 1 THEN f.type ELSE f.version]

(* block is the slice handed to the decoder and packet what the packet     *)
(* holds from there on: the name is sliced up to the end of the buffer,    *)
(* and only then is the length compared.                                   *)
UnpackDevice(block, packet) ==
  IF Len(block) < SizeDevice - NameWidth THEN Fails
  ELSE IF Len(packet) < SizeDevice THEN Outside
  ELSE IF block[1] # SizeDevice THEN Fails
  ELSE Got([type |-> block[2], medium |-> block[3], status |-> block[4],
            source |-> N16(block, 5), project |-> N16(block, 7),
            serial |-> SubSeq(block, 9, 14), multicast |-> SubSeq(block, 15, 18),
            hardware |-> SubSeq(block, 19, 24),
            name |-> UnpackString(SubSeq(packet, 25, SizeDevice))], SizeDevice)

(* Families are read while their octets do not reach the length, which is  *)
(* then compared with the size of all the families the structure has       *)
(* collected, the ones of an earlier block included.                       *)
UnpackServices(block, before) ==
  IF Len(block) < 2 THEN Fails
  ELSE LET count == IF block[1] < 2 THEN 0 ELSE (block[1] - 1) \div 2
           read == [i \in 1..count |->
                      [type |-> block[2 * i + 1], version |-> block[2 * i + 2]]]
       IN  IF \/ Len(block) < 2 + 2 * count
              \/ block[1] # SizeServices(before \o read) % 256
             THEN Fails
             ELSE Got([type |-> block[2], families |-> before \o read],
                      2 + 2 * count)

(* DescriptionBlock.Unpack, one block at a time from byte n on.  state is  *)
(* the outcome so far: a block of length 0 that the switch ignores leaves  *)
(* n where it is, so that the loop never ends.                             *)
Skipped == {3, 4, 5, 254}

NextBlock(data, s) ==
  LET rest == From(data, s.n)
      length == rest[1]
      type == rest[2]
      Kept(u) == [s EXCEPT !.n = s.n + length, !.unknown = u]
  IN  IF Len(rest) < 2 THEN [s EXCEPT !.res = "error"]
      ELSE IF type \in {1, 2} /\ length > Len(rest)
        THEN [s EXCEPT !.res = "outside"]
      ELSE IF type = 1
        THEN LET r == UnpackDevice(SubSeq(rest, 1, length), rest)
             IN  IF r.res = "ok"
                   THEN [s EXCEPT !.n = s.n + length, !.device = <<r.value>>]
                   ELSE [s EXCEPT !.res = r.res]
      ELSE IF type = 2
        THEN LET r == UnpackServices(SubSeq(rest, 1, length), s.services.families)
             IN  IF r.res = "ok"
                   THEN [s EXCEPT !.n = s.n + length, !.services = r.value]
                   ELSE [s EXCEPT !.res = r.res]
      ELSE IF type \in Skipped /\ length > 2
        (* data[n+2 : n+length-2]: two octets short of the block. *)
        THEN IF length = 3 \/ length - 2 > Len(rest)
               THEN [s EXCEPT !.res = "outside"]
               ELSE Kept(Append(s.unknown,
                                [type |-> type, data |-> SubSeq(rest, 3, length - 2)]))
      ELSE Kept(s.unknown)

(* Every block that is passed has at least one octet, so that as many      *)
(* rounds as there are octets are all there can be.                        *)
UnpackDescription(data) ==
  LET none == [res |-> "ok", n |-> 0, device |-> <<>>, unknown |-> <<>>,
               services |-> [type |-> 0, families |-> <<>>]]
      after[k \in 0..Len(data)] ==
        IF k = 0 THEN none
        ELSE LET s == after[k - 1]
             IN  IF s.res # "ok" \/ s.n >= Len(data) THEN s
                 ELSE NextBlock(data, s)
      s == after[Len(data)]
  IN  IF s.res # "ok" THEN [res |-> s.res]
      ELSE IF s.n < Len(data) THEN [res |-> "loops"]
      ELSE Got([device |-> s.device, services |-> s.services,
                unknown |-> s.unknown], s.n)

-----------------------------------------------------------------------------
(* The services that can be packed, and their sizes as the Size methods    *)
(* say; a search and a description response are not packed, see below.     *)
ServicePackable ==
  [service : {"SearchReq", "DescriptionReq"}, control : HostInfos]
    \cup [service : {"ConnReq"}, control : HostInfos, tunnel : HostInfos, layer : Byte]
    \cup [service : {"ConnRes"}, channel : Byte, status : {0}, control : HostInfos]
    \cup [service : {"ConnRes"}, channel : Byte, status : Byte \ {0}]
    \cup [service : {"ConnStateReq", "DiscReq"}, channel : Byte, status : Byte,
          control : HostInfos]
    \cup [service : {"ConnStateRes", "DiscRes"}, channel : Byte, status : Byte]
    \cup [service : {"TunnelReq"}, channel : Byte, seq : Byte, payload : Messages]
    \cup [service : {"TunnelRes"}, channel : Byte, seq : Byte, status : Byte]
    \cup [service : {"RoutingInd"}, payload : Messages]
    \cup [service : {"Unknown"}, data : Seq(Byte),
          id : Word \ {IDs[s] : s \in DOMAIN IDs}]

SizeService(srv) ==
  CASE srv.service \in {"SearchReq", "DescriptionReq"} -> 8
    [] srv.service = "SearchRes" ->
         8 + SizeDevice + SizeServices(srv.services.families)
    [] srv.service = "DescriptionRes" ->
         SizeDevice + SizeServices(srv.services.families)
    [] srv.service = "ConnReq" -> 20
    [] srv.service = "ConnRes" -> IF srv.status = 0 THEN 14 ELSE 2
    [] srv.service \in {"ConnStateReq", "DiscReq"} -> 10
    [] srv.service \in {"ConnStateRes", "DiscRes"} -> 2
    [] srv.service = "TunnelReq" -> 4 + SizeMessage(srv.payload)
    [] srv.service = "TunnelRes" -> 4
    [] srv.service = "RoutingInd" -> SizeMessage(srv.payload)
    [] srv.service = "Unknown" -> Len(srv.data)

(* The bodies.  A SearchRes and a DescriptionRes hand structures to        *)
(* PackSome whose Pack has a pointer receiver, which it cannot pack: it    *)
(* stops with a panic.                                                     *)
PackService(srv) ==
  CASE srv.service \in {"SearchReq", "DescriptionReq"} -> PackHostInfo(srv.control)
    [] srv.service = "ConnReq" ->
         PackHostInfo(srv.control) \o PackHostInfo(srv.tunnel)
           \o <<4, 4, srv.layer, 0>>
    [] srv.service = "ConnRes" ->
         IF srv.status = 0
           THEN <<srv.channel, 0>> \o PackHostInfo(srv.control) \o <<4, 4, 0, 0>>
           ELSE <<srv.channel, srv.status>>
    [] srv.service \in {"ConnStateReq", "DiscReq"} ->
         <<srv.channel, srv.status>> \o PackHostInfo(srv.control)
    [] srv.service \in {"ConnStateRes", "DiscRes"} -> <<srv.channel, srv.status>>
    [] srv.service = "TunnelReq" ->
         <<4, srv.channel, srv.seq, 0>> \o PackMessage(srv.payload)
    [] srv.service = "TunnelRes" -> <<4, srv.channel, srv.seq, srv.status>>
    [] srv.service = "RoutingInd" -> PackMessage(srv.payload)
    [] srv.service = "Unknown" -> srv.data

PackPanics == {"SearchRes", "DescriptionRes"}

Pack(srv) ==
  IF srv.service \in PackPanics THEN Outside
  ELSE Got(<<6, 16>> \o U16(ServiceID(srv)) \o U16(SizeService(srv) + 6)
             \o PackService(srv), SizeService(srv) + 6)

-----------------------------------------------------------------------------
(* Bodies read back.                                                       *)
UnpackConnReq(data) ==
  IF Len(data) < 20 THEN Fails
  ELSE Then(UnpackHostInfo(data), LAMBDA control, n :
         Then(UnpackHostInfo(From(data, 8)), LAMBDA tunnel, k :
           IF data[17] # 4 \/ data[18] # 4 THEN Fails
           ELSE Got([service |-> "ConnReq", control |-> control,
                     tunnel |-> tunnel, layer |-> data[19]], 20)))

(* A status that was not read is 0: a body of less than two octets is      *)
(* sliced from its third on.  The connection response data that follows    *)
(* the host information is not looked at.                                  *)
UnpackConnRes(data) ==
  IF Len(data) < 2 THEN Outside
  ELSE IF data[2] # 0
    THEN Got([service |-> "ConnRes", channel |-> data[1], status |-> data[2]], 2)
  ELSE Then(UnpackHostInfo(From(data, 2)), LAMBDA control, n :
         Got([service |-> "ConnRes", channel |-> data[1], status |-> 0,
              control |-> control], 2 + n))

UnpackControlled(service, data) ==
  IF Len(data) < 2 THEN Fails
  ELSE Then(UnpackHostInfo(From(data, 2)), LAMBDA control, n :
         Got([service |-> service, channel |-> data[1], status |-> data[2],
              control |-> control], 2 + n))

UnpackStatus(service, data) ==
  IF Len(data) < 2 THEN Fails
  ELSE Got([service |-> service, channel |-> data[1], status |-> data[2]], 2)

UnpackTunnelReq(data) ==
  IF Len(data) < 4 \/ data[1] # 4 THEN Fails
  ELSE Then(UnpackMessage(From(data, 4)), LAMBDA m, n :
         Got([service |-> "TunnelReq", channel |-> data[2], seq |-> data[3],
              payload |-> m], 4 + n))

UnpackTunnelRes(data) ==
  IF Len(data) < 4 \/ data[1] # 4 THEN Fails
  ELSE Got([service |-> "TunnelRes", channel |-> data[2], seq |-> data[3],
            status |-> data[4]], 4)

UnpackRoutingInd(data) ==
  Then(UnpackMessage(data), LAMBDA m, n :
    Got([service |-> "RoutingInd", payload |-> m], n))

(* The lengths of these two are not compared with anything. *)
UnpackRoutingLost(data) ==
  IF Len(data) < 4 THEN Fails
  ELSE Got([service |-> "RoutingLost", status |-> data[2],
            count |-> N16(data, 3)], 4)

UnpackRoutingBusy(data) ==
  IF Len(data) < 6 THEN Fails
  ELSE Got([service |-> "RoutingBusy", status |-> data[2],
            wait |-> N16(data, 3), busyControl |-> N16(data, 5)], 6)

UnpackRequest(service, data) ==
  Then(UnpackHostInfo(data), LAMBDA control, n :
    Got([service |-> service, control |-> control], n))

(* A search response has its two blocks in this order and of any type.     *)
UnpackSearchRes(data) ==
  Then(UnpackHostInfo(data), LAMBDA control, n :
    Then(UnpackDevice(From(data, n), From(data, n)), LAMBDA device, k :
      Then(UnpackServices(From(data, n + k), <<>>), LAMBDA services, l :
        Got([service |-> "SearchRes", control |-> control, device |-> device,
             services |-> services], n + k + l))))

UnpackDescriptionRes(data) ==
  Then(UnpackDescription(data), LAMBDA di, n :
    Got([service |-> "DescriptionRes", device |-> di.device,
         services |-> di.services, unknown |-> di.unknown], n))

UnpackBody(service, data) ==
  CASE service \in {"SearchReq", "DescriptionReq"} -> UnpackRequest(service, data)
    [] service = "SearchRes" -> UnpackSearchRes(data)
    [] service = "DescriptionRes" -> UnpackDescriptionRes(data)
    [] service = "ConnReq" -> UnpackConnReq(data)
    [] service = "ConnRes" -> UnpackConnRes(data)
    [] service \in {"ConnStateReq", "DiscReq"} -> UnpackControlled(service, data)
    [] service \in {"ConnStateRes", "DiscRes"} -> UnpackStatus(service, data)
    [] service = "TunnelReq" -> UnpackTunnelReq(data)
    [] service = "TunnelRes" -> UnpackTunnelRes(data)
    [] service = "RoutingInd" -> UnpackRoutingInd(data)
    [] service = "RoutingLost" -> UnpackRoutingLost(data)
    [] service = "RoutingBusy" -> UnpackRoutingBusy(data)

(* Unpack: the header gives the service.  Its total length is read and not *)
(* compared with the packet.                                               *)
UnpackHeader(data) ==
  IF Len(data) < 6 \/ data[1] # 6 \/ data[2] # 16 THEN Fails
  ELSE Got([id |-> N16(data, 3), total |-> N16(data, 5)], 6)

Unpack(data) ==
  Then(UnpackHeader(data), LAMBDA header, n :
    LET services == {s \in DOMAIN IDs : IDs[s] = header.id}
        body == From(data, n)
    IN  IF services # {}
          THEN UnpackBody(CHOOSE s \in services : TRUE, body)
          ELSE Got([service |-> "Unknown", id |-> header.id, data |-> body],
                   Len(body)))
=============================================================================
