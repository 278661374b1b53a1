------------------------------- MODULE Codecs -------------------------------
(***************************************************************************)
(* What the library writes and reads: packets, datapoint values, texts     *)
(* given as values, addresses and catalogs.  An item is written, its       *)
(* packet may be damaged on the way, it is read, and what was read is      *)
(* written and read once more, as a relay or an export does.               *)
(*                                                                         *)
(* An item that was not made by this library but by a peer starts as it is *)
(* on the wire.  form is a datapoint type or an address format.            *)
(***************************************************************************)
EXTENDS Integers, Sequences, FiniteSets

CONSTANT NaN  \* the float32 that is no number (see DPT)

K == INSTANCE KNXnet
D == INSTANCE DPT
A == INSTANCE Addresses
G == INSTANCE Arguments

CONSTANTS
  Services,          \* services that are packed
  PeerPackets,       \* [value, wire]: what peers send, and what it means
  Values(_),         \* values of a datapoint type
  Payloads(_),       \* data of telegrams to groups of a datapoint type
  Texts,             \* texts given as values
  GroupTexts, GroupAddrs, PhysicalTexts, PhysicalAddrs,
  Documents,         \* group address documents
  Changes            \* what a damaged octet may become

(* What a gateway makes of a service that it alone sends: the header and   *)
(* the body.  Of a description it sends any blocks that are read as it.    *)
Framed(service, body) ==
  <<6, 16>> \o K!U16(K!IDs[service]) \o K!U16(6 + Len(body)) \o body

SearchResult(v) ==
  K!PackHostInfo(v.control) \o K!PackDevice(v.device).value \o K!PackServices(v.services)

PeerSends(v, packet) ==
  \/ /\ v \in [service : {"SearchRes"}, control : K!HostInfos, device : K!Devices,
               services : K!Families]
     /\ packet = Framed("SearchRes", SearchResult(v))
  \/ /\ v \in [service : {"RoutingLost"}, status : K!Byte, count : K!Word]
     /\ packet = Framed("RoutingLost", <<4, v.status>> \o K!U16(v.count))
  \/ /\ v \in [service : {"RoutingBusy"}, status : K!Byte, wait : K!Word, busyControl : K!Word]
     /\ packet = Framed("RoutingBusy", <<6, v.status>> \o K!U16(v.wait) \o K!U16(v.busyControl))
  \/ /\ v.service = "DescriptionRes" /\ packet \in Seq(K!Byte)
     /\ K!Unpack(packet).res = "ok" /\ K!Unpack(packet).value = v

ASSUME PeerAssumption ==
  /\ \A p \in PeerPackets : PeerSends(p.value, p.wire)
  /\ Changes \subseteq K!Byte

(* A packet fits one datagram.                                             *)
ASSUME PacketAssumption ==
  \A srv \in Services :
    \/ srv.service \in K!PackPanics
    \/ /\ srv \in K!ServicePackable
       /\ K!SizeService(srv) + 6 \in K!Word

(* No number is no number.                                                 *)
ASSUME FloatAssumption == NaN \notin Int

(* Values are what Go's types hold, whatever a telegram may bring.  What a  *)
(* text is to the parsers has 32 bits (see DPT.tla and Arguments.tla), and *)
(* JSON has no NaN.                                                        *)
ASSUME ValueAssumption ==
  /\ \A id \in D!Registered :
       Values(id) \subseteq D!ValuesOf(D!FormatOf(id)) /\ Payloads(id) \subseteq Seq(K!Byte)
  /\ \A text \in Texts :
       /\ text.bool \subseteq {0, 1} /\ text.int \cup text.bits \subseteq D!Long
       /\ text.hundredths \subseteq {NaN} \cup Int /\ text.chars \in Seq(Nat)
       /\ text.json = "number" => NaN \notin text.hundredths

(* No device has the address 0.                                            *)
ASSUME AddressAssumption ==
  /\ GroupTexts \cup PhysicalTexts \subseteq Seq(Int)
  /\ GroupAddrs \cup PhysicalAddrs \subseteq A!Address \ {0}

VARIABLES
  item,     \* [kind, form, made, value]
  stage,    \* how far it is
  damage,   \* what happened to its packet
  wire,     \* what was written: [res, value, n] as in Wire
  got,      \* what was read
  again     \* what was read when that was written once more

vars == <<item, stage, damage, wire, got, again>>

Nothing == K!Fails

(* A parse of an address, and what a catalog is written as. *)
Address(a) == IF a = A!NoAddress THEN K!Fails ELSE K!Got(a, 0)
CatalogOf(c) == IF c.error THEN K!Fails ELSE K!Got(c, 0)

(* What a program writes for a value: one of a set of outcomes.  The text  *)
(* of an address is read into a number, a document into a catalog.         *)
Written(kind, form, v) ==
  CASE kind = "packet" -> {K!Pack(v)}
    [] kind = "value" -> {K!Got(data, Len(data)) : data \in D!Pack(form, v)}
    [] kind = "text" -> D!EncodeDPTFromStringN(form, v)
    [] kind = "argument" -> G!EncodeDatapointValue(form, v)
    [] kind = "group" -> {Address(A!NewGroupAddrString(v))}
    [] kind = "physical" -> {Address(A!NewPhysicalAddrString(v))}
    [] kind = "catalog" -> {CatalogOf(G!Import(v))}

Read(kind, form, w) ==
  CASE kind = "packet" -> K!Unpack(w)
    [] kind \in {"value", "text", "argument"} -> D!Unpack(form, w)
    [] kind = "group" -> K!Got(A!FormatGroup(w, form), 0)
    [] kind = "physical" -> K!Got(A!FormatPhysical(w, form), 0)
    [] kind = "catalog" -> K!Got(G!Export(w), 0)

(* A text that was read as a value goes on as a value. *)
Onward(kind) == IF kind \in {"text", "argument"} THEN "value" ELSE kind

-----------------------------------------------------------------------------
Item(kind, form, v) ==
  /\ item = [kind |-> kind, form |-> form, made |-> TRUE, value |-> v]
  /\ stage = "made" /\ wire = Nothing

FromPeer(kind, form, v, w) ==
  /\ item = [kind |-> kind, form |-> form, made |-> FALSE, value |-> v]
  /\ stage = "sent" /\ wire = K!Got(w, 0)

AddressForms == {"Free", "TwoLevel", "ThreeLevel"}

Init ==
  /\ damage = "none" /\ got = Nothing /\ again = Nothing
  /\ \/ \E srv \in Services : Item("packet", "", srv)
     \/ \E p \in PeerPackets : FromPeer("packet", "", p.value, p.wire)
     \/ \E id \in D!Registered :
          \/ \E v \in Values(id) : Item("value", id, v)
          \/ \E data \in Payloads(id) : FromPeer("value", id, <<>>, data)
          \/ \E text \in Texts : Item("text", id, text) \/ Item("argument", id, text)
     \/ \E form \in AddressForms :
          \/ \E text \in GroupTexts : Item("group", form, text)
          \/ \E a \in GroupAddrs : FromPeer("group", form, <<>>, a)
          \/ \E text \in PhysicalTexts : Item("physical", form, text)
          \/ \E a \in PhysicalAddrs : FromPeer("physical", form, <<>>, a)
     \/ \E doc \in Documents : Item("catalog", "", doc)

Write ==
  /\ stage = "made" /\ stage' = "sent"
  /\ wire' \in Written(item.kind, item.form, item.value)
  /\ UNCHANGED <<item, damage, got, again>>

OnTheWay == stage = "sent" /\ item.kind = "packet" /\ damage = "none" /\ wire.res = "ok"

(* The datagram is shorter than what was sent. *)
Cut ==
  /\ OnTheWay /\ damage' = "cut"
  /\ \E k \in 0..Len(wire.value) - 1 : wire' = K!Got(SubSeq(wire.value, 1, k), 0)
  /\ UNCHANGED <<item, stage, got, again>>

(* One octet is another one. *)
Change ==
  /\ OnTheWay /\ damage' = "changed"
  /\ \E i \in 1..Len(wire.value), b \in Changes :
       /\ b # wire.value[i]
       /\ wire' = K!Got([wire.value EXCEPT ![i] = b], 0)
  /\ UNCHANGED <<item, stage, got, again>>

Receive ==
  /\ stage = "sent" /\ wire.res = "ok" /\ stage' = "read"
  /\ got' = Read(item.kind, item.form, wire.value)
  /\ UNCHANGED <<item, damage, wire, again>>

(* What was read is written and read again; RoutingLost and RoutingBusy    *)
(* are not packed by anyone.                                               *)
Packs(v) ==
  IF item.kind = "packet" THEN v.service \notin {"RoutingLost", "RoutingBusy"} ELSE TRUE

Relay ==
  /\ stage = "read" /\ got.res = "ok" /\ Packs(got.value) /\ stage' = "relayed"
  /\ \E w \in Written(Onward(item.kind), item.form, got.value) :
       again' = IF w.res = "ok" THEN Read(item.kind, item.form, w.value) ELSE w
  /\ UNCHANGED <<item, damage, wire, got>>

Next == Write \/ Cut \/ Change \/ Receive \/ Relay

Spec == Init /\ [][Next]_vars
-----------------------------------------------------------------------------
(* What a service means to whoever reads it: the payload of a telegram has *)
(* at least one octet and six bits in its first, and a message is the one  *)
(* its code stands for.                                                    *)
UnitMeant(u) ==
  IF u.control
    THEN [u EXCEPT !.seq = IF u.numbered THEN @ ELSE 0]
    ELSE [u EXCEPT !.data = [K!AppBytes(u) EXCEPT ![1] = @ % 64],
                   !.seq = IF u.numbered THEN @ ELSE 0]

MessageMeant(m) ==
  IF m.type \in K!LDataTypes THEN [m EXCEPT !.unit = UnitMeant(@)]
  ELSE IF m.type = "LRawInd" THEN [m EXCEPT !.type = "LRawCon"]
  ELSE m

Carries == {"TunnelReq", "RoutingInd"}
Meant(srv) ==
  IF srv.service \in Carries THEN [srv EXCEPT !.payload = MessageMeant(@)] ELSE srv

(* PacketsArrive: a packet that is not damaged is read as the service it   *)
(* was written for or, from a peer, the one it means; what Size promised   *)
(* is what was written, and what the header says.  (The L_Raw.ind of this  *)
(* library is the one message that arrives as another, an L_Raw.con; it    *)
(* cannot pack a search or a description response.)                        *)
PacketsArrive ==
  item.kind = "packet" /\ damage = "none" =>
    /\ stage # "made" /\ item.made /\ wire.res = "ok" =>
         /\ Len(wire.value) = wire.n
         /\ K!UnpackHeader(wire.value).value.total = wire.n
    /\ stage # "made" /\ wire.res # "ok" => item.value.service \in K!PackPanics
    /\ stage \in {"read", "relayed"} => got.res = "ok" /\ got.value = Meant(item.value)

(* The data of a telegram cut short: what is left, then zeros. *)
Beginning(cut, whole) ==
  /\ Len(cut) = Len(whole)
  /\ \E k \in 0..Len(whole) : \A i \in 1..Len(whole) :
       cut[i] = IF i <= k THEN whole[i] ELSE 0

CutUnit(u, meant) ==
  IF meant.control THEN u = meant
  ELSE /\ [u EXCEPT !.data = <<>>] = [meant EXCEPT !.data = <<>>]
       /\ Beginning(u.data, meant.data)

CutMessage(m, meant) ==
  IF meant.type \in K!LDataTypes
    THEN [m EXCEPT !.unit = meant.unit] = meant /\ CutUnit(m.unit, meant.unit)
    ELSE [m EXCEPT !.body = meant.body] = meant
         /\ \E k \in 0..Len(meant.body) : m.body = SubSeq(meant.body, 1, k)

CutService(v, meant) ==
  /\ v.service = meant.service
  /\ IF v.service \in Carries
       THEN [v EXCEPT !.payload = meant.payload] = meant /\ CutMessage(v.payload, meant.payload)
     ELSE IF v.service = "Unknown"
       THEN v.id = meant.id /\ \E k \in 0..Len(meant.data) : v.data = SubSeq(meant.data, 1, k)
     ELSE IF v.service = "DescriptionRes"
       THEN /\ v.device \in {<<>>, meant.device}
            /\ v.services \in {[type |-> 0, families |-> <<>>], meant.services}
            /\ \E k \in 0..Len(meant.unknown) : v.unknown = SubSeq(meant.unknown, 1, k)
     ELSE v = meant

(* CutIsNoTelegram: a packet that was cut short, whose total length nobody *)
(* compares, is rejected, or read as what it was but for a tail: the end   *)
(* of a telegram's data become zeros, the end of a raw frame or of an      *)
(* unknown service, blocks of a description.  It never has another         *)
(* addressee, number, status or command.                                   *)
CutIsNoTelegram ==
  item.kind = "packet" /\ damage = "cut" /\ stage = "read" /\ got.res = "ok" =>
    CutService(got.value, Meant(item.value))

(* AcceptedIsForwardable: whatever packet is accepted, damaged or not, is  *)
(* read the same when it is packed and read once more, so that a relay     *)
(* passes on what it received.                                             *)
AcceptedIsForwardable ==
  item.kind = "packet" /\ stage = "relayed" =>
    \/ got.value.service \in K!PackPanics
    \/ again.res = "ok" /\ again.value = Meant(got.value)

-----------------------------------------------------------------------------
(* The value that is read for one that was written.  A number of two       *)
(* octets is cut towards zero to the resolution it has, after a float32    *)
(* may have rounded a large one up; a fraction loses at most one 255th; a  *)
(* scene, a number of main number 9 and a text are brought into their      *)
(* limits; a date that is none is the first there is, a time that is none  *)
(* is midnight; and no number becomes a number.                            *)
Resolution(v) == 2^((D!PackF16(v)[2] \div 8) % 16)

Shown(text, last) ==
  LET stops == {i \in 1..Len(text) : text[i] = 0 \/ i = 15}
      n == IF stops = {} THEN Len(text) ELSE (CHOOSE i \in stops : \A j \in stops : i <= j) - 1
  IN  [i \in 1..n |-> IF text[i] > last THEN 32 ELSE text[i]]

Near(id, v, w) ==
  LET f == D!FormatOf(id)
  IN CASE f = "F16" ->
            LET c == D!Limited(v, D!Limits(id))
                size == IF c >= 0 THEN c ELSE -c
                loss == IF c >= 0 THEN c - w ELSE w - c
            IN  IF v = NaN THEN w \in {-32768, 0}
                ELSE /\ loss \in -D!FloatStep(size)..2 * Resolution(c) - 1
                     /\ w = 0 \/ (w > 0) = (c > 0)
       [] f = "Scaled" ->
            LET c == IF v < 0 THEN 0 ELSE IF v > 255 THEN 255 ELSE v
            IN  IF v = NaN THEN w = 0 ELSE w \in {c, c - 1} /\ w >= 0
       [] f \in {"Scene", "SceneControl"} -> w = IF D!InScenes(v, f) THEN v ELSE 63
       [] f = "ASCII" -> w = Shown(v, 127)
       [] f = "Latin1" -> w = Shown(v, 255)
       [] f = "Date" -> w = IF D!DateValid(v) THEN v ELSE [year |-> 1990, month |-> 1, day |-> 1]
       [] f = "Time" ->
            w = IF D!TimeValid(v) THEN v
                ELSE [weekday |-> 0, hour |-> 0, minute |-> 0, second |-> 0]
       [] f = "DateTime" ->
            w = [flags |-> IF v.date = D!Midnight THEN v.flags ELSE D!Derived(v),
                 date |-> v.date, dst |-> FALSE]
       [] OTHER -> w = v

(* What Pack makes of a value is read as the one that was meant.  Two are  *)
(* not: an invalid date and time is refused, and NaN, which Pack takes for *)
(* -327.68 on amd64, by the types that end above that.                     *)
Arrives(id, v, read) ==
  LET f == D!FormatOf(id)
  IN  IF f = "DateTime" /\ ~D!DateTimeValid(v) THEN read.res = "error"
      ELSE \/ read.res = "ok" /\ Near(id, v, read.value)
           \/ /\ read.res = "error" /\ f = "F16"
              /\ v = NaN /\ D!Limits(id)[1] > -32768

(* ValuesArrive: what Pack makes of any value, Unpack of the same type     *)
(* reads as the value that was meant within the type's limits and          *)
(* resolution (but for NaN and a date that is none, above); and so on for  *)
(* what was received, from whatever data a bus telegram has, and is sent   *)
(* on, which is never refused.  Only a variable string has data that       *)
(* Unpack slices beyond.                                                   *)
ValuesArrive ==
  item.kind = "value" =>
    /\ stage = "read" /\ item.made => Arrives(item.form, item.value, got)
    /\ stage = "relayed" => again.res = "ok" /\ Near(item.form, got.value, again.value)
    /\ got.res = "outside" => item.form = <<28, 1>> /\ Len(wire.value) < 2

(* TextsArrive: a text that is accepted as the value of a type, by the     *)
(* HTTP API or by knxctl, is sent as data that the type reads as the       *)
(* number, truth value or text it stands for; a number that does not fit   *)
(* its type is an error, and so is a text for a type that is a structure.  *)
(* What is accepted and not read as meant is NaN, by the API, and knxctl's *)
(* null for a date and time, whose zero is none.                           *)
Structures == {"Time", "Date", "DateTime", "xyY", "RGBW"}

StandsFor(kind, id, text) ==
  IF kind = "text" THEN D!Parsed(id, text) ELSE G!Decoded(id, text)

TextsArrive ==
  item.kind \in {"text", "argument"} =>
    LET f == D!FormatOf(item.form)
        null == item.kind = "argument" /\ item.value.json = "null"
    IN  /\ stage = "read" =>
             /\ \E v \in StandsFor(item.kind, item.form, item.value) :
                  Arrives(item.form, v, got)
             /\ got.res = "error" => \/ null /\ f = "DateTime"
                                     \/ item.kind = "text" /\ NaN \in item.value.hundredths
        /\ stage = "sent" /\ f \in Structures /\ ~null => wire.res = "error"

(* AddressesArrive: an address that was read from a text is written as     *)
(* that text, and one that was written is read as that address, in the     *)
(* free and in the three-level notation.  In two levels this is so only    *)
(* for group addresses of main group 0 and individual addresses below 256, *)
(* which have area and line 0.                                             *)
Consistent(kind, form, a) ==
  \/ form # "TwoLevel"
  \/ kind = "group" /\ a < 256
  \/ kind = "physical" /\ a < 256

Levels(form) == CASE form = "Free" -> 1 [] form = "TwoLevel" -> 2 [] OTHER -> 3

AddressesArrive ==
  item.kind \in {"group", "physical"} =>
    /\ stage = "read" /\ item.made /\ Len(item.value) = Levels(item.form)
         /\ Consistent(item.kind, item.form, wire.value) => got.value = item.value
    /\ stage = "relayed" /\ Consistent(item.kind, item.form, wire.value) =>
         again.value = got.value

(* CatalogSurvives: a document that is imported becomes a catalog whose    *)
(* names and addresses are those of one group each, which knxctl finds by  *)
(* them, and by whose first type it encodes; exported and imported it has  *)
(* the same groups, and exported again it is the same document.            *)
FoundBy(c, g) ==
  /\ \A case \in {0, 1} :
        G!ResolveGroupTarget({c}, [g.name EXCEPT !.case = case], <<>>) = G!Target(g.address, {g})
  /\ \A form \in {"Free", "ThreeLevel"} :
        G!ResolveGroupTarget({c}, [word |-> "", case |-> 0], A!FormatGroup(g.address, form))
          = G!Target(g.address, {g})
  /\ G!ResolveDatapointType({}, {g}) = {g.dpts[1]}
  /\ \A i \in 1..Len(g.dpts) : G!ResolveDatapointType({D!DPST(g.dpts[i])}, {}) = {g.dpts[i]}

CatalogSurvives ==
  item.kind = "catalog" =>
    /\ wire.res = "ok" =>
         \A g, h \in {wire.value.groups[i] : i \in 1..Len(wire.value.groups)} :
           /\ FoundBy(wire.value, g)
           /\ g # h => g.name.word # h.name.word /\ g.address # h.address
    /\ stage \in {"read", "relayed"} =>
         LET back == G!Import(got.value)
         IN  ~back.error /\ G!Range(back.groups) = G!Range(wire.value.groups)
    /\ stage = "relayed" => again = got
=============================================================================
