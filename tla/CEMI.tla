-------------------------------- MODULE CEMI --------------------------------
(***************************************************************************)
(* knx/cemi: the messages inside a tunnelling or routing request.  A       *)
(* message names its Go type; what is on the wire is the code its          *)
(* MessageCode method returns, and Unpack chooses the type by that code.   *)
(***************************************************************************)
EXTENDS Wire

LDataTypes == {"LDataReq", "LDataCon", "LDataInd"}
RawTypes == {"LRawReq", "LRawCon", "LRawInd", "LBusmonInd"}

CodeOf(type) ==
  CASE type = "LBusmonInd" -> 43 [] type = "LDataReq" -> 17
    [] type = "LDataInd" -> 41   [] type = "LDataCon" -> 46
    [] type = "LRawReq" -> 16    [] type = "LRawInd" -> 45
    [] type = "LRawCon" -> 47

(* The code a message packs: that of L_Raw.ind is the code of L_Raw.con.   *)
MessageCode(m) ==
  CASE m.type = "Unsupported" -> m.code
    [] m.type = "LRawInd" -> CodeOf("LRawCon")
    [] OTHER -> CodeOf(m.type)

-----------------------------------------------------------------------------
(* Additional information: a length and so many bytes, at most 255.        *)
InfoBytes(info) == SubSeq(info, 1, IF Len(info) > 255 THEN 255 ELSE Len(info))

SizeInfo(info) == 1 + Len(InfoBytes(info))

PackInfo(info) == U8(Len(InfoBytes(info))) \o InfoBytes(info)

(* The length is not compared with what the packet holds. *)
(* Mutant: the additional information is taken to be empty. *)
UnpackInfo_bug(data) ==
  IF Len(data) < 1 THEN Fails ELSE Got(<<>>, 1)
UnpackInfo(data) ==
  IF Len(data) < 1 THEN Fails
  ELSE IF data[1] > Len(data) - 1 THEN Outside
  ELSE Got(SubSeq(data, 2, 1 + data[1]), 1 + data[1])

-----------------------------------------------------------------------------
(* Transport units: application data (AppData) or control information      *)
(* (ControlData).  Both may be numbered; the application's command takes   *)
(* two bits of the second and two of the third octet, whose other six are  *)
(* the first of the data.                                                  *)
Number(u) == IF u.numbered THEN 64 + 4 * (u.seq % 16) ELSE 0

(* The data that is packed: at least one octet, at most 255. *)
AppBytes(u) ==
  LET n == IF Len(u.data) > 255 THEN 255 ELSE Len(u.data)
  IN  IF n = 0 THEN <<0>> ELSE SubSeq(u.data, 1, n)

(* Mutant: the size counts an empty payload as no octet. *)
SizeUnit_bug(u) == IF u.control THEN 2 ELSE 2 + Len(u.data)
SizeUnit(u) == IF u.control THEN 2 ELSE 2 + Len(AppBytes(u))

PackUnit(u) ==
  IF u.control
    THEN <<0, 128 + Number(u) + (u.command % 4)>>
    ELSE LET data == AppBytes(u)
         IN  <<Len(data), Number(u) + ((u.command \div 4) % 4),
               (data[1] % 64) + 64 * (u.command % 4)>> \o Tail(data)

Numbered(octet) == (octet \div 64) % 2 = 1
SeqNumber(octet) == (octet \div 4) % 16

(* Mutant: the command's bits stay in the data. *)
UnpackUnit_bug(data) ==
  IF Len(data) < 3 THEN Fails
  ELSE Got([control |-> FALSE, numbered |-> Numbered(data[2]),
            seq |-> SeqNumber(data[2]),
            command |-> 4 * (data[2] % 4) + (data[3] \div 64),
            data |-> From(data, 2)], data[1] + 2)

(* Data the packet does not hold is filled with zeros: only a length that  *)
(* is too small for the packet is an error.                                *)
UnpackUnit(data) ==
  IF Len(data) < 2 THEN Fails
  ELSE IF data[2] >= 128
    THEN Got([control |-> TRUE, numbered |-> Numbered(data[2]),
              seq |-> SeqNumber(data[2]), command |-> data[2] % 4], 2)
  ELSE IF Len(data) < 3 \/ data[1] + 2 < Len(data) THEN Fails
  ELSE LET Octet(i) == IF i + 2 > Len(data) THEN 0
                       ELSE IF i = 1 THEN data[3] % 64 ELSE data[i + 2]
       IN  Got([control |-> FALSE, numbered |-> Numbered(data[2]),
                seq |-> SeqNumber(data[2]),
                command |-> 4 * (data[2] % 4) + (data[3] \div 64),
                data |-> [i \in 1..data[1] |-> Octet(i)]], data[1] + 2)

-----------------------------------------------------------------------------
(* L_Data frames, and the frames whose body is kept as it is.  The fields  *)
(* hold what the wire has room for: a number of 4 bits, a command of 4 (an *)
(* APCI) or 2, and no code that is another message's.                      *)
Units ==
  [control : {TRUE}, numbered : BOOLEAN, seq : 0..15, command : 0..3]
    \cup [control : {FALSE}, numbered : BOOLEAN, seq : 0..15, command : 0..15, data : Seq(Byte)]

Messages ==
  [type : LDataTypes, info : {s \in Seq(Byte) : Len(s) <= 255}, control1 : Byte, control2 : Byte,
   source : Word, destination : Word, unit : Units]
    \cup [type : RawTypes, body : Seq(Byte)]
    \cup [type : {"Unsupported"}, body : Seq(Byte),
          code : Byte \ {CodeOf(t) : t \in LDataTypes \cup RawTypes}]

SizeMessage(m) ==
  1 + CASE m.type \in LDataTypes -> SizeInfo(m.info) + 6 + SizeUnit(m.unit)
        [] OTHER -> Len(m.body)

PackLData(m) ==
  PackInfo(m.info) \o U8(m.control1) \o U8(m.control2)
    \o U16(m.source) \o U16(m.destination) \o PackUnit(m.unit)

PackMessage(m) ==
  U8(MessageCode(m))
    \o IF m.type \in LDataTypes THEN PackLData(m) ELSE m.body

UnpackLData(type, data) ==
  Then(UnpackInfo(data), LAMBDA info, n :
    IF Len(data) < n + 6 THEN Fails
    ELSE Then(UnpackUnit(From(data, n + 6)), LAMBDA unit, k :
           Got([type |-> type, info |-> info,
                control1 |-> data[n + 1], control2 |-> data[n + 2],
                source |-> N16(data, n + 3), destination |-> N16(data, n + 5),
                unit |-> unit], n + 6 + k)))

(* Unpack: the type whose code it is, or a message that is not supported   *)
(* but kept.                                                               *)
UnpackMessage(data) ==
  IF Len(data) < 1 THEN Fails
  ELSE LET body == From(data, 1)
           types == {t \in LDataTypes \cup RawTypes : CodeOf(t) = data[1]}
           r == IF types \cap LDataTypes # {}
                  THEN UnpackLData(CHOOSE t \in types : TRUE, body)
                ELSE IF types # {}
                  THEN Got([type |-> CHOOSE t \in types : TRUE,
                            body |-> body], Len(body))
                ELSE Got([type |-> "Unsupported", code |-> data[1],
                          body |-> body], Len(body))
       IN  Then(r, LAMBDA m, n : Got(m, 1 + n))

-----------------------------------------------------------------------------
(* Control fields.  Priorities take bits 2 and 3 of the first; the second  *)
(* has the address type in bit 7 and the hop count in bits 4 to 6.         *)
Control1Prio(prio) == 4 * (prio % 4)
Control2Hops(hops) == 16 * (IF hops > 7 THEN 7 ELSE hops)
Control2GroupAddr == 128
(* The hop count is read from bit 7 on. *)
Hops(control2) == (control2 \div 128) % 8
IsGroupAddr(control2) == (control2 \div 128) % 2 = 1

(* Commands of the application layer: the first three are a group's.       *)
IsGroupCommand(apci) == apci < 3
=============================================================================
