------------------------------ MODULE MCCodecs ------------------------------
(***************************************************************************)
(* The items of Codecs.tla for TLC: every service and message type, every  *)
(* datapoint type, and the numbers at which something changes.             *)
(***************************************************************************)
EXTENDS Codecs, TLC

Host == [protocol |-> 1, address |-> <<192, 168, 0, 9>>, port |-> 3671]
NoHost == [protocol |-> 2, address |-> <<0, 0, 0, 0>>, port |-> 0]
Hosts == {Host, NoHost}

AppUnits ==
  [control : {FALSE}, numbered : BOOLEAN, seq : {0, 9}, command : {0, 2, 10},
   data : {<<>>, <<1>>, <<200>>, <<63, 0, 255>>}]
ControlUnits == [control : {TRUE}, numbered : BOOLEAN, seq : {3}, command : {0, 3}]

LDatas(units) ==
  [type : K!LDataTypes, info : {<<>>, <<3, 1, 255>>}, control1 : {188},
   control2 : {K!Control2GroupAddr + K!Control2Hops(6)}, source : {4353}, destination : {2305},
   unit : units]

Raws ==
  [type : K!RawTypes, body : {<<>>, <<41, 0, 255>>}]
    \cup [type : {"Unsupported"}, code : {252}, body : {<<>>, <<5>>}]

Messages == LDatas(AppUnits) \cup LDatas(ControlUnits) \cup Raws

MCServices ==
  [service : {"SearchReq", "DescriptionReq"}, control : Hosts]
    \cup [service : {"ConnReq"}, control : Hosts, tunnel : Hosts, layer : {2, 128}]
    \cup [service : {"ConnRes"}, channel : {7}, status : {0}, control : Hosts]
    \cup [service : {"ConnRes"}, channel : {7}, status : {36}]
    \cup [service : {"ConnStateReq", "DiscReq"}, channel : {7}, status : {0}, control : Hosts]
    \cup [service : {"ConnStateRes", "DiscRes"}, channel : {7}, status : {0, 33}]
    \cup [service : {"TunnelReq"}, channel : {7}, seq : {0, 255}, payload : Messages]
    \cup [service : {"TunnelRes"}, channel : {7}, seq : {0, 255}, status : {0, 41}]
    \cup [service : {"RoutingInd"}, payload : Messages]
    \cup [service : {"Unknown"}, id : {784}, data : {<<>>, <<1, 2>>}]
    \cup [service : {"DescriptionRes"}, services : {[type |-> 2, families |-> <<>>]}]

-----------------------------------------------------------------------------
(* What a gateway answers.  Its name does not fill its field.              *)
Device ==
  [type |-> 1, medium |-> 2, status |-> 0, source |-> 4353, project |-> 17,
   serial |-> <<0, 1, 2, 3, 4, 5>>, multicast |-> <<224, 0, 23, 12>>,
   hardware |-> <<0, 9, 8, 7, 6, 5>>, name |-> <<75, 78, 88>>]
Families == [type |-> 2, families |-> <<[type |-> 2, version |-> 1], [type |-> 4, version |-> 2]>>]
Manufacturer == <<8, 254, 1, 2, 3, 4, 5, 6>>
Other == <<4, 77, 0, 0>>

DeviceBytes == K!PackDevice(Device).value
FamilyBytes == K!PackServices(Families)

Description(bytes, device, services, unknown) ==
  [value |-> [service |-> "DescriptionRes", device |-> device, services |-> services,
              unknown |-> unknown],
   wire |-> Framed("DescriptionRes", bytes)]

(* The block of the manufacturer is kept without its last two octets. *)
Unknown == <<[type |-> 254, data |-> <<1, 2, 3, 4>>]>>

MCPeerPackets ==
  {[value |-> [service |-> "SearchRes", control |-> Host, device |-> Device, services |-> Families],
    wire |-> Framed("SearchRes", K!PackHostInfo(Host) \o DeviceBytes \o FamilyBytes)],
   Description(DeviceBytes \o FamilyBytes, <<Device>>, Families, <<>>),
   Description(FamilyBytes \o Other \o DeviceBytes \o Manufacturer, <<Device>>, Families, Unknown),
   [value |-> [service |-> "RoutingLost", status |-> 0, count |-> 258],
    wire |-> Framed("RoutingLost", <<4, 0, 1, 2>>)],
   [value |-> [service |-> "RoutingBusy", status |-> 1, wait |-> 100, busyControl |-> 0],
    wire |-> Framed("RoutingBusy", <<6, 1, 0, 100, 0, 0>>)]}

-----------------------------------------------------------------------------
(* Values at the limits of every format, and beyond where Go's type can    *)
(* hold them.                                                              *)
Hundredth == {0, 1, -1, 5, 2047, 2048, -2048, -2049, -2052, 2150, 4095, 10000, -27300,
              -27301, -27296, -45960, -45961, 655359, -655361, 67076000, 67076096, 67108864,
              -67076000, -67076001, -67108864, 13156351, 16777217, -33554433, NaN}
Chars == {<<>>, <<72, 105>>, <<228, 233>>, <<8364, 65>>, [i \in 1..14 |-> 64 + i],
          [i \in 1..17 |-> 64 + i]}
ASCIIChars == {<<72, 105>>, <<228, 233>>}
Dates == {<<1989, 12, 31>>, <<1990, 1, 1>>, <<1999, 12, 31>>, <<2000, 2, 29>>, <<2001, 2, 29>>,
          <<2024, 2, 30>>, <<2026, 7, 14>>, <<2089, 12, 31>>, <<2090, 1, 1>>, <<2010, 0, 1>>,
          <<2010, 4, 31>>, <<2010, 13, 1>>}
Moments ==
  {<<d[1], d[2], d[3], 23, 59, 58>> :
     d \in {x \in Dates \cup {<<1900, 1, 1>>, <<1900, 3, 1>>, <<2155, 12, 31>>, <<2156, 1, 1>>,
                              <<2024, 2, 29>>, <<1899, 12, 31>>} : D!IsDate(x[1], x[2], x[3])}}
FlagSets == {{}, {"workingDay"}, {"fault", "clockQuality"}, {"summerTime", "externalClock", "noTime"}}

MCValues(id) ==
  LET f == D!FormatOf(id)
  IN CASE f = "B1" -> {0, 1}
       [] f = "Scaled" -> {NaN} \cup -1..256
       [] f \in {"U8", "Scene", "SceneControl"} -> 0..255
       [] f = "V8" -> -128..127
       [] f = "U16" -> {0, 1, 255, 256, 32768, 65535}
       [] f \in {"U32", "V32", "F32"} -> {0, 1, -1, 256, 65536, 16777216, 2147483647, -2147483647 - 1}
       [] f = "F16" -> Hundredth
       [] f = "Time" -> [weekday : {0, 1, 7, 8}, hour : {0, 23, 24}, minute : {0, 59, 60},
                         second : {0, 59, 60}]
       [] f = "Date" -> {[year |-> d[1], month |-> d[2], day |-> d[3]] : d \in Dates}
       [] f \in {"ASCII", "Latin1"} -> Chars
       [] f = "VarString" -> {<<>>, <<72, 105>>, <<0>>, <<195, 164>>}
       [] f = "DateTime" -> [date : Moments \cup {D!Midnight}, flags : FlagSets, dst : BOOLEAN]
       [] f = "xyY" -> [x : {0, 65535}, y : {256}, brightness : {0, 255},
                        valid : [1..2 -> {0, 1}]]
       [] f = "RGBW" -> [colours : {<<0, 1, 254, 255>>}, valid : [1..4 -> {0, 1}]]

Octets == {0, 1, 15, 16, 63, 64, 127, 128, 191, 192, 255}

(* Data of telegrams: of the length the type has, and of others.           *)
MCPayloads(id) ==
  LET f == D!FormatOf(id)
      Odd == {<<>>, <<0>>, <<1>>, <<63>>, <<0, 7>>, <<0, 7, 1, 1>>}
  IN Odd \cup
     CASE f = "B1" -> {<<b>> : b \in 0..63}
       [] f \in {"Scaled", "U8", "V8", "Scene", "SceneControl"} -> {<<0, b>> : b \in 0..255}
       [] id = <<9, 2>> -> {<<0, a, b>> : a \in 0..255, b \in 0..255}
       [] f \in {"U16", "F16"} -> {<<0, a, b>> : a \in 0..255, b \in Octets}
       [] f = "Time" -> {<<0, a, b, c>> : a \in 0..255, b \in {0, 59, 60, 255}, c \in {0, 59, 63}}
       [] f = "Date" -> {<<0, a, b, c>> : a \in {0, 1, 28, 29, 30, 31, 32, 255},
                                          b \in 0..31, c \in {0, 1, 24, 89, 90, 99, 100, 255}}
       [] f \in {"U32", "V32", "F32"} -> {<<0, a, b, 0, 255>> : a \in Octets, b \in Octets}
       [] f \in {"ASCII", "Latin1"} -> {<<0, a, b>> \o [i \in 1..12 |-> c] :
                                          a \in Octets, b \in Octets, c \in {0, 65, 128}}
       [] f = "VarString" -> {<<0, 72, 105, 0>>, <<0, 72, 105>>}
       [] f = "DateTime" -> {<<0, y, m, d, h, 0, s, a, b>> :
                               y \in {0, 124, 255}, m \in {0, 2, 12}, d \in {1, 29, 31},
                               h \in {0, 23, 24, 88}, s \in {0, 60}, a \in {0, 65, 255},
                               b \in {0, 64, 192, 1}}
       [] f = "xyY" -> {<<0, 1, 2, 3, 4, b, c>> : b \in {0, 255}, c \in {0, 3, 15, 16}}
       [] f = "RGBW" -> {<<0, 1, 2, 3, 4, b, c>> : b \in {0, 1}, c \in {0, 9, 15, 16}}

Text(json, bool, int, hundredths, bits, chars) ==
  [json |-> json, bool |-> bool, int |-> int, hundredths |-> hundredths, bits |-> bits,
   chars |-> chars]

(* "true", "T", "1", "21.5", "-300", "70000", "131563.51", "NaN", "on",    *)
(* "on" in quotes, "null" and a text of blanks.                            *)
MCTexts ==
  {Text("bool", {1}, {}, {}, {}, <<116, 114, 117, 101>>),
   Text("none", {1}, {}, {}, {}, <<84>>),
   Text("number", {1}, {1}, {100}, {1065353216}, <<49>>),
   Text("number", {}, {}, {2150}, {1101791232}, <<50, 49, 46, 53>>),
   Text("number", {}, {-300}, {-30000}, {-1013579776}, <<45, 51, 48, 48>>),
   Text("number", {}, {70000}, {7000000}, {1200142336}, <<55, 48, 48, 48, 48>>),
   Text("number", {}, {}, {13156351}, {1207991009}, <<49, 51, 49, 53, 54, 51, 46, 53, 49>>),
   Text("none", {}, {}, {NaN}, {2143289344}, <<78, 97, 78>>),
   Text("none", {}, {}, {}, {}, <<111, 110>>),
   Text("string", {}, {}, {}, {}, <<34, 111, 110, 34>>),
   Text("null", {}, {}, {}, {}, <<110, 117, 108, 108>>),
   Text("none", {}, {}, {}, {}, <<>>)}

-----------------------------------------------------------------------------
Levels3 == {0, 1, 7, 8, 15, 16, 31, 32, 255, 256}
MCGroupTexts ==
  {<<a, b, c>> : a \in Levels3, b \in Levels3, c \in Levels3}
    \cup {<<a, b>> : a \in {-1, 0, 1, 31, 32}, b \in {0, 1, 255, 256, 2047, 2048}}
    \cup {<<a>> : a \in {-1, 0, 1, 65535, 65536}} \cup {<<1, 2, 3, 4>>}
MCAddrs == {a * 256 + b : a \in 0..255, b \in {0, 1, 128, 255}} \ {0}

-----------------------------------------------------------------------------
Name(w, c) == [word |-> w, case |-> c]
Type(p, s, parts) == [prefix |-> p, separator |-> s, parts |-> parts]
NineOne == Type("DPST", "-", <<9, 1>>)
OneOne == Type("none", ".", <<1, 1>>)
Unsupported == Type("DPT", "-", <<99, 1>>)

Entries == [name : {Name("lamp", 1), Name("lamp", 2), Name("heat", 1), Name("", 1)},
            address : {-1, 0, 1, 2305}, dpts : {<<NineOne>>, <<OneOne, NineOne>>, <<Unsupported>>, <<>>}]
Good == [name : {Name("lamp", 1), Name("heat", 1)}, address : {1, 2305}, dpts : {<<NineOne>>}]

Tree(name, addresses, ranges) == [name |-> name, addresses |-> addresses, ranges |-> ranges]
Doc(ranges) == [charset |-> "utf-8", ranges |-> ranges]
Lamp == [name |-> Name("lamp", 1), address |-> 7, dpts |-> <<OneOne>>]

(* One range with two entries; the same range twice, with one inside       *)
(* between; three levels.                                                  *)
MCDocuments ==
  {Doc(<<Tree("x", <<e, f>>, <<>>)>>) : e \in Entries, f \in Good}
    \cup {Doc(<<Tree("x", <<>>, <<Tree("y", <<e>>, <<>>)>>), Tree("z", <<Lamp>>, <<>>),
                Tree("x", <<f>>, <<>>)>>) : e \in Good, f \in Entries}
    \cup {Doc(<<Tree("x", <<e>>, <<Tree("y", <<>>, <<Tree("x", <<Lamp>>, <<>>)>>),
                                   Tree("w", <<f>>, <<>>)>>), Tree("v", <<>>, <<>>)>>) :
            e \in Good, f \in Good}
    \cup {[charset |-> "latin1", ranges |-> <<>>], Doc(<<>>)}
=============================================================================
