-------------------------------- MODULE DPT --------------------------------
(***************************************************************************)
(* knx/dpt: the datapoint types, how a value is packed into the data of a  *)
(* telegram and unpacked from it.  A type is the pair <<main, sub>> of its *)
(* name "main.sub"; most types differ only in unit and wording, so that a  *)
(* format is what a type is here.  A number is the integer it is; a value  *)
(* of format F16 counts hundredths, one of format F32 is its bit pattern,  *)
(* and a scaled one is in 255ths of its largest value.  A float may be no  *)
(* number at all, NaN; an infinite one is as a number beyond every limit.  *)
(*                                                                         *)
(* float32 arithmetic is modelled by its error: Pack has a set of outcomes.*)
(***************************************************************************)
EXTENDS Wire, FiniteSets

CONSTANT NaN  \* the float32 that is no number

(* The types of a file that have one format.                               *)
Switches == {1} \X ((1..19) \cup (21..24) \cup {100})
Fractions == {5} \X {1, 3}
Octets == {5} \X {4, 5}
Signed == {<<6, 10>>}
Counters == {7} \X ((1..7) \cup (10..13))
Measured == {9} \X ((1..8) \cup {10, 11} \cup (20..28))
Meters == {13} \X ({1, 2, 100} \cup (10..16))
Physical == {14} \X (0..79)
Modes == {20} \X {102, 105}

Types == [
  B1     |-> Switches,
  Scaled |-> Fractions,
  U8     |-> Octets \cup Modes,
  V8     |-> Signed,
  U16    |-> Counters,
  F16    |-> Measured,
  Time   |-> {<<10, 1>>},
  Date   |-> {<<11, 1>>},
  U32    |-> {<<12, 1>>},
  V32    |-> Meters,
  F32    |-> Physical,
  ASCII  |-> {<<16, 0>>},
  Latin1 |-> {<<16, 1>>},
  Scene  |-> {<<17, 1>>},
  SceneControl |-> {<<18, 1>>},
  DateTime |-> {<<19, 1>>},
  VarString |-> {<<28, 1>>},
  xyY    |-> {<<242, 600>>},
  RGBW   |-> {<<251, 600>>}]

Formats == DOMAIN Types

(* The registry: Produce makes a value of a registered type.               *)
Registered == UNION {Types[f] : f \in Formats}
FormatOf(id) == CHOOSE f \in Formats : id \in Types[f]

(* NormaliseDPTID: "DPST-9-1", "DPT-9-1" and "9.001" name one type.  A     *)
(* text is its prefix, what separates its parts, and the parts as numbers, *)
(* -1 for one that is no number.                                           *)
NoType == <<>>

NormaliseDPTID(text) ==
  IF /\ (text.prefix = "none") = (text.separator = ".")
     /\ Len(text.parts) = 2
     /\ \A i \in 1..2 : text.parts[i] >= 0
    THEN text.parts ELSE NoType

(* The name an exported catalog gives a type; an unknown type has none.    *)
DPST(id) ==
  IF id \in Registered
    THEN [prefix |-> "DPST", separator |-> "-", parts |-> id]
    ELSE [prefix |-> "none", separator |-> "none", parts |-> <<>>]

-----------------------------------------------------------------------------
(* packB2 and packB4, unpackB2 and unpackB4: bits of an octet whose upper  *)
(* half is reserved.                                                       *)
Bit(octet, k) == (octet \div 2^k) % 2
PackBits(bits) ==
  LET Sum[k \in 0..Len(bits)] ==
        IF k = 0 THEN 0 ELSE Sum[k - 1] + bits[k] * 2^(k - 1)
  IN  Sum[Len(bits)]
UnpackBits(octet, n) == [k \in 1..n |-> Bit(octet, k - 1)]

(* Mutant: halved towards minus infinity. *)
Halved_bug(v, e) == v \div 2^e
(* packF16: halved, towards zero, until eleven bits and a sign hold it.    *)
Halved(v, e) == IF v >= 0 THEN v \div 2^e ELSE -((-v) \div 2^e)
Largest == 67076096
Smallest == -67108864
PackF16(v) ==
  LET c == IF v > Largest THEN Largest ELSE IF v < Smallest THEN Smallest ELSE v
      Fits(e) == -2048 <= Halved(c, e) /\ Halved(c, e) <= 2047
      e == CHOOSE x \in 0..16 : Fits(x) /\ \A y \in 0..x - 1 : ~Fits(y)
      m == Halved(c, e)
      mantissa == IF m < 0 THEN m + 2048 ELSE m
  IN  <<0, (IF m < 0 THEN 128 ELSE 0) + 8 * (e % 16) + (mantissa \div 256),
        mantissa % 256>>

UnpackF16(data) ==
  ((data[2] % 8) * 256 + data[3] - (IF data[2] >= 128 THEN 2048 ELSE 0))
    * 2^((data[2] \div 8) % 16)

(* f * 100, cut to an integer, is the number of hundredths or one less; of *)
(* a large number, whose hundredths a float32 cannot tell apart, it is one *)
(* more or less by up to FloatStep.  What int makes of NaN is left to the  *)
(* processor: 0, or (amd64) the smallest integer of 64 bits, of which      *)
(* packF16 makes the same octets as of -32768.                             *)
FloatStep(a) == IF a < 13107200 THEN 0 ELSE IF a < 2^25 THEN 2 ELSE 5
FloatCut(a) ==
  LET step == FloatStep(a)
  IN  (IF a = 0 THEN 0 ELSE IF step = 0 THEN a - 1 ELSE a - step)..(a + step)
Hundredths(v) ==
  IF v = NaN THEN {-32768, 0}
  ELSE IF v >= 0 THEN FloatCut(v) ELSE {-h : h \in FloatCut(-v)}

(* The limits of the types of main number 9, in hundredths: Pack brings a  *)
(* value to the nearer limit, Unpack rejects what lies outside.  NaN is    *)
(* neither below nor above a limit.                                        *)
Limits(id) ==
  CASE id[2] = 1 -> <<-27300, 67076000>>
    [] id[2] = 27 -> <<-45960, 67076000>>
    [] id[2] \in (4..8) \cup {28} -> <<0, 67076000>>
    [] OTHER -> <<-67076000, 67076000>>
Limited(v, limits) ==
  IF v = NaN THEN v
  ELSE IF v <= limits[1] THEN limits[1] ELSE IF v >= limits[2] THEN limits[2] ELSE v

(* packed: a fraction of the largest value, in 255ths, cut to an integer;  *)
(* as a float32 it may have become less than one that it was unpacked as.  *)
(* Of NaN the octet is zero.                                               *)
ScaledOctets(v) ==
  IF v = NaN THEN {0} ELSE IF v <= 0 THEN {0} ELSE IF v >= 255 THEN {255} ELSE {v, v - 1}

-----------------------------------------------------------------------------
(* Dates of the proleptic Gregorian calendar.                              *)
Leap(y) == y % 4 = 0 /\ (y % 100 # 0 \/ y % 400 = 0)
DaysIn(y, m) ==
  CASE m = 2 -> IF Leap(y) THEN 29 ELSE 28
    [] m \in {4, 6, 9, 11} -> 30
    [] OTHER -> 31
IsDate(y, m, d) == m \in 1..12 /\ d \in 1..DaysIn(y, m)

(* Monday is 1; 1 January of the year 1900 was one.                        *)
Weekday(y, m, d) ==
  LET Before[k \in 1..12] == IF k = 1 THEN 0 ELSE Before[k - 1] + DaysIn(y, k - 1)
      leaps == Cardinality({x \in 1900..y - 1 : Leap(x)})
  IN  1 + ((365 * (y - 1900) + leaps + Before[m] + d - 1) % 7)

IsTime(h, min, s) == h <= 23 /\ min <= 59 /\ s <= 59
TimeValid(v) == v.weekday <= 7 /\ IsTime(v.hour, v.minute, v.second)
DateValid(v) == v.year \in 1990..2089 /\ IsDate(v.year, v.month, v.day)

-----------------------------------------------------------------------------
(* A date and time: the flags are bits of the seventh and eighth octet.    *)
(* Packing derives the weekday and the working day from the date, and the  *)
(* summer time from whether its location has it then (dst), which UTC, the *)
(* location of every date that is unpacked, never has.                     *)
Flags == <<"externalClock", "clockQuality", "summerTime", "noTime",
           "noDayOfWeek", "noDate", "noYear", "noWorkingDay", "workingDay",
           "fault">>

FlagOctets(flags) ==
  LET On(k) == IF Flags[k] \in flags THEN 1 ELSE 0
  IN  <<PackBits([k \in 1..8 |-> On(k + 2)]), 64 * On(1) + 128 * On(2)>>

FlagsOf(high, low) ==
  {Flags[k] : k \in {x \in 3..10 : Bit(high, x - 3) = 1}
              \cup {x \in 1..2 : Bit(low, x + 5) = 1}}

(* The date is <<year, month, day, hour, minute, second>>, or none in the  *)
(* value that stands for 24:00:00.                                         *)
Midnight == <<>>

DateTimeValid(v) ==
  IF v.date = Midnight THEN "noTime" \notin v.flags ELSE v.date[1] \in 1900..2155

Derived(v) ==
  (v.flags \ {"workingDay", "summerTime"})
    \cup (IF Weekday(v.date[1], v.date[2], v.date[3]) <= 5 THEN {"workingDay"} ELSE {})
    \cup (IF v.dst THEN {"summerTime"} ELSE {})

PackDateTime(v) ==
  IF ~DateTimeValid(v) THEN [i \in 1..9 |-> 0]
  ELSE IF v.date = Midnight
    THEN <<0, 0, 0, 0, 24, 0, 0>> \o FlagOctets(v.flags)
    ELSE <<0, v.date[1] - 1900, v.date[2], v.date[3],
           32 * Weekday(v.date[1], v.date[2], v.date[3]) + v.date[4],
           v.date[5], v.date[6]>> \o FlagOctets(Derived(v))

UnpackDateTime(data) ==
  LET hour == data[5] % 32
      minute == data[6] % 64
      second == data[7] % 64
      date == <<data[2] + 1900, data[3] % 16, data[4] % 32, hour, minute, second>>
      v == [flags |-> FlagsOf(data[8], data[9]),
            date |-> IF hour = 24 THEN Midnight ELSE date, dst |-> FALSE]
      InDate == IsTime(hour, minute, second) /\ IsDate(date[1], date[2], date[3])
  IN  IF \/ data[9] % 64 # 0
         \/ hour = 24 /\ (minute # 0 \/ second # 0)
         \/ hour # 24 /\ ~InDate
         \/ ~DateTimeValid(v)
        THEN Fails ELSE Got(v, 9)

-----------------------------------------------------------------------------
(* What a value of a format is in Go, 32-bit numbers as in Wire.tla and    *)
(* characters by their codes.                                              *)
Long == {n \in Int : -2147483647 - 1 <= n /\ n <= 2147483647}
Moments ==
  {d \in Int \X Nat \X Nat \X Nat \X Nat \X Nat :
     IsDate(d[1], d[2], d[3]) /\ IsTime(d[4], d[5], d[6])}

ValuesOf(f) ==
  CASE f = "B1" -> {0, 1}
    [] f \in {"U8", "Scene", "SceneControl"} -> Byte
    [] f = "V8" -> -128..127
    [] f = "U16" -> Word
    [] f \in {"U32", "V32", "F32"} -> Long
    [] f \in {"Scaled", "F16"} -> {NaN} \cup Int
    [] f \in {"ASCII", "Latin1", "VarString"} -> Seq(Nat)
    [] f = "Time" -> [weekday : Byte, hour : Byte, minute : Byte, second : Byte]
    [] f = "Date" -> [year : Word, month : Byte, day : Byte]
    [] f = "DateTime" -> [date : Moments \cup {Midnight}, dst : BOOLEAN,
                             flags : SUBSET {Flags[k] : k \in 1..10}]
    [] f = "xyY" -> [x : Word, y : Word, brightness : Byte, valid : [1..2 -> {0, 1}]]
    [] f = "RGBW" -> [colours : Bytes(4), valid : [1..4 -> {0, 1}]]

-----------------------------------------------------------------------------
(* Pack and Unpack of every format.  The first octet of the data is zero,  *)
(* but for a bit, and for its six bits that the frame keeps; Unpack wants  *)
(* the length that Pack gives, except for a string of variable length.     *)
Width == [B1 |-> 1, Scaled |-> 2, U8 |-> 2, V8 |-> 2, U16 |-> 3, F16 |-> 3,
          Time |-> 4, Date |-> 4, U32 |-> 5, V32 |-> 5, F32 |-> 5,
          ASCII |-> 15, Latin1 |-> 15, Scene |-> 2, SceneControl |-> 2,
          DateTime |-> 9, xyY |-> 7, RGBW |-> 7]

InScenes(n, format) == n <= 63 \/ (format = "SceneControl" /\ n \in 128..191)

(* Characters the string cannot hold become spaces; what is too long is    *)
(* cut; the rest is filled with zeros.                                     *)
PackText(text, last) ==
  <<0>> \o [i \in 1..14 |->
             IF i > Len(text) THEN 0 ELSE IF text[i] > last THEN 32 ELSE text[i]]
UnpackText(data, last) ==
  LET ends == {i \in 2..Len(data) : data[i] = 0}
      stop == CHOOSE i \in ends \cup {Len(data) + 1} : \A j \in ends : i <= j
  IN  [i \in 1..stop - 2 |-> data[i + 1] % (last + 1)]

Pack(id, v) ==
  LET f == FormatOf(id)
  IN CASE f = "B1" -> {U8(v)}
       [] f \in {"U8", "V8"} -> {<<0>> \o U8(v)}
       [] f = "Scaled" -> {<<0, n>> : n \in ScaledOctets(v)}
       [] f = "U16" -> {<<0>> \o U16(v)}
       [] f \in {"U32", "V32", "F32"} -> {<<0>> \o U32(v)}
       [] f = "F16" -> {PackF16(h) : h \in Hundredths(Limited(v, Limits(id)))}
       [] f = "Time" ->
            {IF TimeValid(v) THEN <<0, 32 * v.weekday + v.hour, v.minute, v.second>>
             ELSE <<0, 0, 0, 0>>}
       [] f = "Date" ->
            {IF DateValid(v) THEN <<0, v.day, v.month, v.year % 100>>
             ELSE <<0, 0, 0, 0>>}
       [] f = "ASCII" -> {PackText(v, 127)}
       [] f = "Latin1" -> {PackText(v, 255)}
       [] f \in {"Scene", "SceneControl"} -> {<<0, IF InScenes(v, f) THEN v ELSE 63>>}
       [] f = "DateTime" -> {PackDateTime(v)}
       [] f = "VarString" -> {<<0>> \o v \o <<0>>}
       [] f = "xyY" ->
            {<<0>> \o U16(v.x) \o U16(v.y) \o <<v.brightness, PackBits(v.valid)>>}
       [] f = "RGBW" -> {<<0>> \o v.colours \o <<0, PackBits(v.valid)>>}

UnpackTime(data) ==
  LET v == [weekday |-> data[2] \div 32, hour |-> data[2] % 32,
            minute |-> data[3] % 64, second |-> data[4] % 64]
  IN  IF TimeValid(v) THEN Got(v, 4) ELSE Fails

(* All zeros stand for the first day there is. *)
UnpackDate(data) ==
  LET year == data[4] % 128
      zero == <<data[2] % 32, data[3] % 16, year>> = <<0, 0, 0>>
      v == IF zero THEN [year |-> 1990, month |-> 1, day |-> 1]
           ELSE [year |-> year + (IF year >= 90 THEN 1900 ELSE 2000),
                 month |-> data[3] % 16, day |-> data[2] % 32]
  IN  IF year <= 99 /\ DateValid(v) THEN Got(v, 4) ELSE Fails

(* A string of variable length loses its last octet, whatever that is; the *)
(* slice that leaves it out needs two.                                     *)
UnpackVarString(data) ==
  IF Len(data) < 2 THEN Outside
  ELSE Got(SubSeq(data, 2, Len(data) - 1), Len(data))

Unpack(id, data) ==
  LET f == FormatOf(id)
      Ok(v) == Got(v, Len(data))
  IN IF f = "VarString" THEN UnpackVarString(data)
     ELSE IF Len(data) # Width[f] THEN Fails
     ELSE CASE f = "B1" -> Ok(data[1] % 2)
       [] f \in {"U8", "Scaled"} -> Ok(data[2])
       [] f = "V8" -> Ok(S8(data[2]))
       [] f = "U16" -> Ok(N16(data, 2))
       [] f \in {"U32", "V32", "F32"} -> Ok(N32(data, 2))
       [] f = "F16" ->
            LET v == UnpackF16(data)
            IN  IF v < Limits(id)[1] \/ v > Limits(id)[2] THEN Fails ELSE Ok(v)
       [] f = "Time" -> UnpackTime(data)
       [] f = "Date" -> UnpackDate(data)
       [] f = "ASCII" -> Ok(UnpackText(data, 127))
       [] f = "Latin1" -> Ok(UnpackText(data, 255))
       [] f \in {"Scene", "SceneControl"} -> Ok(IF InScenes(data[2], f) THEN data[2] ELSE 63)
       [] f = "DateTime" -> UnpackDateTime(data)
       [] f = "xyY" ->
            IF data[7] > 15 THEN Fails
            ELSE Ok([x |-> N16(data, 2), y |-> N16(data, 4),
                     brightness |-> data[6], valid |-> UnpackBits(data[7], 2)])
       [] f = "RGBW" ->
            IF data[7] > 15 THEN Fails
            ELSE Ok([colours |-> SubSeq(data, 2, 5), valid |-> UnpackBits(data[7], 4)])

-----------------------------------------------------------------------------
(* EncodeDPTFromString: a text is what each parser of strconv makes of it, *)
(* as the set of its one result, or the empty set for an error.  A number  *)
(* must fit the type's integers; a structure has no parser.                *)
(* Mutant: a number of any size is packed. *)
Bounds_bug(f) == Int
Bounds(f) ==
  CASE f \in {"U8", "Scene", "SceneControl"} -> 0..255
    [] f = "V8" -> -128..127
    [] f = "U16" -> 0..65535
    [] f = "U32" -> Nat
    [] f = "V32" -> Int

(* A fraction of 100 or of 360 as the 255ths that Pack makes of it.        *)
Whole(id) == IF id[2] = 1 THEN 10000 ELSE 36000
In255ths(h, whole) == 255 * (h \div whole) + ((h % whole) * 255) \div whole

Parsed(id, text) ==
  LET f == FormatOf(id)
  IN CASE f = "B1" -> text.bool
       [] f \in {"U8", "Scene", "SceneControl", "V8", "U16", "U32", "V32"} ->
            {n \in text.int : n \in Bounds(f)}
       [] f = "Scaled" ->
            {IF h = NaN THEN h ELSE In255ths(h, Whole(id)) : h \in text.hundredths}
       [] f = "F16" -> text.hundredths
       [] f = "F32" -> text.bits
       [] f \in {"ASCII", "Latin1", "VarString"} -> {text.chars}
       [] OTHER -> {}

EncodeDPTFromString(id, text) ==
  IF text.chars = <<>> \/ Parsed(id, text) = {} THEN {Fails}
  ELSE UNION {{Got(data, Len(data)) : data \in Pack(id, v)} : v \in Parsed(id, text)}

EncodeDPTFromStringN(id, text) ==
  IF id \in Registered THEN EncodeDPTFromString(id, text) ELSE {Fails}
=============================================================================
