---------------------------- MODULE CodecProofs -----------------------------
(***************************************************************************)
(* What Codecs.tla says of packets, of what is cut off them, of addresses, *)
(* of datapoint values and of the texts they are given as, for all of them.*)
(*                                                                         *)
(* A packet is taken apart as it was put together: lemmas of the form      *)
(* ...Arrives say of one part that its decoder gives back what its encoder *)
(* wrote, whatever follows it.  A packet that is cut shares its beginning  *)
(* with the whole one (Starts), so each part that is read before the end   *)
(* of the cut is the part that was written.                                *)
(*                                                                         *)
(* A value is shown to come back format by format, from the powers and     *)
(* roundings of a 2-byte float to the bits of a date and the characters of *)
(* a text (ValueArrives); what a damaged telegram is read as is such a     *)
(* value again (AnyDataRead), and a text is one of them (ParsedIs).        *)
(***************************************************************************)
EXTENDS Codecs, WellFoundedInduction, FiniteSetTheorems, TLAPS

(* An address is a number of 16 bits.                                      *)
LEMMA AddressBounds ==
  ASSUME NEW a \in A!Address
  PROVE  /\ a \in Int /\ 0 <= a /\ a <= A!MaxAddress
         /\ a < 16 * 4096
<1>1. A!MaxAddress \in Int /\ A!MaxAddress < 16 * 4096
  BY SMTT(60) DEF A!MaxAddress
<1> QED
  BY <1>1, SMT DEF A!Address

(* A 16-bit number and the parts of a group address.                       *)
LEMMA GroupParts ==
  ASSUME NEW a \in A!Address
  PROVE  /\ a \div 2048 \in 0..31 /\ (a \div 256) % 8 \in 0..7 /\ a % 256 \in 0..255
         /\ a = (a \div 2048) * 2048 + ((a \div 256) % 8) * 256 + (a % 256)
<1> USE AddressBounds
<1>1. a \div 2048 \in 0..31
  <2>1. a \div 2048 \in Int
    BY SMT
  <2>2. a \div 2048 >= 0
    BY SMT
  <2>3. a \div 2048 <= 31
    BY SMT
  <2> QED
    BY <2>1, <2>2, <2>3
<1>2. (a \div 256) % 8 \in 0..7
  BY SMT
<1>3. a % 256 \in 0..255
  BY SMT
<1>4. a = (a \div 2048) * 2048 + ((a \div 256) % 8) * 256 + (a % 256)
  BY SMT
<1> QED
  BY <1>1, <1>2, <1>3, <1>4

(* The parts it was put together from are those that are taken out of it.  *)
LEMMA GroupWhole ==
  ASSUME NEW x \in 0..31, NEW y \in 0..7, NEW z \in 0..255
  PROVE  LET a == x * 2048 + y * 256 + z
         IN  a \div 2048 = x /\ (a \div 256) % 8 = y /\ a % 256 = z
<1>1. (x * 2048 + y * 256 + z) \div 2048 = x
  BY SMT
<1>2. (x * 2048 + y * 256 + z) \div 256 = x * 8 + y /\ (x * 8 + y) % 8 = y
  BY SMT
<1>3. (x * 2048 + y * 256 + z) % 256 = z
  BY SMT
<1> QED
  BY <1>1, <1>2, <1>3

(* The same of an area, a line and a device.                               *)
LEMMA PhysicalParts ==
  ASSUME NEW a \in A!Address
  PROVE  /\ a \div 4096 \in 0..15 /\ (a \div 256) % 16 \in 0..15 /\ a % 256 \in 0..255
         /\ a = (a \div 4096) * 4096 + ((a \div 256) % 16) * 256 + (a % 256)
<1> USE AddressBounds
<1>1. a \div 4096 \in 0..15
  <2>1. a \div 4096 \in Int
    BY SMT
  <2>2. a \div 4096 >= 0
    BY SMT
  <2>3. a \div 4096 <= 15
    BY SMT
  <2> QED
    BY <2>1, <2>2, <2>3
<1>2. (a \div 256) % 16 \in 0..15
  BY SMT
<1>3. a % 256 \in 0..255
  BY SMT
<1>4. a = (a \div 4096) * 4096 + ((a \div 256) % 16) * 256 + (a % 256)
  BY SMT
<1> QED
  BY <1>1, <1>2, <1>3, <1>4

(* And taking these out of the address they make.                          *)
LEMMA PhysicalWhole ==
  ASSUME NEW x \in 0..15, NEW y \in 0..15, NEW z \in 0..255
  PROVE  LET a == x * 4096 + y * 256 + z
         IN  a \div 4096 = x /\ (a \div 256) % 16 = y /\ a % 256 = z
<1>1. (x * 4096 + y * 256 + z) \div 4096 = x
  BY SMT
<1>2. (x * 4096 + y * 256 + z) \div 256 = x * 16 + y /\ (x * 16 + y) % 16 = y
  BY SMT
<1>3. (x * 4096 + y * 256 + z) % 256 = z
  BY SMT
<1> QED
  BY <1>1, <1>2, <1>3

(* Every address but 0, written free or in three levels, is read as that   *)
(* address; 0 is written, too, but refused when it is read.                *)
THEOREM AddressesReturn ==
  ASSUME NEW a \in A!Address, NEW form \in {"Free", "ThreeLevel"}
  PROVE  LET read == IF a = 0 THEN A!NoAddress ELSE a
         IN  /\ A!NewGroupAddrString(A!FormatGroup(a, form)) = read
             /\ A!NewPhysicalAddrString(A!FormatPhysical(a, form)) = read
<1>1. CASE form = "Free"
  <2>1. /\ A!FormatGroup(a, form) = <<a>> /\ A!FormatPhysical(a, form) = <<a>>
        /\ Len(<<a>>) = 1 /\ <<a>>[1] = a /\ (<<a>> = <<0>> <=> a = 0)
    BY <1>1 DEF A!FormatGroup, A!FormatPhysical
  <2>2. A!InRange(a, A!MaxAddress)
    BY AddressBounds DEF A!InRange
  <2> QED
    BY <2>1, <2>2 DEF A!NewGroupAddrString, A!NewPhysicalAddrString
<1>2. CASE form = "ThreeLevel"
  <2>1. A!NewGroupAddrString(A!FormatGroup(a, form)) = IF a = 0 THEN A!NoAddress ELSE a
    <3> DEFINE x == a \div 2048
               y == (a \div 256) % 8
               z == a % 256
    <3>1. x \in 0..31 /\ y \in 0..7 /\ z \in 0..255 /\ a = x * 2048 + y * 256 + z
      BY GroupParts
    <3>2. A!FormatGroup(a, form) = <<x, y, z>>
      BY <1>2 DEF A!FormatGroup
    <3> HIDE DEF x, y, z
    <3>3. A!NewGroupAddrString(<<x, y, z>>)
            = IF <<x, y, z>> = <<0, 0, 0>> THEN A!NoAddress ELSE A!NewGroupAddr3(x, y, z)
      BY <3>1 DEF A!NewGroupAddrString, A!InRange
    <3>4. A!NewGroupAddr3(x, y, z) = a
      BY <3>1 DEF A!NewGroupAddr3
    <3>5. <<x, y, z>> = <<0, 0, 0>> <=> a = 0
      BY <3>1
    <3> QED
      BY <3>2, <3>3, <3>4, <3>5
  <2>2. A!NewPhysicalAddrString(A!FormatPhysical(a, form)) = IF a = 0 THEN A!NoAddress ELSE a
    <3> DEFINE x == a \div 4096
               y == (a \div 256) % 16
               z == a % 256
    <3>1. x \in 0..15 /\ y \in 0..15 /\ z \in 0..255 /\ a = x * 4096 + y * 256 + z
      BY PhysicalParts
    <3>2. A!FormatPhysical(a, form) = <<x, y, z>>
      BY <1>2 DEF A!FormatPhysical
    <3> HIDE DEF x, y, z
    <3>3. A!NewPhysicalAddrString(<<x, y, z>>)
            = IF <<x, y, z>> = <<0, 0, 0>> THEN A!NoAddress ELSE x * 4096 + y * 256 + z
      BY <3>1 DEF A!NewPhysicalAddrString, A!InRange
    <3>4. <<x, y, z>> = <<0, 0, 0>> <=> a = 0
      BY <3>1
    <3> QED
      BY <3>1, <3>2, <3>3, <3>4
  <2> QED
    BY <2>1, <2>2
<1> QED
  BY <1>1, <1>2

(* A text in three levels that is read is written as the same text.        *)
THEOREM TextsReturn ==
  ASSUME NEW x \in Int, NEW y \in Int, NEW z \in Int
  PROVE  LET text == <<x, y, z>>
             group == A!NewGroupAddrString(text)
             physical == A!NewPhysicalAddrString(text)
         IN  /\ group # A!NoAddress => A!FormatGroup(group, "ThreeLevel") = text
             /\ physical # A!NoAddress => A!FormatPhysical(physical, "ThreeLevel") = text
<1>1. ASSUME A!NewGroupAddrString(<<x, y, z>>) # A!NoAddress
      PROVE  A!FormatGroup(A!NewGroupAddrString(<<x, y, z>>), "ThreeLevel") = <<x, y, z>>
  <2>1. x \in 0..31 /\ y \in 0..7 /\ z \in 0..255
    BY <1>1 DEF A!NewGroupAddrString, A!InRange
  <2>2. A!NewGroupAddrString(<<x, y, z>>) = A!NewGroupAddr3(x, y, z)
    BY <1>1 DEF A!NewGroupAddrString
  <2>3. A!NewGroupAddr3(x, y, z) = x * 2048 + y * 256 + z
    BY <2>1 DEF A!NewGroupAddr3
  <2> DEFINE a == x * 2048 + y * 256 + z
  <2>4. a \div 2048 = x /\ (a \div 256) % 8 = y /\ a % 256 = z
    BY <2>1, GroupWhole
  <2>5. A!FormatGroup(a, "ThreeLevel") = <<a \div 2048, (a \div 256) % 8, a % 256>>
    BY DEF A!FormatGroup
  <2> HIDE DEF a
  <2>6. A!NewGroupAddrString(<<x, y, z>>) = a
    BY <2>2, <2>3 DEF a
  <2> QED
    BY <2>4, <2>5, <2>6, SMT
<1>2. ASSUME A!NewPhysicalAddrString(<<x, y, z>>) # A!NoAddress
      PROVE  A!FormatPhysical(A!NewPhysicalAddrString(<<x, y, z>>), "ThreeLevel") = <<x, y, z>>
  <2>1. x \in 0..15 /\ y \in 0..15 /\ z \in 0..255
    BY <1>2 DEF A!NewPhysicalAddrString, A!InRange
  <2>2. A!NewPhysicalAddrString(<<x, y, z>>) = x * 4096 + y * 256 + z
    BY <1>2 DEF A!NewPhysicalAddrString
  <2> DEFINE a == x * 4096 + y * 256 + z
  <2>3. a \div 4096 = x /\ (a \div 256) % 16 = y /\ a % 256 = z
    BY <2>1, PhysicalWhole
  <2>4. A!FormatPhysical(a, "ThreeLevel") = <<a \div 4096, (a \div 256) % 16, a % 256>>
    BY DEF A!FormatPhysical
  <2> HIDE DEF a
  <2>5. A!NewPhysicalAddrString(<<x, y, z>>) = a
    BY <2>2 DEF a
  <2> QED
    BY <2>3, <2>4, <2>5, SMT
<1> QED
  BY <1>1, <1>2
-----------------------------------------------------------------------------
(* Reading an address from a text, and writing it, as an item does.        *)
Parse(kind, text) ==
  IF kind = "group" THEN A!NewGroupAddrString(text) ELSE A!NewPhysicalAddrString(text)
Format(kind, a, form) ==
  IF kind = "group" THEN A!FormatGroup(a, form) ELSE A!FormatPhysical(a, form)

AddressKinds == {"group", "physical"}

(* The main group and the bits it shares with the middle group are 0 in an *)
(* address below 256, and so is nothing but the sub group left.            *)
LEMMA TwoLevelGroup ==
  ASSUME NEW x \in 0..31, NEW y \in Nat, y < 8 * 256
  PROVE  /\ A!NewGroupAddr2(x, y) \in Nat /\ A!NewGroupAddr2(x, y) < 32 * 2048
         /\ A!NewGroupAddr2(x, y) < 256 => x = 0 /\ A!NewGroupAddr2(x, y) = y
         /\ x = 0 /\ y < 256 => A!NewGroupAddr2(x, y) = y
         /\ A!NewGroupAddr2(x, y) = 0 => x = 0 /\ y = 0
<1> DEFINE m == (y \div 256) % 8
           e1 == A!EitherBit(x, m, 1)
           e2 == A!EitherBit(x, m, 2)
           e4 == A!EitherBit(x, m, 4)
<1>1. m \in 0..7 /\ y = m * 256 + (y % 256) /\ y % 256 \in 0..255
  BY SMT
<1>2. e1 \in {0, 1} /\ e2 \in {0, 2} /\ e4 \in {0, 4}
  BY DEF A!EitherBit
<1>3. e1 = 0 => x % 2 = 0 /\ m % 2 = 0
  BY <1>1 DEF A!EitherBit
<1>4. e2 = 0 => (x \div 2) % 2 = 0 /\ (m \div 2) % 2 = 0
  BY <1>1 DEF A!EitherBit
<1>5. e4 = 0 => (x \div 4) % 2 = 0 /\ (m \div 4) % 2 = 0
  BY <1>1 DEF A!EitherBit
<1>6. x = 0 /\ m = 0 => e1 = 0 /\ e2 = 0 /\ e4 = 0
  BY DEF A!EitherBit
<1>7. A!NewGroupAddr2(x, y) = (x \div 8) * 2048 + (y % 256) + 256 * (e1 + e2 + e4)
  BY DEF A!NewGroupAddr2
<1>8. x \div 8 \in 0..3
  BY SMT
<1>9. x \div 8 = 0 /\ e1 = 0 /\ e2 = 0 /\ e4 = 0 => x = 0 /\ m = 0
  BY <1>1, <1>3, <1>4, <1>5
<1> HIDE DEF m, e1, e2, e4
<1>10. A!NewGroupAddr2(x, y) < 256 => x \div 8 = 0 /\ e1 = 0 /\ e2 = 0 /\ e4 = 0
  BY <1>1, <1>2, <1>7, <1>8
<1> QED
  BY <1>1, <1>2, <1>6, <1>7, <1>8, <1>9, <1>10

(* A text is that of its numbers.                                          *)
LEMMA TextParts ==
  ASSUME NEW text \in Seq(Int)
  PROVE  /\ Len(text) = 3 => \E x, y, z \in Int : text = <<x, y, z>>
         /\ Len(text) = 2 => \E x, y \in Int : text = <<x, y>>
         /\ Len(text) = 1 => \E x \in Int : text = <<x>>
<1>1. ASSUME Len(text) = 3 PROVE \E x, y, z \in Int : text = <<x, y, z>>
  <2>1. text[1] \in Int /\ text[2] \in Int /\ text[3] \in Int
    <3>1. \A k \in 1..3 : text[k] \in Int
      BY <1>1
    <3> QED
      BY <3>1
  <2>2. text = <<text[1], text[2], text[3]>>
    BY <1>1, SMTT(30)
  <2> QED
    BY <2>1, <2>2, Zenon
<1>2. ASSUME Len(text) = 2 PROVE \E x, y \in Int : text = <<x, y>>
  <2>1. text[1] \in Int /\ text[2] \in Int
    BY <1>2
  <2>2. text = <<text[1], text[2]>>
    BY <1>2
  <2> QED
    BY <2>1, <2>2, Zenon
<1>3. ASSUME Len(text) = 1 PROVE \E x \in Int : text = <<x>>
  <2>1. text[1] \in Int
    BY <1>3
  <2>2. text = <<text[1]>>
    BY <1>3
  <2> QED
    BY <2>1, <2>2, Zenon
<1> QED
  BY <1>1, <1>2, <1>3

(* A number that 16 bits hold; 65535 itself is 32 * 2048 - 1.              *)
NumberOf16Bits(n) == n \in Int /\ 0 <= n /\ n < 32 * 2048

(* What is read of a text with three, two or one number.                   *)
LEMMA ReadThree ==
  ASSUME NEW kind \in AddressKinds, NEW x \in Int, NEW y \in Int, NEW z \in Int,
         Parse(kind, <<x, y, z>>) # A!NoAddress
  PROVE  NumberOf16Bits(Parse(kind, <<x, y, z>>)) /\ Parse(kind, <<x, y, z>>) # 0
<1>1. CASE kind = "group"
  <2>1. x \in 0..31 /\ y \in 0..7 /\ z \in 0..255 /\ <<x, y, z>> # <<0, 0, 0>>
    BY <1>1 DEF Parse, A!NewGroupAddrString, A!InRange
  <2>2. Parse(kind, <<x, y, z>>) = x * 2048 + y * 256 + z
    <3>1. Parse(kind, <<x, y, z>>) = A!NewGroupAddr3(x, y, z)
      BY <1>1, <2>1 DEF Parse, A!NewGroupAddrString, A!InRange
    <3>2. A!NewGroupAddr3(x, y, z) = x * 2048 + y * 256 + z
      BY <2>1 DEF A!NewGroupAddr3
    <3> QED
      BY <3>1, <3>2
  <2>3. x # 0 \/ y # 0 \/ z # 0
    BY <2>1
  <2> QED
    BY <2>1, <2>2, <2>3 DEF NumberOf16Bits
<1>2. CASE kind = "physical"
  <2>1. x \in 0..15 /\ y \in 0..15 /\ z \in 0..255 /\ <<x, y, z>> # <<0, 0, 0>>
    BY <1>2 DEF Parse, A!NewPhysicalAddrString, A!InRange
  <2>2. Parse(kind, <<x, y, z>>) = x * 4096 + y * 256 + z
    BY <1>2, <2>1 DEF Parse, A!NewPhysicalAddrString, A!InRange
  <2>3. x # 0 \/ y # 0 \/ z # 0
    BY <2>1
  <2> QED
    BY <2>1, <2>2, <2>3 DEF NumberOf16Bits
<1> QED
  BY <1>1, <1>2 DEF AddressKinds

(* Two numbers that parse as an address are not both zero, and the address *)
(* is in range and reads as those numbers (cemi/addr.go).                  *)
LEMMA ReadTwo ==
  ASSUME NEW kind \in AddressKinds, NEW x \in Int, NEW y \in Int,
         Parse(kind, <<x, y>>) # A!NoAddress
  PROVE  /\ x # 0 \/ y # 0
         /\ NumberOf16Bits(Parse(kind, <<x, y>>)) /\ Parse(kind, <<x, y>>) # 0
         /\ Parse(kind, <<x, y>>) < 256 => x = 0 /\ Parse(kind, <<x, y>>) = y
<1>1. CASE kind = "group"
  <2>1. x \in 0..31 /\ y \in 0..2047 /\ <<x, y>> # <<0, 0>>
    BY <1>1 DEF Parse, A!NewGroupAddrString, A!InRange
  <2>2. Parse(kind, <<x, y>>) = A!NewGroupAddr2(x, y)
    BY <1>1, <2>1 DEF Parse, A!NewGroupAddrString, A!InRange
  <2>3. x # 0 \/ y # 0
    BY <2>1
  <2>4. /\ A!NewGroupAddr2(x, y) \in Nat /\ A!NewGroupAddr2(x, y) < 32 * 2048
        /\ A!NewGroupAddr2(x, y) < 256 => x = 0 /\ A!NewGroupAddr2(x, y) = y
        /\ A!NewGroupAddr2(x, y) = 0 => x = 0 /\ y = 0
    <3>1. y \in Nat /\ y < 8 * 256
      BY <2>1
    <3> QED
      BY <2>1, <3>1, TwoLevelGroup, SMT
  <2> QED
    BY <2>2, <2>3, <2>4 DEF NumberOf16Bits
<1>2. CASE kind = "physical"
  <2>1. x \in 0..255 /\ y \in 0..255 /\ <<x, y>> # <<0, 0>>
    BY <1>2 DEF Parse, A!NewPhysicalAddrString, A!InRange
  <2>2. Parse(kind, <<x, y>>) = x * 256 + y
    BY <1>2, <2>1 DEF Parse, A!NewPhysicalAddrString, A!InRange
  <2>3. x # 0 \/ y # 0
    BY <2>1
  <2> QED
    BY <2>1, <2>2, <2>3 DEF NumberOf16Bits
<1> QED
  BY <1>1, <1>2 DEF AddressKinds

(* A single number that parses as an address is that address.              *)
LEMMA ReadOne ==
  ASSUME NEW kind \in AddressKinds, NEW x \in Int, Parse(kind, <<x>>) # A!NoAddress
  PROVE  x # 0 /\ x \in A!Address /\ Parse(kind, <<x>>) = x
<1>1. Parse(kind, <<x>>) = x /\ <<x>> # <<0>> /\ A!InRange(x, A!MaxAddress)
  BY DEF Parse, AddressKinds, A!NewGroupAddrString, A!NewPhysicalAddrString
<1>2. A!MaxAddress \in Int
  BY SMTT(60) DEF A!MaxAddress
<1> QED
  BY <1>1, <1>2 DEF A!Address, A!InRange

(* A text that is accepted is an address, and not 0.                       *)
LEMMA ParsedIsAddress ==
  ASSUME NEW kind \in AddressKinds, NEW text \in Seq(Int), Parse(kind, text) # A!NoAddress
  PROVE  Parse(kind, text) \in A!Address \ {0}
<1>1. A!MaxAddress \in Int /\ A!MaxAddress >= 32 * 2048 - 1
  BY SMTT(60) DEF A!MaxAddress
<1>2. Len(text) \in {1, 2, 3}
  BY DEF Parse, A!NewGroupAddrString, A!NewPhysicalAddrString
<1>3. CASE Len(text) = 3
  <2>1. PICK x, y, z \in Int : text = <<x, y, z>>
    BY <1>3, TextParts
  <2>2. NumberOf16Bits(Parse(kind, text)) /\ Parse(kind, text) # 0
    BY <2>1, ReadThree
  <2> QED
    BY <1>1, <2>2 DEF A!Address, NumberOf16Bits
<1>4. CASE Len(text) = 2
  <2>1. PICK x, y \in Int : text = <<x, y>>
    BY <1>4, TextParts
  <2>2. NumberOf16Bits(Parse(kind, text)) /\ Parse(kind, text) # 0
    BY <2>1, ReadTwo
  <2> QED
    BY <1>1, <2>2 DEF A!Address, NumberOf16Bits
<1>5. CASE Len(text) = 1
  <2>1. PICK x \in Int : text = <<x>>
    BY <1>5, TextParts
  <2> QED
    BY <2>1, ReadOne
<1> QED
  BY <1>2, <1>3, <1>4, <1>5

(* An address that was read from a text is written as that text, if the    *)
(* text has the levels of the format and the format can tell.              *)
LEMMA TextComesBack ==
  ASSUME NEW kind \in AddressKinds, NEW form \in AddressForms, NEW text \in Seq(Int),
         Len(text) = Levels(form), Parse(kind, text) # A!NoAddress,
         Consistent(kind, form, Parse(kind, text))
  PROVE  Format(kind, Parse(kind, text), form) = text
<1>1. CASE form = "ThreeLevel"
  <2>1. PICK x, y, z \in Int : text = <<x, y, z>>
    BY <1>1, TextParts DEF Levels
  <2> QED
    BY <1>1, <2>1, TextsReturn DEF AddressKinds, Parse, Format
<1>2. CASE form = "Free"
  <2>1. PICK x \in Int : text = <<x>>
    BY <1>2, TextParts DEF Levels
  <2>2. Parse(kind, text) = x
    BY <2>1, ReadOne
  <2>3. Format(kind, x, form) = <<x>>
    BY <1>2 DEF Format, A!FormatGroup, A!FormatPhysical
  <2> QED
    BY <2>1, <2>2, <2>3 DEF NumberOf16Bits
<1>3. CASE form = "TwoLevel"
  <2>1. PICK x, y \in Int : text = <<x, y>>
    BY <1>3, TextParts DEF Levels
  <2> DEFINE a == Parse(kind, <<x, y>>)
  <2>2. a < 256
    BY <1>3, <2>1 DEF Consistent
  <2>3. x = 0 /\ a = y /\ y \in 1..255
    <3>1. a # A!NoAddress
      BY <2>1
    <3>2. NumberOf16Bits(a) /\ a # 0 /\ (a < 256 => x = 0 /\ a = y)
      BY <3>1, ReadTwo
    <3> QED
      BY <2>2, <3>2 DEF NumberOf16Bits
  <2>4. y \div 2048 = 0 /\ y \div 4096 = 0 /\ y % 2048 = y
    BY <2>3, SMT
  <2>5. Format(kind, y, form) = <<0, y>>
    BY <1>3, <2>4 DEF Format, A!FormatGroup, A!FormatPhysical
  <2> QED
    BY <2>1, <2>3, <2>5
<1> QED
  BY <1>1, <1>2, <1>3 DEF AddressForms

(* An address that is written in a format that can tell is read as that    *)
(* address.                                                                *)
LEMMA AddressComesBack ==
  ASSUME NEW kind \in AddressKinds, NEW form \in AddressForms, NEW a \in A!Address \ {0},
         Consistent(kind, form, a)
  PROVE  Parse(kind, Format(kind, a, form)) = a
<1>1. CASE form # "TwoLevel"
  BY <1>1, AddressesReturn DEF AddressForms, Parse, Format
<1>2. CASE form = "TwoLevel"
  <2>1. a \in 1..255
    BY <1>2, AddressBounds DEF Consistent
  <2>2. a \div 2048 = 0 /\ a \div 4096 = 0 /\ a % 2048 = a
    BY <2>1, SMT
  <2>3. Format(kind, a, form) = <<0, a>>
    BY <1>2, <2>2 DEF Format, A!FormatGroup, A!FormatPhysical
  <2>4. A!NewGroupAddrString(<<0, a>>) = a
    <3>1. A!NewGroupAddrString(<<0, a>>) = A!NewGroupAddr2(0, a)
      BY <2>1 DEF A!NewGroupAddrString, A!InRange
    <3>2. 0 \in 0..31 /\ a \in Nat /\ a < 8 * 256 /\ a < 256
      BY <2>1
    <3>3. A!NewGroupAddr2(0, a) = a
      BY <3>2, TwoLevelGroup, SMT
    <3> QED
      BY <3>1, <3>3
  <2>5. A!NewPhysicalAddrString(<<0, a>>) = a
    BY <2>1 DEF A!NewPhysicalAddrString, A!InRange
  <2> QED
    BY <2>3, <2>4, <2>5 DEF Parse
<1> QED
  BY <1>1, <1>2

(* An address on its way: read from a text or sent by a peer, it is the    *)
(* number that is written in the item's format, read and written again.    *)
AddressInv ==
  item.kind \in AddressKinds =>
    /\ item.form \in AddressForms
    /\ stage \in {"made", "sent", "read", "relayed"}
    /\ item.made => item.value \in Seq(Int)
    /\ stage = "made" => item.made
    /\ stage # "made" /\ wire.res = "ok" =>
         /\ wire.value \in A!Address \ {0}
         /\ item.made => wire.value = Parse(item.kind, item.value)
    /\ stage \in {"read", "relayed"} =>
         wire.res = "ok" /\ got = K!Got(Format(item.kind, wire.value, item.form), 0)
    /\ stage = "relayed" =>
         LET a == Parse(item.kind, got.value)
         IN  again = IF a = A!NoAddress THEN K!Fails ELSE K!Got(Format(item.kind, a, item.form), 0)

(* NoAddress is no address.                                                *)
LEMMA NoAddressIsNone == A!NoAddress \notin A!Address
BY AddressBounds DEF A!NoAddress

(* A notation that has only been built satisfies the invariant.            *)
LEMMA AddressInvInit == Init => AddressInv
<1> SUFFICES ASSUME Init, item.kind \in AddressKinds PROVE AddressInv
  BY DEF AddressInv
<1> USE DEF AddressKinds
<1>1. CASE \E form \in AddressForms, kind \in AddressKinds, text \in GroupTexts \cup PhysicalTexts :
             Item(kind, form, text)
  <2>1. PICK form \in AddressForms, kind \in AddressKinds,
             text \in GroupTexts \cup PhysicalTexts : Item(kind, form, text)
    BY <1>1
  <2>2. text \in Seq(Int)
    BY AddressAssumption
  <2> QED
    BY <2>1, <2>2 DEF Item, AddressInv
<1>2. CASE \E form \in AddressForms, kind \in AddressKinds, a \in GroupAddrs \cup PhysicalAddrs :
             FromPeer(kind, form, <<>>, a)
  <2>1. PICK form \in AddressForms, kind \in AddressKinds,
             a \in GroupAddrs \cup PhysicalAddrs : FromPeer(kind, form, <<>>, a)
    BY <1>2
  <2>2. a \in A!Address \ {0}
    BY AddressAssumption
  <2> QED
    BY <2>1, <2>2 DEF FromPeer, K!Got, AddressInv
<1>3. \/ \E form \in AddressForms, kind \in AddressKinds, text \in GroupTexts \cup PhysicalTexts :
             Item(kind, form, text)
      \/ \E form \in AddressForms, kind \in AddressKinds, a \in GroupAddrs \cup PhysicalAddrs :
             FromPeer(kind, form, <<>>, a)
  <2>1. \A kind, form, v, w : kind \notin AddressKinds =>
          ~Item(kind, form, v) /\ ~FromPeer(kind, form, v, w)
    BY DEF Item, FromPeer
  <2> QED
    BY <2>1 DEF Init
<1> QED
  BY <1>1, <1>2, <1>3

(* Every step of the pipeline keeps the invariant of the addresses.        *)
LEMMA AddressInvNext == AddressInv /\ [Next]_vars => AddressInv'
<1> SUFFICES ASSUME AddressInv, [Next]_vars, item'.kind \in AddressKinds PROVE AddressInv'
  BY DEF AddressInv
<1>1. item' = item
  BY DEF Next, Write, Cut, Change, Receive, Relay, vars
<1>2. item.kind \in AddressKinds
  BY <1>1
<1>3. CASE Write
  <2>1. /\ stage = "made" /\ stage' = "sent" /\ item.made
        /\ item.form \in AddressForms /\ item.value \in Seq(Int)
    BY <1>2, <1>3 DEF Write, AddressInv
  <2>2. wire' = Address(Parse(item.kind, item.value))
    BY <1>2, <1>3 DEF Write, Written, Parse, AddressKinds
  <2>3. wire'.res = "ok" =>
          /\ wire'.value = Parse(item.kind, item.value)
          /\ Parse(item.kind, item.value) # A!NoAddress
    BY <2>2 DEF Address, K!Got, K!Fails
  <2>4. wire'.res = "ok" => wire'.value \in A!Address \ {0}
    BY <1>2, <2>1, <2>3, ParsedIsAddress
  <2> QED
    BY <1>1, <1>2, <2>1, <2>3, <2>4 DEF AddressInv
<1>4. CASE Cut \/ Change
  BY <1>2, <1>4 DEF Cut, Change, OnTheWay, AddressKinds
<1>5. CASE Receive
  <2>1. /\ stage = "sent" /\ stage' = "read" /\ wire.res = "ok" /\ wire' = wire
        /\ got' = Read(item.kind, item.form, wire.value)
    BY <1>5 DEF Receive
  <2>2. got' = K!Got(Format(item.kind, wire.value, item.form), 0)
    BY <1>2, <2>1 DEF Read, Format, AddressKinds
  <2> QED
    BY <1>1, <1>2, <2>1, <2>2 DEF AddressInv
<1>6. CASE Relay
  <2>1. PICK w \in Written(Onward(item.kind), item.form, got.value) :
          again' = IF w.res = "ok" THEN Read(item.kind, item.form, w.value) ELSE w
    BY <1>6 DEF Relay
  <2>2. /\ stage = "read" /\ stage' = "relayed" /\ wire' = wire /\ got' = got
    BY <1>6 DEF Relay
  <2> DEFINE a == Parse(item.kind, got.value)
  <2>3. w = Address(a)
    BY <1>2, <2>1 DEF Written, Onward, Parse, AddressKinds
  <2>4. again' = IF a = A!NoAddress THEN K!Fails ELSE K!Got(Format(item.kind, a, item.form), 0)
    BY <1>2, <2>1, <2>3 DEF Address, K!Got, K!Fails, Read, Format, AddressKinds
  <2> HIDE DEF a
  <2>5. a' = a
    BY <1>1, <2>2 DEF a
  <2> QED
    BY <1>1, <1>2, <2>2, <2>4, <2>5 DEF AddressInv, a
<1>7. CASE UNCHANGED vars
  BY <1>7 DEF vars, AddressInv
<1> QED
  BY <1>3, <1>4, <1>5, <1>6, <1>7 DEF Next

(* The invariant is strong enough for the property the run checks.         *)
LEMMA AddressInvImplies == AddressInv => AddressesArrive
<1> SUFFICES ASSUME AddressInv, item.kind \in AddressKinds PROVE AddressesArrive
  BY DEF AddressesArrive, AddressKinds
<1>1. ASSUME stage = "read", item.made, Len(item.value) = Levels(item.form),
             Consistent(item.kind, item.form, wire.value)
      PROVE  got.value = item.value
  <2>1. /\ item.form \in AddressForms /\ item.value \in Seq(Int)
        /\ wire.value \in A!Address /\ wire.value = Parse(item.kind, item.value)
        /\ got.value = Format(item.kind, wire.value, item.form)
    BY <1>1 DEF AddressInv, K!Got
  <2>2. Parse(item.kind, item.value) # A!NoAddress
    BY <2>1, NoAddressIsNone
  <2> QED
    BY <1>1, <2>1, <2>2, TextComesBack
<1>2. ASSUME stage = "relayed", Consistent(item.kind, item.form, wire.value)
      PROVE  again.value = got.value
  <2>1. /\ item.form \in AddressForms /\ wire.value \in A!Address \ {0}
        /\ got.value = Format(item.kind, wire.value, item.form)
    BY <1>2 DEF AddressInv, K!Got
  <2>2. Parse(item.kind, got.value) = wire.value
    BY <1>2, <2>1, AddressComesBack
  <2>3. again = K!Got(Format(item.kind, wire.value, item.form), 0)
    BY <1>2, <2>1, <2>2, NoAddressIsNone DEF AddressInv
  <2> QED
    BY <2>1, <2>3 DEF K!Got
<1> QED
  BY <1>1, <1>2 DEF AddressesArrive

(* An address that was read from a text is written as that text, and the   *)
(* other way round, for every text and address.                            *)
THEOREM AddressesArriveCorrect == Spec => []AddressesArrive
<1>1. Spec => []AddressInv
  BY AddressInvInit, AddressInvNext, PTL DEF Spec
<1> QED
  BY <1>1, AddressInvImplies, PTL
-----------------------------------------------------------------------------
(* The numbers of 16 bits, between their limits.                           *)
LEMMA WordIs ==
  ASSUME NEW w
  PROVE  w \in K!Word <=> w \in Int /\ 0 <= w /\ w <= 65535
<1> DEFINE last == 65535
<1>1. last \in Int
  OBVIOUS
<1>2. last = 65535
  OBVIOUS
<1>3. K!Word = 0..last
  BY DEF K!Word
<1> HIDE DEF last
<1>4. w \in K!Word <=> w \in Int /\ 0 <= w /\ w <= last
  BY <1>1, <1>3, SMT
<1> QED
  BY <1>2, <1>4, SMT

(* The modules' octets are the same.                                       *)
LEMMA SameWords == D!Byte = K!Byte /\ D!Word = K!Word
BY DEF D!Byte, K!Byte, D!Word, K!Word

(* A word is what its two octets make.                                     *)
LEMMA WordOctets ==
  ASSUME NEW w \in K!Word
  PROVE  /\ (w \div 256) % 256 \in K!Byte /\ w % 256 \in K!Byte
         /\ ((w \div 256) % 256) * 256 + (w % 256) = w
<1>1. w \in Nat /\ w < 256 * 256
  BY WordIs, SMT
<1> QED
  BY <1>1, SMTT(60) DEF K!Byte

(* And two octets make a word.                                             *)
LEMMA OctetsWord ==
  ASSUME NEW x \in K!Byte, NEW y \in K!Byte
  PROVE  x * 256 + y \in K!Word
<1>1. x * 256 + y \in Int /\ 0 <= x * 256 + y /\ x * 256 + y <= 65535
  BY SMT DEF K!Byte
<1> QED
  BY <1>1, WordIs, SMT

(* What U16 writes.                                                        *)
LEMMA U16Type ==
  ASSUME NEW w \in Int
  PROVE  K!U16(w) \in Seq(K!Byte) /\ Len(K!U16(w)) = 2
BY DEF K!U16, K!Byte

(* Taking what was put before off again.                                   *)
LEMMA FromAppended ==
  ASSUME NEW s \in Seq(K!Byte), NEW t \in Seq(K!Byte)
  PROVE  K!From(s \o t, Len(s)) = t
BY DEF K!From

(* The octets from an offset on are octets, and are those of the packet.   *)
LEMMA FromType ==
  ASSUME NEW s \in Seq(K!Byte), NEW n \in 0..Len(s)
  PROVE  /\ K!From(s, n) \in Seq(K!Byte) /\ Len(K!From(s, n)) = Len(s) - n
         /\ \A i \in 1..Len(s) - n : K!From(s, n)[i] = s[n + i]
BY DEF K!From
-----------------------------------------------------------------------------
(* Six bits of data and two of a command in one octet.                     *)
LEMMA MixedOctet ==
  ASSUME NEW d \in K!Byte, NEW c \in 0..3
  PROVE  LET mix == (d % 64) + 64 * c
         IN  mix \in K!Byte /\ mix % 64 = d % 64 /\ mix \div 64 = c
<1> DEFINE six == d % 64
<1>1. six \in 0..63
  BY DEF K!Byte
<1> HIDE DEF six
<1>2. six + 64 * c \in 0..255
  BY <1>1
<1>3. (six + 64 * c) % 64 = six
  BY <1>1
<1>4. (six + 64 * c) \div 64 = c
  BY <1>1
<1> QED
  BY <1>2, <1>3, <1>4 DEF six, K!Byte

(* A length is cut to what an octet holds.                                 *)
LEMMA CappedLength ==
  ASSUME NEW n \in Nat, n # 0
  PROVE  LET m == IF n > 255 THEN 255 ELSE n
         IN  m \in 1..255 /\ m <= n /\ m # 0
OBVIOUS

(* The octets of application data, at least one and at most 255.           *)
LEMMA AppBytesType ==
  ASSUME NEW u \in K!Units, ~u.control
  PROVE  /\ K!AppBytes(u) \in Seq(K!Byte)
         /\ Len(K!AppBytes(u)) \in 1..255
         /\ K!AppBytes(u)[1] \in K!Byte
<1>1. u.data \in Seq(K!Byte)
  BY DEF K!Units
<1>2. CASE Len(u.data) = 0
  BY <1>1, <1>2 DEF K!AppBytes, K!Byte
<1>3. CASE Len(u.data) # 0
  <2> DEFINE n == IF Len(u.data) > 255 THEN 255 ELSE Len(u.data)
  <2>1. n \in 1..255 /\ n <= Len(u.data) /\ n # 0
    <3>1. Len(u.data) \in Nat /\ Len(u.data) # 0
      BY <1>1, <1>3
    <3> QED
      BY <3>1, CappedLength
  <2>2. K!AppBytes(u) = SubSeq(u.data, 1, n)
    BY <2>1 DEF K!AppBytes
  <2> HIDE DEF n
  <2> QED
    BY <1>1, <2>1, <2>2
<1> QED
  BY <1>2, <1>3

(* The numbering of a unit and what is read of it.                         *)
LEMMA NumberRead ==
  ASSUME NEW u, u.numbered \in BOOLEAN, u.seq \in 0..15, NEW c \in 0..3
  PROVE  LET octet == K!Number(u) + c
         IN  /\ octet \in 0..127
             /\ K!Numbered(octet) = u.numbered
             /\ K!SeqNumber(octet) = IF u.numbered THEN u.seq ELSE 0
             /\ octet % 4 = c
             /\ K!Numbered(128 + octet) = u.numbered
             /\ K!SeqNumber(128 + octet) = IF u.numbered THEN u.seq ELSE 0
             /\ (128 + octet) % 4 = c
<1> DEFINE flag == IF u.numbered THEN 1 ELSE 0
           seq == IF u.numbered THEN u.seq ELSE 0
           octet == K!Number(u) + c
<1>1. flag \in 0..1 /\ (flag = 1) = u.numbered /\ seq \in 0..15
  OBVIOUS
<1>2. octet = 64 * flag + 4 * seq + c
  <2>1. u.seq % 16 = u.seq
    OBVIOUS
  <2> QED
    BY <2>1 DEF K!Number
<1> HIDE DEF flag, seq, octet
<1>3. octet \in 0..127 /\ octet \div 64 = flag /\ octet \div 4 = 16 * flag + seq /\ octet % 4 = c
  BY <1>1, <1>2
<1>4. /\ (128 + octet) \div 64 = 2 + flag /\ (128 + octet) \div 4 = 32 + 16 * flag + seq
      /\ (128 + octet) % 4 = c
  BY <1>1, <1>2
<1>5. /\ flag % 2 = flag /\ (2 + flag) % 2 = flag
      /\ (16 * flag + seq) % 16 = seq /\ (32 + 16 * flag + seq) % 16 = seq
  BY <1>1
<1>6. K!Numbered(octet) = u.numbered /\ K!Numbered(128 + octet) = u.numbered
  BY <1>1, <1>3, <1>4, <1>5 DEF K!Numbered
<1>7. K!SeqNumber(octet) = seq /\ K!SeqNumber(128 + octet) = seq
  BY <1>3, <1>4, <1>5 DEF K!SeqNumber
<1> QED
  BY <1>3, <1>4, <1>6, <1>7 DEF octet, seq

(* A unit is read as what it means, and takes what its size says.          *)
LEMMA UnitArrives ==
  ASSUME NEW u \in K!Units
  PROVE  /\ K!PackUnit(u) \in Seq(K!Byte)
         /\ Len(K!PackUnit(u)) = K!SizeUnit(u)
         /\ K!UnpackUnit(K!PackUnit(u)) = K!Got(UnitMeant(u), K!SizeUnit(u))
<1> DEFINE p == K!PackUnit(u)
<1>0. u.numbered \in BOOLEAN /\ u.seq \in 0..15
  BY DEF K!Units
<1>1. CASE u.control
  <2>1. u.command \in 0..3
    BY <1>1 DEF K!Units
  <2>2. u.command % 4 = u.command
    BY <2>1
  <2> DEFINE octet == K!Number(u) + u.command
  <2>3. /\ octet \in 0..127
        /\ K!Numbered(128 + octet) = u.numbered
        /\ K!SeqNumber(128 + octet) = IF u.numbered THEN u.seq ELSE 0
        /\ (128 + octet) % 4 = u.command
    BY <1>0, <2>1, NumberRead
  <2>4. p = <<0, 128 + octet>>
    <3>1. K!Number(u) \in Int
      BY <1>0 DEF K!Number
    <3> QED
      BY <1>1, <2>1, <2>2, <3>1 DEF K!PackUnit
  <2> HIDE DEF octet, p
  <2>5. p \in Seq(K!Byte) /\ Len(p) = 2
    BY <2>3, <2>4 DEF K!Byte
  <2>6. K!UnpackUnit(p) = K!Got([control |-> TRUE, numbered |-> u.numbered,
           seq |-> IF u.numbered THEN u.seq ELSE 0, command |-> u.command], 2)
    <3>1. p[2] = 128 + octet /\ p[2] >= 128 /\ ~(Len(p) < 2)
      BY <2>3, <2>4, <2>5
    <3> QED
      BY <2>3, <3>1 DEF K!UnpackUnit
  <2>7. UnitMeant(u) = [control |-> TRUE, numbered |-> u.numbered,
           seq |-> IF u.numbered THEN u.seq ELSE 0, command |-> u.command]
    BY <1>1 DEF UnitMeant, K!Units
  <2> QED
    BY <1>1, <2>5, <2>6, <2>7 DEF K!SizeUnit, p
<1>2. CASE ~u.control
  <2> DEFINE data == K!AppBytes(u)
             high == (u.command \div 4) % 4
             low == u.command % 4
             octet == K!Number(u) + high
             mixed == (data[1] % 64) + 64 * low
             seq == IF u.numbered THEN u.seq ELSE 0
  <2>1. u.command \in 0..15
    BY <1>2 DEF K!Units
  <2>2. high \in 0..3 /\ low \in 0..3 /\ 4 * high + low = u.command
    BY <2>1
  <2>3. data \in Seq(K!Byte) /\ Len(data) \in 1..255 /\ data[1] \in K!Byte
    BY <1>2, AppBytesType
  <2>4. /\ octet \in 0..127 /\ K!Numbered(octet) = u.numbered
        /\ K!SeqNumber(octet) = seq /\ octet % 4 = high
    BY <1>0, <2>2, NumberRead
  <2>5. mixed \in K!Byte /\ mixed % 64 = data[1] % 64 /\ mixed \div 64 = low
    <3>1. data[1] \in K!Byte /\ low \in 0..3
      BY <2>2, <2>3
    <3>2. LET mix == (data[1] % 64) + 64 * low
          IN  mix \in K!Byte /\ mix % 64 = data[1] % 64 /\ mix \div 64 = low
      BY <3>1, MixedOctet
    <3> QED
      BY <3>2
  <2>6. p = <<Len(data), octet, mixed>> \o Tail(data)
    BY <1>2 DEF K!PackUnit
  <2>7. UnitMeant(u) = [control |-> FALSE, numbered |-> u.numbered, seq |-> seq,
                        command |-> u.command, data |-> [data EXCEPT ![1] = @ % 64]]
    BY <1>2 DEF UnitMeant, K!Units
  <2> HIDE DEF p, data, high, low, octet, mixed, seq
  <2>8. /\ p \in Seq(K!Byte) /\ Len(p) = 2 + Len(data)
        /\ p[1] = Len(data) /\ p[2] = octet /\ p[3] = mixed
        /\ \A i \in 2..Len(data) : p[i + 2] = data[i]
    <3> DEFINE t == Tail(data)
               n == Len(data)
    <3>1. n \in K!Byte /\ octet \in K!Byte /\ mixed \in K!Byte
      BY <2>3, <2>4, <2>5 DEF K!Byte
    <3>2. /\ t \in Seq(K!Byte) /\ Len(t) = n - 1
          /\ \A i \in 2..n : data[i] = t[i - 1] /\ i - 1 \in 1..Len(t)
      BY <2>3
    <3>3. p = <<n, octet, mixed>> \o t
      BY <2>6
    <3> HIDE DEF t, n
    <3>4. /\ p \in Seq(K!Byte) /\ Len(p) = 3 + Len(t)
          /\ p[1] = n /\ p[2] = octet /\ p[3] = mixed
          /\ \A j \in 1..Len(t) : p[3 + j] = t[j]
      BY <3>1, <3>2, <3>3
    <3>5. n \in 1..255
      BY <2>3 DEF n
    <3>6. ASSUME NEW i \in 2..n PROVE p[i + 2] = data[i]
      <4>1. i - 1 \in 1..Len(t) /\ i + 2 = 3 + (i - 1) /\ data[i] = t[i - 1]
        BY <3>2, <3>5
      <4> QED
        BY <3>4, <4>1
    <3>7. Len(p) = 2 + n
      BY <3>2, <3>4, <3>5
    <3> QED
      BY <3>4, <3>6, <3>7 DEF n
  <2> DEFINE Octet(i) == IF i + 2 > Len(p) THEN 0
                         ELSE IF i = 1 THEN p[3] % 64 ELSE p[i + 2]
  <2>9. [i \in 1..p[1] |-> Octet(i)] = [data EXCEPT ![1] = @ % 64]
    <3>1. \A i \in 1..Len(data) : Octet(i) = [data EXCEPT ![1] = @ % 64][i]
      BY <2>3, <2>5, <2>8
    <3>2. DOMAIN [data EXCEPT ![1] = @ % 64] = 1..Len(data)
      BY <2>3
    <3> QED
      BY <2>8, <3>1, <3>2
  <2>10. K!UnpackUnit(p) =
           K!Got([control |-> FALSE, numbered |-> K!Numbered(octet),
                  seq |-> K!SeqNumber(octet), command |-> 4 * (octet % 4) + (mixed \div 64),
                  data |-> [i \in 1..p[1] |-> Octet(i)]], p[1] + 2)
    <3>1. p[2] < 128 /\ ~(Len(p) < 2) /\ ~(Len(p) < 3) /\ ~(p[1] + 2 < Len(p))
      BY <2>3, <2>4, <2>8, SMTT(30)
    <3>2. ~(p[2] >= 128)
      BY <2>4, <2>8
    <3> QED
      BY <2>8, <3>1, <3>2 DEF K!UnpackUnit
  <2>11. 4 * (octet % 4) + (mixed \div 64) = u.command
    BY <2>2, <2>4, <2>5
  <2>12. K!UnpackUnit(p) = K!Got(UnitMeant(u), 2 + Len(data))
    <3>1. p[1] + 2 = 2 + Len(data)
      BY <2>3, <2>8
    <3> QED
      BY <2>4, <2>7, <2>9, <2>10, <2>11, <3>1
  <2> QED
    BY <1>2, <2>8, <2>12 DEF K!SizeUnit, p, data
<1> QED
  BY <1>1, <1>2

-----------------------------------------------------------------------------
(* What follows a packet's beginning is where the beginning ends.          *)
LEMMA Put ==
  ASSUME NEW s \in Seq(K!Byte), NEW t \in Seq(K!Byte)
  PROVE  /\ s \o t \in Seq(K!Byte) /\ Len(s \o t) = Len(s) + Len(t)
         /\ \A i \in 1..Len(s) : (s \o t)[i] = s[i]
         /\ \A i \in 1..Len(t) : (s \o t)[Len(s) + i] = t[i]
         /\ K!From(s \o t, Len(s)) = t
BY DEF K!From

(* One octet after others, as util.Pack appends it.                        *)
LEMMA PutOne ==
  ASSUME NEW s \in Seq(K!Byte), NEW a \in K!Byte
  PROVE  /\ s \o <<a>> \in Seq(K!Byte) /\ Len(s \o <<a>>) = Len(s) + 1
         /\ \A i \in 1..Len(s) : (s \o <<a>>)[i] = s[i]
         /\ (s \o <<a>>)[Len(s) + 1] = a
OBVIOUS

(* Two octets after others.                                                *)
LEMMA PutTwo ==
  ASSUME NEW s \in Seq(K!Byte), NEW a \in K!Byte, NEW b \in K!Byte
  PROVE  /\ s \o <<a, b>> \in Seq(K!Byte) /\ Len(s \o <<a, b>>) = Len(s) + 2
         /\ \A i \in 1..Len(s) : (s \o <<a, b>>)[i] = s[i]
         /\ (s \o <<a, b>>)[Len(s) + 1] = a /\ (s \o <<a, b>>)[Len(s) + 2] = b
OBVIOUS

(* A packet without its beginning without the beginning of the rest.       *)
LEMMA FromFrom ==
  ASSUME NEW s \in Seq(K!Byte), NEW m \in Nat, NEW n \in Nat, m + n <= Len(s)
  PROVE  K!From(K!From(s, m), n) = K!From(s, m + n)
BY DEF K!From

(* A number that fits an octet.                                            *)
LEMMA SmallNumber ==
  ASSUME NEW n \in Nat, n <= 255
  PROVE  ~(n > 255) /\ n % 256 = n /\ n \in K!Byte
<1>1. n % 256 = n
  OBVIOUS
<1>2. n \in K!Byte
  BY DEF K!Byte
<1> QED
  BY <1>1, <1>2

(* Additional information is read as it was written, whatever follows.     *)
LEMMA InfoArrives ==
  ASSUME NEW info \in Seq(K!Byte), Len(info) <= 255
  PROVE  /\ K!PackInfo(info) \in Seq(K!Byte)
         /\ Len(K!PackInfo(info)) = K!SizeInfo(info)
         /\ K!SizeInfo(info) = 1 + Len(info)
         /\ \A p \in Seq(K!Byte) :
              /\ Len(p) >= Len(K!PackInfo(info))
              /\ \A i \in 1..Len(K!PackInfo(info)) : p[i] = K!PackInfo(info)[i]
              => K!UnpackInfo(p) = K!Got(info, K!SizeInfo(info))
<1> DEFINE q == K!PackInfo(info)
           n == Len(info)
<1>0. n \in Nat /\ n <= 255 /\ ~(n > 255) /\ n % 256 = n /\ n \in K!Byte
  <2>1. n \in Nat /\ n <= 255
    OBVIOUS
  <2> QED
    BY <2>1, SmallNumber
<1>1. K!InfoBytes(info) = info
  BY <1>0 DEF K!InfoBytes
<1>2. q = <<n>> \o info
  BY <1>0, <1>1 DEF K!PackInfo, K!U8
<1>3. K!SizeInfo(info) = 1 + n
  BY <1>1 DEF K!SizeInfo
<1> HIDE DEF n, q
<1>4. /\ q \in Seq(K!Byte) /\ Len(q) = 1 + Len(info) /\ q[1] = n
      /\ \A i \in 1..Len(info) : q[1 + i] = info[i]
  BY <1>0, <1>2
<1>5. Len(q) = 1 + n /\ \A i \in 1..n : q[1 + i] = info[i]
  BY <1>4, Zenon DEF n
<1>6. ASSUME NEW p \in Seq(K!Byte), Len(p) >= Len(q), \A i \in 1..Len(q) : p[i] = q[i]
      PROVE  K!UnpackInfo(p) = K!Got(info, 1 + n)
  <2>1. p[1] = n /\ \A i \in 1..n : p[1 + i] = info[i]
    <3>1. n \in Nat /\ Len(q) = 1 + n /\ q[1] = n
      BY <1>0, <1>4, <1>5
    <3>2. p[1] = n
      BY <1>6, <3>1
    <3>3. \A i \in 1..n : p[1 + i] = q[1 + i]
      BY <1>6, <3>1
    <3> QED
      BY <1>5, <3>2, <3>3
  <2>2. Len(p) \in Nat /\ Len(p) >= 1 + n
    BY <1>5, <1>6
  <2>3. SubSeq(p, 2, 1 + n) \in Seq(K!Byte) /\ Len(SubSeq(p, 2, 1 + n)) = n
    BY <1>0, <2>2
  <2>4. \A i \in 1..n : SubSeq(p, 2, 1 + n)[i] = p[1 + i]
    BY <1>0, <2>2
  <2>5. SubSeq(p, 2, 1 + n) = info
    BY <2>1, <2>3, <2>4 DEF n
  <2>6. ~(Len(p) < 1) /\ ~(n > Len(p) - 1)
    BY <1>0, <2>2
  <2> QED
    BY <2>1, <2>5, <2>6 DEF K!UnpackInfo
<1> QED
  BY <1>3, <1>4, <1>5, <1>6 DEF q

(* An L_Data frame is read as what it means.                               *)
LEMMA LDataArrives ==
  ASSUME NEW type, NEW info \in Seq(K!Byte), Len(info) <= 255,
         NEW c1 \in K!Byte, NEW c2 \in K!Byte, NEW src \in K!Word, NEW dst \in K!Word,
         NEW unit \in K!Units
  PROVE  LET p == K!PackInfo(info) \o K!U8(c1) \o K!U8(c2) \o K!U16(src) \o K!U16(dst)
                    \o K!PackUnit(unit)
             n == K!SizeInfo(info) + 6 + K!SizeUnit(unit)
         IN  /\ p \in Seq(K!Byte) /\ Len(p) = n
             /\ K!UnpackLData(type, p) =
                  K!Got([type |-> type, info |-> info, control1 |-> c1, control2 |-> c2,
                         source |-> src, destination |-> dst, unit |-> UnitMeant(unit)], n)
<1> DEFINE q == K!PackInfo(info)
           v == K!PackUnit(unit)
           k == Len(q)
           u == K!SizeUnit(unit)
           s1 == (src \div 256) % 256
           s2 == src % 256
           d1 == (dst \div 256) % 256
           d2 == dst % 256
           a1 == q \o <<c1>>
           a2 == a1 \o <<c2>>
           a3 == a2 \o <<s1, s2>>
           a4 == a3 \o <<d1, d2>>
           p == q \o K!U8(c1) \o K!U8(c2) \o K!U16(src) \o K!U16(dst) \o v
<1>1. /\ s1 \in K!Byte /\ s2 \in K!Byte /\ s1 * 256 + s2 = src
      /\ d1 \in K!Byte /\ d2 \in K!Byte /\ d1 * 256 + d2 = dst
  BY WordOctets
<1>2. v \in Seq(K!Byte) /\ Len(v) = u /\ K!UnpackUnit(v) = K!Got(UnitMeant(unit), u)
  BY UnitArrives
<1>3. q \in Seq(K!Byte) /\ k = K!SizeInfo(info)
  BY InfoArrives
<1>4. c1 % 256 = c1 /\ c2 % 256 = c2
  BY SMTT(30) DEF K!Byte
<1>5. p = a4 \o v
  BY <1>4, ZenonT(40) DEF K!U8, K!U16
<1> HIDE DEF q, v, u, s1, s2, d1, d2, p
<1>6. /\ a1 \in Seq(K!Byte) /\ Len(a1) = Len(q) + 1 /\ a1[Len(q) + 1] = c1
      /\ \A i \in 1..Len(q) : a1[i] = q[i]
  BY <1>3, PutOne, Zenon
<1> HIDE DEF a1
<1>7. /\ a2 \in Seq(K!Byte) /\ Len(a2) = Len(a1) + 1 /\ a2[Len(a1) + 1] = c2
      /\ \A i \in 1..Len(a1) : a2[i] = a1[i]
  BY <1>6, PutOne, Zenon
<1> HIDE DEF a2
<1>20. s1 \in K!Byte /\ s2 \in K!Byte /\ d1 \in K!Byte /\ d2 \in K!Byte
  BY <1>1
<1>8. /\ a3 \in Seq(K!Byte) /\ Len(a3) = Len(a2) + 2
      /\ a3[Len(a2) + 1] = s1 /\ a3[Len(a2) + 2] = s2
      /\ \A i \in 1..Len(a2) : a3[i] = a2[i]
  BY <1>20, <1>7, PutTwo
<1> HIDE DEF a3
<1>9. /\ a4 \in Seq(K!Byte) /\ Len(a4) = Len(a3) + 2
      /\ a4[Len(a3) + 1] = d1 /\ a4[Len(a3) + 2] = d2
      /\ \A i \in 1..Len(a3) : a4[i] = a3[i]
  BY <1>20, <1>8, PutTwo
<1> HIDE DEF a4
<1>10. /\ p \in Seq(K!Byte) /\ Len(p) = Len(a4) + Len(v) /\ K!From(p, Len(a4)) = v
       /\ \A i \in 1..Len(a4) : p[i] = a4[i]
  BY <1>2, <1>5, <1>9, Put, Zenon
<1>11. k \in Nat /\ u \in Nat
  BY <1>2, <1>3
<1> HIDE DEF k
<1>12. Len(a1) = k + 1 /\ Len(a2) = k + 2 /\ Len(a3) = k + 4 /\ Len(a4) = k + 6
  BY <1>6, <1>7, <1>8, <1>9, <1>11 DEF k
<1>13. /\ p[k + 1] = c1 /\ p[k + 2] = c2 /\ p[k + 3] = s1 /\ p[k + 4] = s2
       /\ p[k + 5] = d1 /\ p[k + 6] = d2
  <2>1. p[k + 5] = d1 /\ p[k + 6] = d2
    <3>1. a4[k + 5] = d1 /\ a4[k + 6] = d2
      BY <1>9, <1>11, <1>12
    <3>2. k + 5 \in 1..k + 6 /\ k + 6 \in 1..k + 6
      BY <1>11
    <3> QED
      BY <1>10, <1>12, <3>1, <3>2
  <2>2. p[k + 3] = s1 /\ p[k + 4] = s2
    BY <1>8, <1>9, <1>10, <1>11, <1>12
  <2>3. p[k + 2] = c2
    BY <1>7, <1>8, <1>9, <1>10, <1>11, <1>12
  <2>4. p[k + 1] = c1
    BY <1>6, <1>7, <1>8, <1>9, <1>10, <1>11, <1>12 DEF k
  <2> QED
    BY <2>1, <2>2, <2>3, <2>4
<1>14. \A i \in 1..k : p[i] = q[i]
  BY <1>6, <1>7, <1>8, <1>9, <1>10, <1>11, <1>12 DEF k
<1>15. K!N16(p, k + 3) = src /\ K!N16(p, k + 5) = dst
  <2>1. k + 3 + 1 = k + 4 /\ k + 5 + 1 = k + 6
    BY <1>11
  <2> QED
    BY <1>1, <1>13, <2>1 DEF K!N16
<1>16. K!From(p, k + 6) = v
  BY <1>10, <1>12
<1>17. Len(p) = k + 6 + u /\ ~(Len(p) < k + 6)
  BY <1>2, <1>10, <1>11, <1>12
<1>18. K!UnpackInfo(p) = K!Got(info, k)
  <2>1. Len(p) >= k
    BY <1>11, <1>17
  <2> QED
    BY <1>3, <1>10, <1>14, <2>1, InfoArrives DEF q, k
<1>19. K!UnpackLData(type, p) =
         K!Got([type |-> type, info |-> info, control1 |-> c1, control2 |-> c2,
                source |-> src, destination |-> dst, unit |-> UnitMeant(unit)], k + 6 + u)
  BY <1>2, <1>13, <1>15, <1>16, <1>17, <1>18 DEF K!UnpackLData, K!Then, K!Got
<1> QED
  BY <1>3, <1>10, <1>17, <1>19 DEF p, q, v, u

-----------------------------------------------------------------------------
(* Every type of message has a code of its own.                            *)
LEMMA CodesDiffer ==
  ASSUME NEW t \in K!LDataTypes \cup K!RawTypes
  PROVE  /\ K!CodeOf(t) \in K!Byte
         /\ {s \in K!LDataTypes \cup K!RawTypes : K!CodeOf(s) = K!CodeOf(t)} = {t}
         /\ t \in K!LDataTypes => {t} \cap K!LDataTypes # {} /\ t \notin K!RawTypes
         /\ t \in K!RawTypes => {t} \cap K!LDataTypes = {} /\ t \notin K!LDataTypes
<1>1. /\ K!CodeOf("LBusmonInd") = 43 /\ K!CodeOf("LDataReq") = 17 /\ K!CodeOf("LDataInd") = 41
      /\ K!CodeOf("LDataCon") = 46 /\ K!CodeOf("LRawReq") = 16 /\ K!CodeOf("LRawInd") = 45
      /\ K!CodeOf("LRawCon") = 47
  BY DEF K!CodeOf
<1>2. K!CodeOf(t) \in K!Byte
  BY <1>1 DEF K!LDataTypes, K!RawTypes, K!Byte
<1>3. \A s \in K!LDataTypes \cup K!RawTypes : K!CodeOf(s) = K!CodeOf(t) => s = t
  BY <1>1 DEF K!LDataTypes, K!RawTypes
<1>4. {s \in K!LDataTypes \cup K!RawTypes : K!CodeOf(s) = K!CodeOf(t)} = {t}
  BY <1>3
<1>5. /\ t \in K!LDataTypes => {t} \cap K!LDataTypes # {} /\ t \notin K!RawTypes
      /\ t \in K!RawTypes => {t} \cap K!LDataTypes = {} /\ t \notin K!LDataTypes
  BY DEF K!LDataTypes, K!RawTypes
<1> QED
  BY <1>2, <1>4, <1>5

(* What a message is read as, by the code in its first octet.              *)
LEMMA MessageByCode ==
  ASSUME NEW data, ~(Len(data) < 1)
  PROVE  /\ \A t \in K!LDataTypes : K!CodeOf(t) = data[1] =>
              K!UnpackMessage(data) =
                LET r == K!UnpackLData(t, K!From(data, 1))
                IN  IF r.res = "ok" THEN K!Got(r.value, 1 + r.n) ELSE r
         /\ \A t \in K!RawTypes : K!CodeOf(t) = data[1] =>
              K!UnpackMessage(data) =
                K!Got([type |-> t, body |-> K!From(data, 1)], 1 + Len(K!From(data, 1)))
         /\ (\A t \in K!LDataTypes \cup K!RawTypes : K!CodeOf(t) # data[1]) =>
              K!UnpackMessage(data) =
                K!Got([type |-> "Unsupported", code |-> data[1], body |-> K!From(data, 1)],
                      1 + Len(K!From(data, 1)))
<1> DEFINE types == {t \in K!LDataTypes \cup K!RawTypes : K!CodeOf(t) = data[1]}
           body == K!From(data, 1)
           r == IF types \cap K!LDataTypes # {}
                  THEN K!UnpackLData(CHOOSE t \in types : TRUE, body)
                ELSE IF types # {}
                  THEN K!Got([type |-> CHOOSE t \in types : TRUE, body |-> body], Len(body))
                ELSE K!Got([type |-> "Unsupported", code |-> data[1], body |-> body], Len(body))
<1>1. K!UnpackMessage(data) = IF r.res = "ok" THEN K!Got(r.value, 1 + r.n) ELSE r
  BY DEF K!UnpackMessage, K!Then
<1>2. ASSUME NEW t \in K!LDataTypes, K!CodeOf(t) = data[1]
      PROVE  r = K!UnpackLData(t, body)
  <2>1. types = {t} /\ {t} \cap K!LDataTypes # {}
    BY <1>2, CodesDiffer
  <2>2. (CHOOSE s \in {t} : TRUE) = t
    OBVIOUS
  <2> QED
    BY <2>1, <2>2
<1>3. ASSUME NEW t \in K!RawTypes, K!CodeOf(t) = data[1]
      PROVE  r = K!Got([type |-> t, body |-> body], Len(body))
  <2>1. types = {t} /\ {t} \cap K!LDataTypes = {}
    BY <1>3, CodesDiffer
  <2>2. (CHOOSE s \in {t} : TRUE) = t
    OBVIOUS
  <2> QED
    BY <2>1, <2>2
<1>4. ASSUME \A t \in K!LDataTypes \cup K!RawTypes : K!CodeOf(t) # data[1]
      PROVE  r = K!Got([type |-> "Unsupported", code |-> data[1], body |-> body], Len(body))
  <2>1. types = {} /\ types \cap K!LDataTypes = {}
    BY <1>4
  <2> QED
    BY <2>1
<1> HIDE DEF r
<1>5. \A v, n : K!Got(v, n).res = "ok" /\ K!Got(v, n).value = v /\ K!Got(v, n).n = n
  BY DEF K!Got
<1> QED
  BY <1>1, <1>2, <1>3, <1>4, <1>5

(* A message is read as what it means.                                     *)
LEMMA MessageArrives ==
  ASSUME NEW m \in K!Messages
  PROVE  /\ K!PackMessage(m) \in Seq(K!Byte)
         /\ Len(K!PackMessage(m)) = K!SizeMessage(m)
         /\ K!UnpackMessage(K!PackMessage(m)) = K!Got(MessageMeant(m), K!SizeMessage(m))
<1> DEFINE p == K!PackMessage(m)
<1>0. \A c \in K!Byte : K!U8(c) = <<c>>
  BY DEF K!U8, K!Byte
<1>1. ASSUME NEW c \in K!Byte, NEW body \in Seq(K!Byte)
      PROVE  /\ <<c>> \o body \in Seq(K!Byte) /\ Len(<<c>> \o body) = 1 + Len(body)
             /\ (<<c>> \o body)[1] = c /\ K!From(<<c>> \o body, 1) = body
             /\ ~(Len(<<c>> \o body) < 1)
  BY DEF K!From
<1>2. CASE m.type \in K!LDataTypes
  <2>1. /\ m.info \in Seq(K!Byte) /\ Len(m.info) <= 255
        /\ m.control1 \in K!Byte /\ m.control2 \in K!Byte
        /\ m.source \in K!Word /\ m.destination \in K!Word /\ m.unit \in K!Units
        /\ m = [type |-> m.type, info |-> m.info, control1 |-> m.control1,
                control2 |-> m.control2, source |-> m.source,
                destination |-> m.destination, unit |-> m.unit]
    BY <1>2 DEF K!Messages, K!LDataTypes, K!RawTypes
  <2> DEFINE body == K!PackLData(m)
             n == K!SizeInfo(m.info) + 6 + K!SizeUnit(m.unit)
             c == K!CodeOf(m.type)
  <2>2. /\ body \in Seq(K!Byte) /\ Len(body) = n
        /\ K!UnpackLData(m.type, body) =
             K!Got([type |-> m.type, info |-> m.info, control1 |-> m.control1,
                    control2 |-> m.control2, source |-> m.source,
                    destination |-> m.destination, unit |-> UnitMeant(m.unit)], n)
    <3> DEFINE info == m.info
               c1 == m.control1
               c2 == m.control2
               src == m.source
               dst == m.destination
               unit == m.unit
               type == m.type
               q == K!PackInfo(info) \o K!U8(c1) \o K!U8(c2) \o K!U16(src) \o K!U16(dst)
                      \o K!PackUnit(unit)
               k == K!SizeInfo(info) + 6 + K!SizeUnit(unit)
    <3>1. /\ info \in Seq(K!Byte) /\ Len(info) <= 255 /\ c1 \in K!Byte /\ c2 \in K!Byte
          /\ src \in K!Word /\ dst \in K!Word /\ unit \in K!Units
      BY <2>1
    <3>2. body = q /\ n = k
      BY DEF K!PackLData
    <3> HIDE DEF body, n, info, c1, c2, src, dst, unit, type
    <3>3. /\ q \in Seq(K!Byte) /\ Len(q) = k
          /\ K!UnpackLData(type, q) =
               K!Got([type |-> type, info |-> info, control1 |-> c1, control2 |-> c2,
                      source |-> src, destination |-> dst, unit |-> UnitMeant(unit)], k)
      BY <3>1, LDataArrives
    <3> QED
      BY <3>2, <3>3 DEF info, c1, c2, src, dst, unit, type
  <2>3. MessageMeant(m) =
          [type |-> m.type, info |-> m.info, control1 |-> m.control1,
           control2 |-> m.control2, source |-> m.source,
           destination |-> m.destination, unit |-> UnitMeant(m.unit)]
    <3>1. MessageMeant(m) = [m EXCEPT !.unit = UnitMeant(m.unit)]
      BY <1>2 DEF MessageMeant
    <3> QED
      BY <2>1, <3>1
  <2>4. c \in K!Byte /\ p = <<c>> \o body
    <3>1. c \in K!Byte
      BY <1>2, CodesDiffer
    <3>2. K!MessageCode(m) = c
      BY <1>2 DEF K!MessageCode, K!LDataTypes
    <3> QED
      BY <1>0, <1>2, <3>1, <3>2 DEF K!PackMessage
  <2>5. K!SizeMessage(m) = 1 + n
    BY <1>2 DEF K!SizeMessage
  <2> HIDE DEF p, body, n, c
  <2>6. /\ p \in Seq(K!Byte) /\ Len(p) = 1 + n /\ p[1] = c /\ K!From(p, 1) = body
        /\ ~(Len(p) < 1)
    BY <1>1, <2>2, <2>4, Zenon
  <2>7. K!UnpackMessage(p) = K!Got(MessageMeant(m), 1 + n)
    <3>1. K!UnpackMessage(p) =
            LET r == K!UnpackLData(m.type, K!From(p, 1))
            IN  IF r.res = "ok" THEN K!Got(r.value, 1 + r.n) ELSE r
      BY <1>2, <2>6, MessageByCode DEF c
    <3> QED
      BY <2>2, <2>3, <2>6, <3>1 DEF K!Got
  <2> QED
    BY <2>5, <2>6, <2>7 DEF p
<1>3. CASE m.type \in K!RawTypes
  <2> DEFINE t == IF m.type = "LRawInd" THEN "LRawCon" ELSE m.type
             c == K!CodeOf(t)
  <2>1. m.body \in Seq(K!Byte) /\ m = [type |-> m.type, body |-> m.body]
    BY <1>3 DEF K!Messages, K!LDataTypes, K!RawTypes
  <2>2. t \in K!RawTypes /\ m.type \notin K!LDataTypes /\ m.type # "Unsupported"
    BY <1>3 DEF K!LDataTypes, K!RawTypes
  <2>3. MessageMeant(m) = [type |-> t, body |-> m.body]
    BY <2>1, <2>2 DEF MessageMeant
  <2>4. K!MessageCode(m) = c
    BY <2>2 DEF K!MessageCode
  <2>5. K!SizeMessage(m) = 1 + Len(m.body)
    BY <2>2 DEF K!SizeMessage
  <2> HIDE DEF t
  <2>6. c \in K!Byte
    BY <2>2, CodesDiffer
  <2>7. p = <<c>> \o m.body
    BY <1>0, <2>2, <2>4, <2>6 DEF K!PackMessage
  <2> HIDE DEF c, p
  <2>8. /\ p \in Seq(K!Byte) /\ Len(p) = 1 + Len(m.body) /\ p[1] = c /\ K!From(p, 1) = m.body
        /\ ~(Len(p) < 1)
    BY <1>1, <2>1, <2>6, <2>7, Zenon
  <2>9. K!UnpackMessage(p) = K!Got([type |-> t, body |-> m.body], 1 + Len(m.body))
    BY <2>2, <2>8, MessageByCode DEF c
  <2> QED
    BY <2>3, <2>5, <2>8, <2>9 DEF p
<1>4. CASE m.type = "Unsupported"
  <2>1. /\ m.body \in Seq(K!Byte) /\ m = [type |-> "Unsupported", body |-> m.body, code |-> m.code]
        /\ m.code \in K!Byte
        /\ \A t \in K!LDataTypes \cup K!RawTypes : K!CodeOf(t) # m.code
    BY <1>4 DEF K!Messages, K!LDataTypes, K!RawTypes
  <2>2. m.type \notin K!LDataTypes /\ m.type \notin K!RawTypes /\ m.type # "LRawInd"
    BY <1>4 DEF K!LDataTypes, K!RawTypes
  <2>3. MessageMeant(m) = m
    BY <2>2 DEF MessageMeant
  <2>4. K!MessageCode(m) = m.code
    BY <1>4 DEF K!MessageCode
  <2>5. K!SizeMessage(m) = 1 + Len(m.body)
    BY <2>2 DEF K!SizeMessage
  <2>6. p = <<m.code>> \o m.body
    BY <1>0, <2>1, <2>2, <2>4 DEF K!PackMessage
  <2> HIDE DEF p
  <2>7. /\ p \in Seq(K!Byte) /\ Len(p) = 1 + Len(m.body) /\ p[1] = m.code
        /\ K!From(p, 1) = m.body /\ ~(Len(p) < 1)
    BY <1>1, <2>1, <2>6, Zenon
  <2>8. K!UnpackMessage(p) =
          K!Got([type |-> "Unsupported", code |-> m.code, body |-> m.body], 1 + Len(m.body))
    BY <2>1, <2>7, MessageByCode
  <2> QED
    BY <2>1, <2>3, <2>5, <2>7, <2>8 DEF p
<1> QED
  BY <1>2, <1>3, <1>4 DEF K!Messages

-----------------------------------------------------------------------------
(* Two packets with the same octets are the same.                          *)
LEMMA SameOctets ==
  ASSUME NEW s \in Seq(K!Byte), NEW t \in Seq(K!Byte), NEW n, Len(s) = n, Len(t) = n,
         \A i \in 1..n : s[i] = t[i]
  PROVE  s = t
OBVIOUS

(* Host information is read as it was written, whatever follows.           *)
LEMMA HostArrives ==
  ASSUME NEW h \in K!HostInfos
  PROVE  /\ K!PackHostInfo(h) \in Seq(K!Byte) /\ Len(K!PackHostInfo(h)) = 8
         /\ \A p \in Seq(K!Byte) :
              Len(p) >= 8 /\ (\A i \in 1..8 : p[i] = K!PackHostInfo(h)[i])
                => K!UnpackHostInfo(p) = K!Got(h, 8)
<1> DEFINE q == K!PackHostInfo(h)
           adr == h.address
           p1 == (h.port \div 256) % 256
           p2 == h.port % 256
           two == <<8, h.protocol>>
           a == two \o adr
<1>1. /\ h.protocol \in K!Byte /\ h.port \in K!Word /\ adr \in Seq(K!Byte) /\ Len(adr) = 4
      /\ h = [protocol |-> h.protocol, address |-> h.address, port |-> h.port]
  BY DEF K!HostInfos, K!Bytes
<1>2. p1 \in K!Byte /\ p2 \in K!Byte /\ p1 * 256 + p2 = h.port
  BY <1>1, WordOctets
<1>3. q = a \o <<p1, p2>>
  BY DEF K!PackHostInfo, K!U16
<1>4. two \in Seq(K!Byte) /\ Len(two) = 2 /\ two[1] = 8 /\ two[2] = h.protocol
  BY <1>1 DEF K!Byte
<1> HIDE DEF q, adr, p1, p2, two
<1>5. /\ a \in Seq(K!Byte) /\ Len(a) = Len(two) + Len(adr)
      /\ \A i \in 1..Len(two) : a[i] = two[i]
      /\ \A i \in 1..Len(adr) : a[Len(two) + i] = adr[i]
  <2>1. two \in Seq(K!Byte) /\ adr \in Seq(K!Byte)
    BY <1>1, <1>4
  <2> QED
    BY <2>1, Put, Zenon
<1> HIDE DEF a
<1>6. Len(a) = 6 /\ a[1] = 8 /\ a[2] = h.protocol /\ \A i \in 1..4 : a[2 + i] = adr[i]
  BY <1>1, <1>4, <1>5
<1>7. /\ q \in Seq(K!Byte) /\ Len(q) = Len(a) + 2
      /\ \A i \in 1..Len(a) : q[i] = a[i]
      /\ q[Len(a) + 1] = p1 /\ q[Len(a) + 2] = p2
  <2>1. p1 \in K!Byte /\ p2 \in K!Byte /\ a \in Seq(K!Byte)
    BY <1>2, <1>5
  <2> QED
    BY <1>3, <2>1, PutTwo
<1>8. /\ Len(q) = 8 /\ q[1] = 8 /\ q[2] = h.protocol /\ \A i \in 1..4 : q[2 + i] = adr[i]
      /\ q[7] = p1 /\ q[8] = p2
  BY <1>6, <1>7
<1>9. ASSUME NEW p \in Seq(K!Byte), Len(p) >= 8, \A i \in 1..8 : p[i] = q[i]
      PROVE  K!UnpackHostInfo(p) = K!Got(h, 8)
  <2>1. p[1] = 8 /\ p[2] = h.protocol /\ p[7] = p1 /\ p[8] = p2
    BY <1>8, <1>9
  <2>2. \A i \in 1..4 : p[2 + i] = adr[i]
    BY <1>8, <1>9
  <2>3. /\ SubSeq(p, 3, 6) \in Seq(K!Byte) /\ Len(SubSeq(p, 3, 6)) = 4
        /\ \A i \in 1..4 : SubSeq(p, 3, 6)[i] = p[2 + i]
    BY <1>9
  <2>4. SubSeq(p, 3, 6) = adr
    <3>1. adr \in Seq(K!Byte) /\ Len(adr) = 4
      BY <1>1
    <3>2. \A i \in 1..4 : SubSeq(p, 3, 6)[i] = adr[i]
      BY <2>2, <2>3
    <3> QED
      BY <2>3, <3>1, <3>2, SameOctets
  <2>5. K!N16(p, 7) = h.port
    BY <1>2, <2>1 DEF K!N16
  <2>6. ~(Len(p) < 8 \/ p[1] # 8)
    BY <1>9, <2>1
  <2>7. K!UnpackHostInfo(p) =
          K!Got([protocol |-> h.protocol, address |-> h.address, port |-> h.port], 8)
    BY <2>1, <2>4, <2>5, <2>6 DEF K!UnpackHostInfo, adr
  <2> QED
    BY <1>1, <2>7
<1> QED
  BY <1>7, <1>8, <1>9 DEF q

(* Host information somewhere in a packet.                                 *)
LEMMA HostAt ==
  ASSUME NEW h \in K!HostInfos, NEW p \in Seq(K!Byte), NEW n \in Nat, Len(p) >= n + 8,
         \A i \in 1..8 : p[n + i] = K!PackHostInfo(h)[i]
  PROVE  K!UnpackHostInfo(K!From(p, n)) = K!Got(h, 8)
<1>1. n \in 0..Len(p)
  OBVIOUS
<1>2. /\ K!From(p, n) \in Seq(K!Byte) /\ Len(K!From(p, n)) = Len(p) - n
      /\ \A i \in 1..Len(p) - n : K!From(p, n)[i] = p[n + i]
  BY <1>1, FromType
<1>3. Len(p) \in Nat /\ 8 <= Len(p) - n
  BY SMTT(30)
<1> DEFINE t == K!From(p, n)
           q == K!PackHostInfo(h)
<1> HIDE DEF t, q
<1>4. t \in Seq(K!Byte) /\ Len(t) = Len(p) - n /\ \A i \in 1..Len(p) - n : t[i] = p[n + i]
  BY <1>2 DEF t
<1>5. \A i \in 1..8 : p[n + i] = q[i]
  BY DEF q
<1>6. Len(t) >= 8 /\ \A i \in 1..8 : t[i] = q[i]
  <2>1. \A i \in 1..8 : i \in 1..Len(p) - n
    BY <1>3
  <2>2. \A i \in 1..8 : t[i] = q[i]
    BY <1>4, <1>5, <2>1, Zenon
  <2> DEFINE m == Len(p) - n
  <2>3. 8 <= m /\ Len(t) = m
    BY <1>3, <1>4
  <2> HIDE DEF m
  <2>4. Len(t) >= 8
    <3>1. m \in Int
      BY <1>3 DEF m
    <3> QED
      BY <2>3, <3>1
  <2> QED
    BY <2>2, <2>4
<1> QED
  BY <1>4, <1>6, HostArrives DEF t, q

(* Host information alone.                                                 *)
LEMMA HostAlone ==
  ASSUME NEW h \in K!HostInfos
  PROVE  K!UnpackHostInfo(K!PackHostInfo(h)) = K!Got(h, 8)
<1> DEFINE p == K!PackHostInfo(h)
<1>1. p \in Seq(K!Byte) /\ Len(p) = 8
  BY HostArrives
<1>2. Len(p) >= 8 /\ \A i \in 1..8 : p[i] = p[i]
  BY <1>1
<1> QED
  BY <1>1, <1>2, HostArrives

(* Four octets after others.                                               *)
LEMMA PutFour ==
  ASSUME NEW s \in Seq(K!Byte), NEW a \in K!Byte, NEW b \in K!Byte, NEW c \in K!Byte, NEW d \in K!Byte
  PROVE  LET p == s \o <<a, b, c, d>>
         IN  /\ p \in Seq(K!Byte) /\ Len(p) = Len(s) + 4
             /\ \A i \in 1..Len(s) : p[i] = s[i]
             /\ p[Len(s) + 1] = a /\ p[Len(s) + 2] = b /\ p[Len(s) + 3] = c /\ p[Len(s) + 4] = d
OBVIOUS

(* Two or four octets and what follows them.                               *)
LEMMA TwoBefore ==
  ASSUME NEW a \in K!Byte, NEW b \in K!Byte, NEW t \in Seq(K!Byte)
  PROVE  LET p == <<a, b>> \o t
         IN  /\ p \in Seq(K!Byte) /\ Len(p) = 2 + Len(t) /\ p[1] = a /\ p[2] = b
             /\ \A i \in 1..Len(t) : p[2 + i] = t[i]
             /\ K!From(p, 2) = t
BY DEF K!From

(* Four octets before others.                                              *)
LEMMA FourBefore ==
  ASSUME NEW a \in K!Byte, NEW b \in K!Byte, NEW c \in K!Byte, NEW d \in K!Byte, NEW t \in Seq(K!Byte)
  PROVE  LET p == <<a, b, c, d>> \o t
         IN  /\ p \in Seq(K!Byte) /\ Len(p) = 4 + Len(t)
             /\ p[1] = a /\ p[2] = b /\ p[3] = c /\ p[4] = d
             /\ K!From(p, 4) = t
BY DEF K!From

(* A body of a service with host information is read as the service.       *)
LEMMA RequestArrives ==
  ASSUME NEW service, NEW h \in K!HostInfos
  PROVE  K!UnpackRequest(service, K!PackHostInfo(h)) =
           K!Got([service |-> service, control |-> h], 8)
<1> QED
  BY HostAlone DEF K!UnpackRequest, K!Then, K!Got

(* A response of a channel and a status with a host, as DescRes and        *)
(* ConnStateRes have it, is read as it was written.                        *)
LEMMA ControlledArrives ==
  ASSUME NEW service, NEW channel \in K!Byte, NEW status \in K!Byte, NEW h \in K!HostInfos
  PROVE  LET p == <<channel, status>> \o K!PackHostInfo(h)
         IN  /\ p \in Seq(K!Byte) /\ Len(p) = 10
             /\ K!UnpackControlled(service, p) =
                  K!Got([service |-> service, channel |-> channel, status |-> status,
                         control |-> h], 10)
<1> DEFINE t == K!PackHostInfo(h)
           p == <<channel, status>> \o t
<1>1. t \in Seq(K!Byte) /\ Len(t) = 8 /\ K!UnpackHostInfo(t) = K!Got(h, 8)
  BY HostArrives, HostAlone
<1> HIDE DEF t
<1>2. /\ p \in Seq(K!Byte) /\ Len(p) = 2 + Len(t) /\ p[1] = channel /\ p[2] = status
      /\ K!From(p, 2) = t
  <2>1. t \in Seq(K!Byte)
    BY <1>1
  <2> QED
    BY <2>1, TwoBefore
<1> HIDE DEF p
<1>3. Len(p) = 10 /\ ~(Len(p) < 2) /\ 2 + 8 = 10
  BY <1>1, <1>2
<1>4. K!UnpackControlled(service, p) =
        K!Got([service |-> service, channel |-> channel, status |-> status, control |-> h], 10)
  BY <1>1, <1>2, <1>3 DEF K!UnpackControlled, K!Then, K!Got
<1> QED
  BY <1>2, <1>3, <1>4 DEF p, t

(* A connection request is read as it was written (knxnet/control.go).     *)
LEMMA ConnReqArrives ==
  ASSUME NEW h \in K!HostInfos, NEW g \in K!HostInfos, NEW layer \in K!Byte
  PROVE  LET p == K!PackHostInfo(h) \o K!PackHostInfo(g) \o <<4, 4, layer, 0>>
         IN  /\ p \in Seq(K!Byte) /\ Len(p) = 20
             /\ K!UnpackConnReq(p) =
                  K!Got([service |-> "ConnReq", control |-> h, tunnel |-> g, layer |-> layer], 20)
<1> DEFINE s == K!PackHostInfo(h)
           t == K!PackHostInfo(g)
           st == s \o t
           p == st \o <<4, 4, layer, 0>>
<1>1. s \in Seq(K!Byte) /\ Len(s) = 8 /\ t \in Seq(K!Byte) /\ Len(t) = 8
  BY HostArrives
<1>2. 4 \in K!Byte /\ 0 \in K!Byte
  BY DEF K!Byte
<1> HIDE DEF s, t
<1>3. /\ st \in Seq(K!Byte) /\ Len(st) = Len(s) + Len(t)
      /\ \A i \in 1..Len(s) : st[i] = s[i]
      /\ \A i \in 1..Len(t) : st[Len(s) + i] = t[i]
  <2>1. s \in Seq(K!Byte) /\ t \in Seq(K!Byte)
    BY <1>1
  <2> QED
    BY <2>1, Put, Zenon
<1> HIDE DEF st
<1>4. /\ p \in Seq(K!Byte) /\ Len(p) = Len(st) + 4
      /\ \A i \in 1..Len(st) : p[i] = st[i]
      /\ p[Len(st) + 1] = 4 /\ p[Len(st) + 2] = 4 /\ p[Len(st) + 3] = layer
  <2>1. st \in Seq(K!Byte)
    BY <1>3
  <2> QED
    BY <1>2, <2>1, PutFour
<1> HIDE DEF p
<1>5. Len(st) = 16 /\ Len(p) = 20
  BY <1>1, <1>3, <1>4
<1>6. p[17] = 4 /\ p[18] = 4 /\ p[19] = layer
  BY <1>4, <1>5
<1>7. \A i \in 1..8 : p[i] = s[i] /\ p[8 + i] = t[i]
  BY <1>1, <1>3, <1>4, <1>5, SMTT(30)
<1>8. K!UnpackHostInfo(p) = K!Got(h, 8)
  <2>1. p \in Seq(K!Byte) /\ Len(p) >= 8 /\ \A i \in 1..8 : p[i] = s[i]
    BY <1>4, <1>5, <1>7
  <2> QED
    BY <2>1, HostArrives DEF s
<1>9. K!UnpackHostInfo(K!From(p, 8)) = K!Got(g, 8)
  <2>1. p \in Seq(K!Byte) /\ Len(p) >= 8 + 8 /\ \A i \in 1..8 : p[8 + i] = t[i]
    BY <1>4, <1>5, <1>7
  <2> QED
    BY <2>1, HostAt DEF t
<1>10. K!UnpackConnReq(p) =
         K!Got([service |-> "ConnReq", control |-> h, tunnel |-> g, layer |-> layer], 20)
  <2>1. ~(Len(p) < 20) /\ ~(p[17] # 4 \/ p[18] # 4)
    BY <1>5, <1>6
  <2> QED
    BY <1>6, <1>8, <1>9, <2>1 DEF K!UnpackConnReq, K!Then, K!Got
<1> QED
  BY <1>4, <1>5, <1>10 DEF p, st, s, t

(* A connection response without an error is read as it was written.       *)
LEMMA ConnResArrives ==
  ASSUME NEW channel \in K!Byte, NEW h \in K!HostInfos
  PROVE  LET p == <<channel, 0>> \o K!PackHostInfo(h) \o <<4, 4, 0, 0>>
         IN  /\ p \in Seq(K!Byte) /\ Len(p) = 14
             /\ K!UnpackConnRes(p) =
                  K!Got([service |-> "ConnRes", channel |-> channel, status |-> 0,
                         control |-> h], 10)
<1> DEFINE t == K!PackHostInfo(h)
           st == <<channel, 0>> \o t
           p == st \o <<4, 4, 0, 0>>
<1>1. t \in Seq(K!Byte) /\ Len(t) = 8
  BY HostArrives
<1>2. 4 \in K!Byte /\ 0 \in K!Byte
  BY DEF K!Byte
<1> HIDE DEF t
<1>3. /\ st \in Seq(K!Byte) /\ Len(st) = 2 + Len(t) /\ st[1] = channel /\ st[2] = 0
      /\ \A i \in 1..Len(t) : st[2 + i] = t[i]
  <2>1. t \in Seq(K!Byte)
    BY <1>1
  <2> QED
    BY <1>2, <2>1, TwoBefore
<1> HIDE DEF st
<1>4. /\ p \in Seq(K!Byte) /\ Len(p) = Len(st) + 4
      /\ \A i \in 1..Len(st) : p[i] = st[i]
  <2>1. st \in Seq(K!Byte)
    BY <1>3
  <2> QED
    BY <1>2, <2>1, PutFour
<1> HIDE DEF p
<1>5. Len(st) = 10 /\ Len(p) = 14
  BY <1>1, <1>3, <1>4
<1>6. p[1] = channel /\ p[2] = 0 /\ \A i \in 1..8 : p[2 + i] = t[i]
  BY <1>1, <1>3, <1>4, <1>5
<1>7. K!UnpackHostInfo(K!From(p, 2)) = K!Got(h, 8)
  <2>1. p \in Seq(K!Byte) /\ Len(p) >= 2 + 8 /\ \A i \in 1..8 : p[2 + i] = t[i]
    BY <1>4, <1>5, <1>6
  <2> QED
    BY <2>1, HostAt DEF t
<1>8. ~(Len(p) < 2) /\ ~(p[2] # 0) /\ 2 + 8 = 10
  BY <1>5, <1>6
<1>9. K!UnpackConnRes(p) =
        K!Got([service |-> "ConnRes", channel |-> channel, status |-> 0, control |-> h], 10)
  BY <1>6, <1>7, <1>8 DEF K!UnpackConnRes, K!Then, K!Got
<1> QED
  BY <1>4, <1>5, <1>9 DEF p, st, t

(* And a body with a message.                                              *)
LEMMA TunnelReqArrives ==
  ASSUME NEW channel \in K!Byte, NEW seq \in K!Byte, NEW m \in K!Messages
  PROVE  LET p == <<4, channel, seq, 0>> \o K!PackMessage(m)
         IN  /\ p \in Seq(K!Byte) /\ Len(p) = 4 + K!SizeMessage(m)
             /\ K!UnpackTunnelReq(p) =
                  K!Got([service |-> "TunnelReq", channel |-> channel, seq |-> seq,
                         payload |-> MessageMeant(m)], 4 + K!SizeMessage(m))
<1> DEFINE t == K!PackMessage(m)
           p == <<4, channel, seq, 0>> \o t
           n == K!SizeMessage(m)
<1>1. t \in Seq(K!Byte) /\ Len(t) = n /\ K!UnpackMessage(t) = K!Got(MessageMeant(m), n)
  BY MessageArrives
<1>2. 4 \in K!Byte /\ 0 \in K!Byte
  BY DEF K!Byte
<1> HIDE DEF t, n
<1>3. /\ p \in Seq(K!Byte) /\ Len(p) = 4 + Len(t) /\ p[1] = 4 /\ p[2] = channel /\ p[3] = seq
      /\ K!From(p, 4) = t
  BY <1>1, <1>2, FourBefore
<1> HIDE DEF p
<1>4. ~(Len(p) < 4 \/ p[1] # 4)
  BY <1>1, <1>3
<1>5. K!UnpackTunnelReq(p) =
        K!Got([service |-> "TunnelReq", channel |-> channel, seq |-> seq,
               payload |-> MessageMeant(m)], 4 + n)
  BY <1>1, <1>3, <1>4 DEF K!UnpackTunnelReq, K!Then, K!Got
<1> QED
  BY <1>1, <1>3, <1>5 DEF p, t, n

(* A routing indication is read as what its message means.                 *)
LEMMA RoutingIndArrives ==
  ASSUME NEW m \in K!Messages
  PROVE  K!UnpackRoutingInd(K!PackMessage(m)) =
           K!Got([service |-> "RoutingInd", payload |-> MessageMeant(m)], K!SizeMessage(m))
BY MessageArrives DEF K!UnpackRoutingInd, K!Then, K!Got

-----------------------------------------------------------------------------
(* Every service has an identifier of its own.                             *)
ServiceNames ==
  {"SearchReq", "SearchRes", "DescriptionReq", "DescriptionRes", "ConnReq", "ConnRes",
   "ConnStateReq", "ConnStateRes", "DiscReq", "DiscRes", "TunnelReq", "TunnelRes",
   "RoutingInd", "RoutingLost", "RoutingBusy"}

(* Every service has an identifier of its own, of two octets.              *)
LEMMA IDsDiffer ==
  /\ DOMAIN K!IDs = ServiceNames
  /\ \A s \in ServiceNames :
       /\ K!IDs[s] \in K!Word
       /\ {t \in DOMAIN K!IDs : K!IDs[t] = K!IDs[s]} = {s}
<1>1. DOMAIN K!IDs = ServiceNames
  BY DEF K!IDs, ServiceNames
<1>2. \A n \in Nat : n < 256 * 256 => n \in K!Word
  <2> SUFFICES ASSUME NEW n \in Nat, n < 256 * 256 PROVE n \in K!Word
    OBVIOUS
  <2>1. n \div 256 \in 0..255 /\ n % 256 \in 0..255 /\ n = (n \div 256) * 256 + (n % 256)
    OBVIOUS
  <2>2. n \div 256 \in K!Byte /\ n % 256 \in K!Byte
    BY <2>1 DEF K!Byte
  <2>3. (n \div 256) * 256 + (n % 256) \in K!Word
    BY <2>2, OctetsWord
  <2> QED
    BY <2>1, <2>3
<1>3. \A s \in ServiceNames : K!IDs[s] \in Nat /\ K!IDs[s] < 256 * 256
  BY DEF K!IDs, ServiceNames
<1>4. \A s, t \in ServiceNames : K!IDs[t] = K!IDs[s] => t = s
  BY DEF K!IDs, ServiceNames
<1>5. \A s \in ServiceNames : {t \in DOMAIN K!IDs : K!IDs[t] = K!IDs[s]} = {s}
  BY <1>1, <1>4
<1> QED
  BY <1>1, <1>2, <1>3, <1>5

(* What a packet is read as, by the identifier in its header.              *)
LEMMA PacketByID ==
  ASSUME NEW data, NEW id, NEW total, K!UnpackHeader(data) = K!Got([id |-> id, total |-> total], 6)
  PROVE  /\ \A s \in ServiceNames : K!IDs[s] = id =>
              K!Unpack(data) = K!UnpackBody(s, K!From(data, 6))
         /\ (\A s \in ServiceNames : K!IDs[s] # id) =>
              K!Unpack(data) =
                K!Got([service |-> "Unknown", id |-> id, data |-> K!From(data, 6)],
                      Len(K!From(data, 6)))
<1> DEFINE services == {s \in DOMAIN K!IDs : K!IDs[s] = id}
           body == K!From(data, 6)
<1>1. K!Unpack(data) =
        IF services # {}
          THEN K!UnpackBody(CHOOSE s \in services : TRUE, body)
          ELSE K!Got([service |-> "Unknown", id |-> id, data |-> body], Len(body))
  <2> DEFINE header == K!UnpackHeader(data)
  <2>1. header.res = "ok" /\ header.value.id = id /\ header.n = 6
    BY DEF K!Got
  <2> HIDE DEF header
  <2>2. K!Unpack(data) =
          LET found == {s \in DOMAIN K!IDs : K!IDs[s] = header.value.id}
              rest == K!From(data, header.n)
          IN  IF found # {}
                THEN K!UnpackBody(CHOOSE s \in found : TRUE, rest)
                ELSE K!Got([service |-> "Unknown", id |-> header.value.id, data |-> rest],
                           Len(rest))
    BY <2>1, Zenon DEF K!Unpack, K!Then, header
  <2> QED
    BY <2>1, <2>2, Zenon
<1>2. ASSUME NEW s \in ServiceNames, K!IDs[s] = id
      PROVE  K!Unpack(data) = K!UnpackBody(s, body)
  <2>1. services = {s}
    BY <1>2, IDsDiffer
  <2>2. (CHOOSE t \in {s} : TRUE) = s
    OBVIOUS
  <2> QED
    BY <1>1, <2>1, <2>2
<1>3. ASSUME \A s \in ServiceNames : K!IDs[s] # id
      PROVE  services = {}
  BY <1>3, IDsDiffer
<1> QED
  BY <1>1, <1>2, <1>3

(* A body with its header, which is read as it was written.                *)
Packet(id, total, body) == <<6, 16>> \o K!U16(id) \o K!U16(total) \o body
LengthRead(total) == ((total \div 256) % 256) * 256 + (total % 256)

(* A header gives back its identifier and length, and the body after it    *)
(* (knxnet.go).                                                            *)
LEMMA HeaderArrives ==
  ASSUME NEW id \in K!Word, NEW total \in Int, NEW body \in Seq(K!Byte)
  PROVE  /\ Packet(id, total, body) \in Seq(K!Byte)
         /\ Len(Packet(id, total, body)) = 6 + Len(body)
         /\ K!UnpackHeader(Packet(id, total, body)) =
              K!Got([id |-> id, total |-> LengthRead(total)], 6)
         /\ K!From(Packet(id, total, body), 6) = body
<1> DEFINE i1 == (id \div 256) % 256
           i2 == id % 256
           t1 == (total \div 256) % 256
           t2 == total % 256
           h == <<6, 16>> \o K!U16(id) \o K!U16(total)
           p == h \o body
<1>1. i1 \in K!Byte /\ i2 \in K!Byte /\ i1 * 256 + i2 = id
  BY WordOctets
<1>2. t1 \in K!Byte /\ t2 \in K!Byte
  BY DEF K!Byte
<1>3. h = <<6, 16>> \o <<i1, i2>> \o <<t1, t2>>
  BY DEF K!U16
<1> DEFINE h1 == <<6, 16>>
           h2 == h1 \o <<i1, i2>>
<1>4. h1 \in Seq(K!Byte) /\ Len(h1) = 2 /\ h1[1] = 6 /\ h1[2] = 16
  BY DEF K!Byte
<1>5. h = h2 \o <<t1, t2>>
  BY <1>3
<1> HIDE DEF h1, i1, i2, t1, t2, h
<1>6. /\ h2 \in Seq(K!Byte) /\ Len(h2) = Len(h1) + 2 /\ \A i \in 1..Len(h1) : h2[i] = h1[i]
      /\ h2[Len(h1) + 1] = i1 /\ h2[Len(h1) + 2] = i2
  <2>1. h1 \in Seq(K!Byte) /\ i1 \in K!Byte /\ i2 \in K!Byte
    BY <1>1, <1>4
  <2> QED
    BY <2>1, PutTwo
<1> HIDE DEF h2
<1>7. /\ h \in Seq(K!Byte) /\ Len(h) = Len(h2) + 2 /\ \A i \in 1..Len(h2) : h[i] = h2[i]
      /\ h[Len(h2) + 1] = t1 /\ h[Len(h2) + 2] = t2
  <2>1. h2 \in Seq(K!Byte)
    BY <1>6
  <2> QED
    BY <1>2, <1>5, <2>1, PutTwo
<1>8. Len(h2) = 4 /\ Len(h) = 6
  BY <1>4, <1>6, <1>7
<1>9. h[1] = 6 /\ h[2] = 16 /\ h[3] = i1 /\ h[4] = i2 /\ h[5] = t1 /\ h[6] = t2
  <2>1. h[5] = t1 /\ h[6] = t2
    BY <1>7, <1>8
  <2>2. \A i \in 1..4 : h[i] = h2[i]
    BY <1>7, <1>8
  <2>3. h2[1] = 6 /\ h2[2] = 16 /\ h2[3] = i1 /\ h2[4] = i2
    BY <1>4, <1>6
  <2> QED
    BY <2>1, <2>2, <2>3
<1>10. /\ p \in Seq(K!Byte) /\ Len(p) = Len(h) + Len(body) /\ K!From(p, Len(h)) = body
       /\ \A i \in 1..Len(h) : p[i] = h[i]
  <2>1. h \in Seq(K!Byte)
    BY <1>7
  <2> QED
    BY <2>1, Put, Zenon
<1> HIDE DEF p
<1>11. Len(p) = 6 + Len(body) /\ K!From(p, 6) = body /\ \A i \in 1..6 : p[i] = h[i]
  BY <1>8, <1>10
<1>12. p[1] = 6 /\ p[2] = 16 /\ p[3] = i1 /\ p[4] = i2 /\ p[5] = t1 /\ p[6] = t2
  BY <1>9, <1>11
<1>13. ~(Len(p) < 6 \/ p[1] # 6 \/ p[2] # 16)
  <2>1. Len(body) \in Nat
    OBVIOUS
  <2> QED
    BY <1>11, <1>12, <2>1
<1>14. K!N16(p, 3) = id /\ K!N16(p, 5) = t1 * 256 + t2
  BY <1>1, <1>12 DEF K!N16
<1>15. K!UnpackHeader(p) = K!Got([id |-> id, total |-> t1 * 256 + t2], 6)
  BY <1>13, <1>14 DEF K!UnpackHeader
<1> QED
  BY <1>10, <1>11, <1>15 DEF p, h, t1, t2, Packet, LengthRead

-----------------------------------------------------------------------------
(* What is read is a service, and the number of octets it took.            *)
ReadAs(r, srv) == r.res = "ok" /\ r.value = srv

(* Every body but those without one is read as what its service means.     *)
LEMMA BodyArrives ==
  ASSUME NEW srv \in K!ServicePackable
  PROVE  /\ K!PackService(srv) \in Seq(K!Byte)
         /\ Len(K!PackService(srv)) = K!SizeService(srv)
         /\ srv.service # "Unknown" =>
              ReadAs(K!UnpackBody(srv.service, K!PackService(srv)), Meant(srv))
<1> DEFINE s == srv.service
           p == K!PackService(srv)
           n == K!SizeService(srv)
<1>0. \A v, k : K!Got(v, k).res = "ok" /\ K!Got(v, k).value = v
  BY DEF K!Got
<1>1. CASE srv \in [service : {"SearchReq", "DescriptionReq"}, control : K!HostInfos]
  <2>1. s \in {"SearchReq", "DescriptionReq"} /\ srv.control \in K!HostInfos
    BY <1>1
  <2>2. srv = [service |-> s, control |-> srv.control]
    BY <1>1
  <2>3. p = K!PackHostInfo(srv.control) /\ n = 8 /\ Meant(srv) = srv
    BY <2>1 DEF K!PackService, K!SizeService, Meant, Carries
  <2>4. K!UnpackBody(s, p) = K!UnpackRequest(s, p)
    BY <2>1 DEF K!UnpackBody
  <2>5. K!UnpackRequest(s, p) = K!Got(srv, 8)
    BY <2>1, <2>2, <2>3, RequestArrives
  <2>6. p \in Seq(K!Byte) /\ Len(p) = 8
    BY <2>1, <2>3, HostArrives
  <2> QED
    BY <1>0, <2>3, <2>4, <2>5, <2>6 DEF ReadAs
<1>2. CASE srv \in [service : {"ConnReq"}, control : K!HostInfos, tunnel : K!HostInfos, layer : K!Byte]
  <2>1. s = "ConnReq" /\ srv.control \in K!HostInfos /\ srv.tunnel \in K!HostInfos /\ srv.layer \in K!Byte
    BY <1>2
  <2>2. srv = [service |-> "ConnReq", control |-> srv.control, tunnel |-> srv.tunnel, layer |-> srv.layer]
    BY <1>2
  <2>3. p = K!PackHostInfo(srv.control) \o K!PackHostInfo(srv.tunnel) \o <<4, 4, srv.layer, 0>>
        /\ n = 20 /\ Meant(srv) = srv
    BY <2>1 DEF K!PackService, K!SizeService, Meant, Carries
  <2>4. K!UnpackBody(s, p) = K!UnpackConnReq(p)
    BY <2>1 DEF K!UnpackBody
  <2>5. p \in Seq(K!Byte) /\ Len(p) = 20 /\ K!UnpackConnReq(p) = K!Got(srv, 20)
    BY <2>1, <2>2, <2>3, ConnReqArrives
  <2> QED
    BY <1>0, <2>3, <2>4, <2>5 DEF ReadAs
<1>3. CASE srv \in [service : {"ConnRes"}, channel : K!Byte, status : {0}, control : K!HostInfos]
  <2>1. s = "ConnRes" /\ srv.channel \in K!Byte /\ srv.status = 0 /\ srv.control \in K!HostInfos
    BY <1>3
  <2>2. srv = [service |-> "ConnRes", channel |-> srv.channel, status |-> 0, control |-> srv.control]
    BY <1>3
  <2>3. p = <<srv.channel, 0>> \o K!PackHostInfo(srv.control) \o <<4, 4, 0, 0>>
        /\ n = 14 /\ Meant(srv) = srv
    BY <2>1 DEF K!PackService, K!SizeService, Meant, Carries
  <2>4. K!UnpackBody(s, p) = K!UnpackConnRes(p)
    BY <2>1 DEF K!UnpackBody
  <2>5. p \in Seq(K!Byte) /\ Len(p) = 14 /\ K!UnpackConnRes(p) = K!Got(srv, 10)
    BY <2>1, <2>2, <2>3, ConnResArrives
  <2> QED
    BY <1>0, <2>3, <2>4, <2>5 DEF ReadAs
<1>4. CASE srv \in [service : {"ConnRes"}, channel : K!Byte, status : K!Byte \ {0}]
  <2>1. s = "ConnRes" /\ srv.channel \in K!Byte /\ srv.status \in K!Byte /\ srv.status # 0
    BY <1>4
  <2>2. srv = [service |-> "ConnRes", channel |-> srv.channel, status |-> srv.status]
    BY <1>4
  <2>3. p = <<srv.channel, srv.status>> /\ n = 2 /\ Meant(srv) = srv
    BY <2>1 DEF K!PackService, K!SizeService, Meant, Carries
  <2>4. K!UnpackBody(s, p) = K!UnpackConnRes(p)
    BY <2>1 DEF K!UnpackBody
  <2>5. p \in Seq(K!Byte) /\ Len(p) = 2 /\ p[1] = srv.channel /\ p[2] = srv.status /\ ~(Len(p) < 2)
    BY <2>1, <2>3
  <2>6. K!UnpackConnRes(p) = K!Got(srv, 2)
    BY <2>1, <2>2, <2>5 DEF K!UnpackConnRes
  <2> QED
    BY <1>0, <2>3, <2>4, <2>5, <2>6 DEF ReadAs
<1>5. CASE srv \in [service : {"ConnStateReq", "DiscReq"}, channel : K!Byte, status : K!Byte,
                    control : K!HostInfos]
  <2>1. /\ s \in {"ConnStateReq", "DiscReq"} /\ srv.channel \in K!Byte /\ srv.status \in K!Byte
        /\ srv.control \in K!HostInfos
    BY <1>5
  <2>2. srv = [service |-> s, channel |-> srv.channel, status |-> srv.status, control |-> srv.control]
    BY <1>5
  <2>3. p = <<srv.channel, srv.status>> \o K!PackHostInfo(srv.control)
        /\ n = 10 /\ Meant(srv) = srv
    BY <2>1 DEF K!PackService, K!SizeService, Meant, Carries
  <2>4. K!UnpackBody(s, p) = K!UnpackControlled(s, p)
    BY <2>1 DEF K!UnpackBody
  <2>5. p \in Seq(K!Byte) /\ Len(p) = 10 /\ K!UnpackControlled(s, p) = K!Got(srv, 10)
    BY <2>1, <2>2, <2>3, ControlledArrives
  <2> QED
    BY <1>0, <2>3, <2>4, <2>5 DEF ReadAs
<1>6. CASE srv \in [service : {"ConnStateRes", "DiscRes"}, channel : K!Byte, status : K!Byte]
  <2>1. s \in {"ConnStateRes", "DiscRes"} /\ srv.channel \in K!Byte /\ srv.status \in K!Byte
    BY <1>6
  <2>2. srv = [service |-> s, channel |-> srv.channel, status |-> srv.status]
    BY <1>6
  <2>3. p = <<srv.channel, srv.status>> /\ n = 2 /\ Meant(srv) = srv
    BY <2>1 DEF K!PackService, K!SizeService, Meant, Carries
  <2>4. K!UnpackBody(s, p) = K!UnpackStatus(s, p)
    BY <2>1 DEF K!UnpackBody
  <2>5. p \in Seq(K!Byte) /\ Len(p) = 2 /\ p[1] = srv.channel /\ p[2] = srv.status /\ ~(Len(p) < 2)
    BY <2>1, <2>3
  <2>6. K!UnpackStatus(s, p) = K!Got(srv, 2)
    BY <2>2, <2>5 DEF K!UnpackStatus
  <2> QED
    BY <1>0, <2>3, <2>4, <2>5, <2>6 DEF ReadAs
<1>7. CASE srv \in [service : {"TunnelReq"}, channel : K!Byte, seq : K!Byte, payload : K!Messages]
  <2>1. s = "TunnelReq" /\ srv.channel \in K!Byte /\ srv.seq \in K!Byte /\ srv.payload \in K!Messages
    BY <1>7
  <2>2. srv = [service |-> "TunnelReq", channel |-> srv.channel, seq |-> srv.seq, payload |-> srv.payload]
    BY <1>7
  <2>3. /\ p = <<4, srv.channel, srv.seq, 0>> \o K!PackMessage(srv.payload)
        /\ n = 4 + K!SizeMessage(srv.payload)
        /\ Meant(srv) = [srv EXCEPT !.payload = MessageMeant(srv.payload)]
    BY <2>1 DEF K!PackService, K!SizeService, Meant, Carries
  <2>4. Meant(srv) = [service |-> "TunnelReq", channel |-> srv.channel, seq |-> srv.seq,
                      payload |-> MessageMeant(srv.payload)]
    BY <2>2, <2>3
  <2>5. K!UnpackBody(s, p) = K!UnpackTunnelReq(p)
    BY <2>1 DEF K!UnpackBody
  <2>6. p \in Seq(K!Byte) /\ Len(p) = n /\ K!UnpackTunnelReq(p) = K!Got(Meant(srv), n)
    <3> DEFINE c == srv.channel
               q == srv.seq
               m == srv.payload
    <3> HIDE DEF c, q, m
    <3>1. c \in K!Byte /\ q \in K!Byte /\ m \in K!Messages
      BY <2>1 DEF c, q, m
    <3>2. /\ p = <<4, c, q, 0>> \o K!PackMessage(m) /\ n = 4 + K!SizeMessage(m)
          /\ Meant(srv) = [service |-> "TunnelReq", channel |-> c, seq |-> q,
                           payload |-> MessageMeant(m)]
      BY <2>3, <2>4 DEF c, q, m
    <3> HIDE DEF p, n
    <3> QED
      BY <3>1, <3>2, TunnelReqArrives
  <2> QED
    BY <1>0, <2>5, <2>6 DEF ReadAs
<1>8. CASE srv \in [service : {"TunnelRes"}, channel : K!Byte, seq : K!Byte, status : K!Byte]
  <2>1. s = "TunnelRes" /\ srv.channel \in K!Byte /\ srv.seq \in K!Byte /\ srv.status \in K!Byte
    BY <1>8
  <2>2. srv = [service |-> "TunnelRes", channel |-> srv.channel, seq |-> srv.seq, status |-> srv.status]
    BY <1>8
  <2>3. p = <<4, srv.channel, srv.seq, srv.status>> /\ n = 4 /\ Meant(srv) = srv
    BY <2>1 DEF K!PackService, K!SizeService, Meant, Carries
  <2>4. K!UnpackBody(s, p) = K!UnpackTunnelRes(p)
    BY <2>1 DEF K!UnpackBody
  <2>5. /\ p \in Seq(K!Byte) /\ Len(p) = 4 /\ p[2] = srv.channel /\ p[3] = srv.seq /\ p[4] = srv.status
        /\ ~(Len(p) < 4 \/ p[1] # 4)
    BY <2>1, <2>3 DEF K!Byte
  <2>6. K!UnpackTunnelRes(p) = K!Got(srv, 4)
    BY <2>2, <2>5 DEF K!UnpackTunnelRes
  <2> QED
    BY <1>0, <2>3, <2>4, <2>5, <2>6 DEF ReadAs
<1>9. CASE srv \in [service : {"RoutingInd"}, payload : K!Messages]
  <2>1. s = "RoutingInd" /\ srv.payload \in K!Messages
    BY <1>9
  <2>2. srv = [service |-> "RoutingInd", payload |-> srv.payload]
    BY <1>9
  <2>3. /\ p = K!PackMessage(srv.payload) /\ n = K!SizeMessage(srv.payload)
        /\ Meant(srv) = [srv EXCEPT !.payload = MessageMeant(srv.payload)]
    BY <2>1 DEF K!PackService, K!SizeService, Meant, Carries
  <2>4. Meant(srv) = [service |-> "RoutingInd", payload |-> MessageMeant(srv.payload)]
    BY <2>2, <2>3
  <2>5. K!UnpackBody(s, p) = K!UnpackRoutingInd(p)
    BY <2>1 DEF K!UnpackBody
  <2>6. p \in Seq(K!Byte) /\ Len(p) = n /\ K!UnpackRoutingInd(p) = K!Got(Meant(srv), n)
    BY <2>1, <2>3, <2>4, MessageArrives, RoutingIndArrives
  <2> QED
    BY <1>0, <2>5, <2>6 DEF ReadAs
<1>10. CASE srv \in [service : {"Unknown"}, data : Seq(K!Byte),
                     id : K!Word \ {K!IDs[x] : x \in DOMAIN K!IDs}]
  <2>1. s = "Unknown" /\ srv.data \in Seq(K!Byte)
    BY <1>10
  <2>2. p = srv.data /\ n = Len(srv.data)
    BY <2>1 DEF K!PackService, K!SizeService
  <2> QED
    BY <2>1, <2>2
<1> QED
  BY <1>1, <1>2, <1>3, <1>4, <1>5, <1>6, <1>7, <1>8, <1>9, <1>10 DEF K!ServicePackable

(* The names and identifiers of the services that can be packed.           *)
LEMMA PackableNames ==
  ASSUME NEW srv \in K!ServicePackable
  PROVE  /\ srv.service \notin K!PackPanics
         /\ srv.service # "Unknown" =>
              srv.service \in ServiceNames /\ K!ServiceID(srv) = K!IDs[srv.service]
         /\ srv.service = "Unknown" =>
              /\ srv = [service |-> "Unknown", data |-> srv.data, id |-> srv.id]
              /\ srv.id \in K!Word /\ \A s \in ServiceNames : K!IDs[s] # srv.id
              /\ K!ServiceID(srv) = srv.id /\ Meant(srv) = srv
              /\ K!PackService(srv) = srv.data
<1>1. srv.service \notin K!PackPanics
  BY DEF K!ServicePackable, K!PackPanics
<1>2. srv.service # "Unknown" => srv.service \in ServiceNames
  BY DEF K!ServicePackable, ServiceNames
<1>3. ASSUME srv.service = "Unknown"
      PROVE  srv \in [service : {"Unknown"}, data : Seq(K!Byte),
                      id : K!Word \ {K!IDs[x] : x \in DOMAIN K!IDs}]
  BY <1>3 DEF K!ServicePackable
<1>4. ASSUME srv.service = "Unknown"
      PROVE  /\ srv = [service |-> "Unknown", data |-> srv.data, id |-> srv.id]
             /\ srv.id \in K!Word /\ \A s \in ServiceNames : K!IDs[s] # srv.id
  BY <1>3, <1>4, IDsDiffer
<1>5. srv.service = "Unknown" =>
        K!ServiceID(srv) = srv.id /\ Meant(srv) = srv /\ K!PackService(srv) = srv.data
  BY DEF K!ServiceID, Meant, Carries, K!PackService
<1> QED
  BY <1>1, <1>2, <1>4, <1>5 DEF K!ServiceID

(* A packet is read as what its service means; its length is the one that  *)
(* Size promises, and the header's if 16 bits hold it.                     *)
THEOREM PacketArrives ==
  ASSUME NEW srv \in K!ServicePackable
  PROVE  LET r == K!Pack(srv)
             n == K!SizeService(srv) + 6
         IN  /\ r.res = "ok" /\ r.value \in Seq(K!Byte) /\ Len(r.value) = n /\ r.n = n
             /\ ReadAs(K!Unpack(r.value), Meant(srv))
             /\ n \in K!Word => K!UnpackHeader(r.value).value.total = n
<1> DEFINE id == K!ServiceID(srv)
           n == K!SizeService(srv) + 6
           body == K!PackService(srv)
           p == Packet(id, n, body)
           total == LengthRead(n)
<1>1. K!Pack(srv).res = "ok" /\ K!Pack(srv).value = p /\ K!Pack(srv).n = n
  <2>1. K!Pack(srv) = K!Got(p, n)
    BY PackableNames DEF K!Pack, Packet
  <2> QED
    BY <2>1 DEF K!Got
<1>2. body \in Seq(K!Byte) /\ Len(body) = K!SizeService(srv)
  BY BodyArrives
<1>3. id \in K!Word
  BY PackableNames, IDsDiffer
<1>4. n \in Int /\ Len(body) + 6 = n
  BY <1>2
<1>5. n \in K!Word => total = n
  BY WordOctets DEF LengthRead
<1> HIDE DEF id, n, body
<1>6. /\ p \in Seq(K!Byte) /\ Len(p) = 6 + Len(body)
      /\ K!UnpackHeader(p) = K!Got([id |-> id, total |-> total], 6)
      /\ K!From(p, 6) = body
  <2>1. id \in K!Word /\ n \in Int /\ body \in Seq(K!Byte)
    BY <1>2, <1>3, <1>4
  <2> QED
    BY <2>1, HeaderArrives
<1> HIDE DEF p, total
<1>7. Len(p) = n
  BY <1>2, <1>4, <1>6
<1>8. ReadAs(K!Unpack(p), Meant(srv))
  <2>1. CASE srv.service # "Unknown"
    <3>1. K!Unpack(p) = K!UnpackBody(srv.service, body)
      BY <1>6, <2>1, PackableNames, PacketByID DEF id
    <3> QED
      BY <2>1, <3>1, BodyArrives DEF body
  <2>2. CASE srv.service = "Unknown"
    <3>1. K!Unpack(p) = K!Got([service |-> "Unknown", id |-> id, data |-> body], Len(body))
      BY <1>6, <2>2, PackableNames, PacketByID DEF id
    <3>2. Meant(srv) = [service |-> "Unknown", id |-> id, data |-> body]
      BY <2>2, PackableNames DEF id, body
    <3> QED
      BY <3>1, <3>2 DEF ReadAs, K!Got
  <2> QED
    BY <2>1, <2>2
<1>9. n \in K!Word => K!UnpackHeader(p).value.total = n
  BY <1>5, <1>6 DEF K!Got, total
<1> QED
  BY <1>1, <1>6, <1>7, <1>8, <1>9 DEF n

-----------------------------------------------------------------------------
(* The number of the octets before the zeros at the end of a field.        *)
LEMMA ZerosFill ==
  ASSUME NEW s, NEW width \in Nat, NEW n \in 0..width, NEW name,
         \A i \in 1..width : s[i] = IF i <= n THEN name[i] ELSE 0,
         n = 0 \/ name[n] # 0
  PROVE  (CHOOSE k \in 0..width : (k = 0 \/ s[k] # 0) /\ \A i \in k + 1..width : s[i] = 0) = n
<1> DEFINE Ends(k) == (k = 0 \/ s[k] # 0) /\ \A i \in k + 1..width : s[i] = 0
<1>1. Ends(n)
  <2>1. n = 0 \/ s[n] # 0
    <3> SUFFICES ASSUME n # 0 PROVE s[n] # 0
      OBVIOUS
    <3>1. n \in 1..width
      OBVIOUS
    <3> QED
      BY <3>1
  <2>2. \A i \in n + 1..width : s[i] = 0
    OBVIOUS
  <2> QED
    BY <2>1, <2>2
<1>2. ASSUME NEW k \in 0..width, Ends(k) PROVE k = n
  <2>1. ASSUME k < n PROVE FALSE
    <3>1. n \in k + 1..width /\ n \in 1..width
      BY <2>1
    <3>2. s[n] = 0 /\ s[n] = name[n] /\ n # 0
      BY <1>2, <2>1, <3>1
    <3> QED
      BY <3>2
  <2>2. ASSUME k > n PROVE FALSE
    <3>1. k \in 1..width /\ ~(k <= n) /\ k # 0
      BY <2>2
    <3>2. s[k] = 0
      BY <3>1
    <3> QED
      BY <1>2, <3>1, <3>2
  <2> QED
    BY <2>1, <2>2
<1> HIDE DEF Ends
<1>3. (CHOOSE k \in 0..width : Ends(k)) = n
  BY <1>1, <1>2
<1> QED
  BY <1>3 DEF Ends

(* A string that fits its field is read without the zeros that fill it.    *)
LEMMA StringArrives ==
  ASSUME NEW name \in Seq(K!Byte), NEW width \in Nat, NEW n \in Nat, n = Len(name), n < width,
         n = 0 \/ name[n] # 0
  PROVE  LET r == K!PackString(width, name)
         IN  /\ r.res = "ok" /\ r.value \in Seq(K!Byte) /\ Len(r.value) = width
             /\ K!UnpackString(r.value) = name
<1> DEFINE s == [i \in 1..width |-> IF i <= Len(name) THEN name[i] ELSE 0]
<1>1. K!PackString(width, name) = K!Got(s, width)
  BY DEF K!PackString
<1>2. 0 \in K!Byte /\ \A i \in 1..n : name[i] \in K!Byte
  BY DEF K!Byte
<1>3. s = [i \in 1..width |-> IF i <= n THEN name[i] ELSE 0]
  OBVIOUS
<1> HIDE DEF s
<1>4. \A i \in 1..width : s[i] = IF i <= n THEN name[i] ELSE 0
  BY <1>3
<1>5. \A i \in 1..width : s[i] \in K!Byte
  BY <1>2, <1>4
<1>6. s \in Seq(K!Byte) /\ Len(s) = width
  <2>1. s = [i \in 1..width |-> s[i]]
    BY <1>3
  <2> QED
    BY <1>5, <2>1
<1>7. (CHOOSE k \in 0..Len(s) : (k = 0 \/ s[k] # 0) /\ \A i \in k + 1..Len(s) : s[i] = 0) = n
  BY <1>4, <1>6, ZerosFill
<1>8. K!UnpackString(s) = SubSeq(s, 1, n)
  BY <1>7 DEF K!UnpackString
<1>9. SubSeq(s, 1, n) = name
  <2>1. SubSeq(s, 1, n) \in Seq(K!Byte) /\ Len(SubSeq(s, 1, n)) = n
    BY <1>6
  <2>2. \A i \in 1..n : SubSeq(s, 1, n)[i] = s[i]
    BY <1>6
  <2>3. \A i \in 1..n : s[i] = name[i]
    BY <1>4
  <2> QED
    BY <2>1, <2>2, <2>3, SameOctets
<1> QED
  BY <1>1, <1>6, <1>8, <1>9 DEF K!Got

(* A packet starts with the octets of another.                             *)
Starts(p, s) == Len(s) <= Len(p) /\ \A i \in 1..Len(s) : p[i] = s[i]

(* What starts with two parts starts with the first, and the second        *)
(* follows it.                                                             *)
LEMMA StartsParts ==
  ASSUME NEW p \in Seq(K!Byte), NEW s \in Seq(K!Byte), NEW t \in Seq(K!Byte), Starts(p, s \o t)
  PROVE  /\ Starts(p, s)
         /\ SubSeq(p, Len(s) + 1, Len(s) + Len(t)) = t
         /\ Starts(K!From(p, Len(s)), t)
         /\ \A i \in 1..Len(t) : p[Len(s) + i] = t[i]
<1>1. /\ s \o t \in Seq(K!Byte) /\ Len(s \o t) = Len(s) + Len(t)
      /\ \A i \in 1..Len(s) : (s \o t)[i] = s[i]
      /\ \A i \in 1..Len(t) : (s \o t)[Len(s) + i] = t[i]
  BY Put, Zenon
<1>2. Len(s) \in Nat /\ Len(t) \in Nat /\ Len(p) \in Nat
  OBVIOUS
<1> DEFINE m == Len(s)
           n == Len(t)
           l == Len(p)
           st == s \o t
<1> HIDE DEF m, n, l, st
<1>3. /\ m \in Nat /\ n \in Nat /\ l \in Nat /\ m + n <= l
      /\ \A i \in 1..m + n : p[i] = st[i]
  BY <1>1, <1>2 DEF Starts, m, n, l, st
<1>4. /\ \A i \in 1..m : st[i] = s[i]
      /\ \A i \in 1..n : st[m + i] = t[i]
  BY <1>1 DEF m, n, st
<1>5. m <= l /\ \A i \in 1..m : p[i] = s[i]
  BY <1>3, <1>4
<1>6. \A i \in 1..n : p[m + i] = t[i]
  BY <1>3, <1>4
<1>7. /\ SubSeq(p, m + 1, m + n) \in Seq(K!Byte) /\ Len(SubSeq(p, m + 1, m + n)) = n
      /\ \A i \in 1..n : SubSeq(p, m + 1, m + n)[i] = p[m + i]
  BY <1>3 DEF l
<1>8. SubSeq(p, m + 1, m + n) = t
  <2>1. t \in Seq(K!Byte) /\ Len(t) = n
    BY DEF n
  <2>2. \A i \in 1..n : SubSeq(p, m + 1, m + n)[i] = t[i]
    BY <1>6, <1>7
  <2> QED
    BY <1>7, <2>1, <2>2, SameOctets, ZenonT(60)
<1>9. /\ K!From(p, m) \in Seq(K!Byte) /\ Len(K!From(p, m)) = l - m
      /\ \A i \in 1..l - m : K!From(p, m)[i] = p[m + i]
  <2>1. m \in 0..Len(p) /\ l = Len(p)
    BY <1>3 DEF l
  <2> QED
    BY <2>1, FromType, Zenon
<1>10. n <= l - m /\ \A i \in 1..n : K!From(p, m)[i] = t[i]
  <2>1. n <= l - m /\ \A i \in 1..n : i \in 1..l - m
    BY <1>3
  <2> QED
    BY <1>6, <1>9, <2>1
<1> QED
  BY <1>5, <1>6, <1>8, <1>9, <1>10 DEF Starts, m, n, l

(* A packet holds the octets of what it starts with.                       *)
LEMMA StartsElements ==
  ASSUME NEW p, NEW s, Starts(p, s), NEW i \in 1..Len(s)
  PROVE  p[i] = s[i]
BY DEF Starts

-----------------------------------------------------------------------------
(* Sixteen bits are an integer.                                            *)
LEMMA WordIsNumber ==
  ASSUME NEW w \in K!Word
  PROVE  w \in Int
BY WordIs, SMT

(* A number of two octets in the middle of a packet.                       *)
LEMMA WordAt ==
  ASSUME NEW p \in Seq(K!Byte), NEW w \in K!Word, NEW n \in Nat,
         \A i \in 1..Len(K!U16(w)) : p[n + i] = K!U16(w)[i]
  PROVE  K!N16(p, n + 1) = w
<1>1. ((w \div 256) % 256) * 256 + (w % 256) = w
  BY WordOctets
<1>2. w \in Int
  BY WordIsNumber
<1>3. Len(K!U16(w)) = 2
  BY <1>2, U16Type
<1>4. p[n + 1] = K!U16(w)[1] /\ p[n + 2] = K!U16(w)[2]
  BY <1>3
<1>5. K!U16(w)[1] = (w \div 256) % 256 /\ K!U16(w)[2] = w % 256
  BY DEF K!U16
<1>6. n + 1 + 1 = n + 2
  OBVIOUS
<1> QED
  BY <1>1, <1>4, <1>5, <1>6 DEF K!N16

(* A device's description is read as it was written, whatever follows.     *)
LEMMA DeviceArrives ==
  ASSUME NEW d \in K!Devices
  PROVE  LET r == K!PackDevice(d)
         IN  /\ r.res = "ok" /\ r.value \in Seq(K!Byte) /\ Len(r.value) = 54
             /\ \A p \in Seq(K!Byte) :
                  Starts(p, r.value) => K!UnpackDevice(p, p) = K!Got(d, 54)
<1>1. /\ d.type \in K!Byte /\ d.medium \in K!Byte /\ d.status \in K!Byte
      /\ d.source \in K!Word /\ d.project \in K!Word
      /\ d.serial \in Seq(K!Byte) /\ Len(d.serial) = 6
      /\ d.multicast \in Seq(K!Byte) /\ Len(d.multicast) = 4
      /\ d.hardware \in Seq(K!Byte) /\ Len(d.hardware) = 6
      /\ d.name \in Seq(K!Byte) /\ Len(d.name) < 30
      /\ Len(d.name) = 0 \/ d.name[Len(d.name)] # 0
      /\ d = [type |-> d.type, medium |-> d.medium, status |-> d.status, source |-> d.source,
              project |-> d.project, serial |-> d.serial, multicast |-> d.multicast,
              hardware |-> d.hardware, name |-> d.name]
  BY DEF K!Devices, K!Bytes, K!NameWidth
<1> DEFINE a == <<54, d.type, d.medium, d.status>>
           src == K!U16(d.source)
           prj == K!U16(d.project)
           ser == d.serial
           mul == d.multicast
           hw == d.hardware
           name == K!PackString(30, d.name).value
           b == a \o src
           c == b \o prj
           e == c \o ser
           f == e \o mul
           g == f \o hw
           q == g \o name
<1>2. /\ K!PackString(30, d.name).res = "ok" /\ name \in Seq(K!Byte) /\ Len(name) = 30
      /\ K!UnpackString(name) = d.name
  <2>1. d.name \in Seq(K!Byte) /\ 30 \in Nat /\ Len(d.name) \in Nat
    BY <1>1
  <2> QED
    BY <1>1, <2>1, StringArrives
<1>3. K!PackDevice(d) = K!Got(q, 54)
  BY <1>2 DEF K!PackDevice, K!Then, K!SizeDevice, K!NameWidth
<1>4. /\ a \in Seq(K!Byte) /\ Len(a) = 4
      /\ a[1] = 54 /\ a[2] = d.type /\ a[3] = d.medium /\ a[4] = d.status
  BY <1>1 DEF K!Byte
<1>5. /\ src \in Seq(K!Byte) /\ Len(src) = 2 /\ prj \in Seq(K!Byte) /\ Len(prj) = 2
  <2>1. d.source \in Int /\ d.project \in Int
    BY <1>1, WordIsNumber
  <2> QED
    BY <2>1, U16Type
<1>6. ser \in Seq(K!Byte) /\ Len(ser) = 6 /\ mul \in Seq(K!Byte) /\ Len(mul) = 4
      /\ hw \in Seq(K!Byte) /\ Len(hw) = 6
  BY <1>1
<1> HIDE DEF a, src, prj, ser, mul, hw, name
<1>7. b \in Seq(K!Byte) /\ Len(b) = Len(a) + Len(src)
  BY <1>4, <1>5, Put, Zenon
<1> HIDE DEF b
<1>8. c \in Seq(K!Byte) /\ Len(c) = Len(b) + Len(prj)
  BY <1>5, <1>7, Put, Zenon
<1> HIDE DEF c
<1>9. e \in Seq(K!Byte) /\ Len(e) = Len(c) + Len(ser)
  BY <1>6, <1>8, Put, Zenon
<1> HIDE DEF e
<1>10. f \in Seq(K!Byte) /\ Len(f) = Len(e) + Len(mul)
  BY <1>6, <1>9, Put, Zenon
<1> HIDE DEF f
<1>11. g \in Seq(K!Byte) /\ Len(g) = Len(f) + Len(hw)
  BY <1>6, <1>10, Put, Zenon
<1> HIDE DEF g
<1>12. q \in Seq(K!Byte) /\ Len(q) = Len(g) + Len(name)
  BY <1>2, <1>11, Put, Zenon
<1>13. Len(b) = 6 /\ Len(c) = 8 /\ Len(e) = 14 /\ Len(f) = 18 /\ Len(g) = 24 /\ Len(q) = 54
  BY <1>2, <1>4, <1>5, <1>6, <1>7, <1>8, <1>9, <1>10, <1>11, <1>12
<1>14. ASSUME NEW p \in Seq(K!Byte), Starts(p, q)
       PROVE  K!UnpackDevice(p, p) = K!Got(d, 54)
  <2>1. Starts(p, g) /\ SubSeq(p, Len(g) + 1, Len(g) + Len(name)) = name
    <3>1. g \in Seq(K!Byte) /\ name \in Seq(K!Byte) /\ Starts(p, g \o name)
      BY <1>2, <1>11, <1>14
    <3> QED
      BY <3>1, StartsParts, Zenon
  <2>2. Starts(p, f) /\ SubSeq(p, Len(f) + 1, Len(f) + Len(hw)) = hw
    <3>1. f \in Seq(K!Byte) /\ hw \in Seq(K!Byte) /\ Starts(p, f \o hw)
      BY <1>6, <1>10, <2>1 DEF g
    <3> QED
      BY <3>1, StartsParts, Zenon
  <2>3. Starts(p, e) /\ SubSeq(p, Len(e) + 1, Len(e) + Len(mul)) = mul
    <3>1. e \in Seq(K!Byte) /\ mul \in Seq(K!Byte) /\ Starts(p, e \o mul)
      BY <1>6, <1>9, <2>2 DEF f
    <3> QED
      BY <3>1, StartsParts, Zenon
  <2>4. Starts(p, c) /\ SubSeq(p, Len(c) + 1, Len(c) + Len(ser)) = ser
    <3>1. c \in Seq(K!Byte) /\ ser \in Seq(K!Byte) /\ Starts(p, c \o ser)
      BY <1>6, <1>8, <2>3 DEF e
    <3> QED
      BY <3>1, StartsParts, Zenon
  <2>5. Starts(p, b) /\ \A i \in 1..Len(prj) : p[Len(b) + i] = prj[i]
    <3>1. b \in Seq(K!Byte) /\ prj \in Seq(K!Byte) /\ Starts(p, b \o prj)
      BY <1>5, <1>7, <2>4 DEF c
    <3> QED
      BY <3>1, StartsParts
  <2>6. Starts(p, a) /\ \A i \in 1..Len(src) : p[Len(a) + i] = src[i]
    <3>1. a \in Seq(K!Byte) /\ src \in Seq(K!Byte) /\ Starts(p, a \o src)
      BY <1>4, <1>5, <2>5 DEF b
    <3> QED
      BY <3>1, StartsParts
  <2>7. K!N16(p, Len(b) + 1) = d.project
    <3>1. Len(b) \in Nat
      BY <1>13
    <3> QED
      <4>1. /\ d.project \in K!Word
            /\ \A i \in 1..Len(K!U16(d.project)) : p[Len(b) + i] = K!U16(d.project)[i]
        BY <1>1, <2>5 DEF prj
      <4> QED
        BY <3>1, <4>1, WordAt
  <2>8. K!N16(p, Len(a) + 1) = d.source
    <3>1. Len(a) \in Nat
      BY <1>4
    <3> QED
      <4>1. /\ d.source \in K!Word
            /\ \A i \in 1..Len(K!U16(d.source)) : p[Len(a) + i] = K!U16(d.source)[i]
        BY <1>1, <2>6 DEF src
      <4> QED
        BY <3>1, <4>1, WordAt
  <2>9. K!N16(p, 5) = d.source /\ K!N16(p, 7) = d.project
    BY <1>4, <1>13, <2>7, <2>8
  <2>10. p[1] = 54 /\ p[2] = d.type /\ p[3] = d.medium /\ p[4] = d.status
    BY <1>4, <2>6 DEF Starts
  <2>11. SubSeq(p, 9, 14) = ser /\ SubSeq(p, 15, 18) = mul /\ SubSeq(p, 19, 24) = hw
    BY <1>6, <1>13, <2>2, <2>3, <2>4
  <2>12. SubSeq(p, 25, 54) = name
    BY <1>2, <1>13, <2>1
  <2>13. ~(Len(p) < 24) /\ ~(Len(p) < 54)
    <3>1. Len(p) \in Nat /\ 54 <= Len(p)
      BY <1>13, <1>14 DEF Starts
    <3> QED
      BY <3>1
  <2>14. K!UnpackDevice(p, p) =
           K!Got([type |-> p[2], medium |-> p[3], status |-> p[4],
                  source |-> K!N16(p, 5), project |-> K!N16(p, 7),
                  serial |-> SubSeq(p, 9, 14), multicast |-> SubSeq(p, 15, 18),
                  hardware |-> SubSeq(p, 19, 24),
                  name |-> K!UnpackString(SubSeq(p, 25, 54))], 54)
    <3>1. K!SizeDevice = 54 /\ K!SizeDevice - K!NameWidth = 24
      BY DEF K!SizeDevice, K!NameWidth
    <3> QED
      BY <2>10, <2>13, <3>1 DEF K!UnpackDevice
  <2> QED
    BY <1>1, <1>2, <2>9, <2>10, <2>11, <2>12, <2>14 DEF ser, mul, hw
<1> QED
  BY <1>3, <1>12, <1>13, <1>14 DEF K!Got

-----------------------------------------------------------------------------
(* The octets of the i-th of m families.                                   *)
LEMMA FamilyOctets ==
  ASSUME NEW m \in Nat, NEW i \in 1..m
  PROVE  /\ 2 * i - 1 \in 1..2 * m /\ (2 * i - 1 + 1) \div 2 = i /\ (2 * i - 1) % 2 = 1
         /\ 2 * i \in 1..2 * m /\ (2 * i + 1) \div 2 = i /\ (2 * i) % 2 # 1
OBVIOUS

(* Which of m families an octet belongs to.                                *)
LEMMA OctetFamily ==
  ASSUME NEW m \in Nat, NEW j \in 1..2 * m
  PROVE  (j + 1) \div 2 \in 1..m
OBVIOUS

(* The elements of a sequence.                                             *)
LEMMA ElementsOf ==
  ASSUME NEW T, NEW s \in Seq(T)
  PROVE  \A i \in 1..Len(s) : s[i] \in T
OBVIOUS

(* The length octet of a block of m families.                              *)
LEMMA BlockLength ==
  ASSUME NEW m \in Nat, m <= 126
  PROVE  LET n == 2 + 2 * m
         IN  n % 256 = n /\ n \in K!Byte /\ n \in Nat /\ (n - 1) \div 2 = m /\ ~(n < 2)
BY DEF K!Byte

(* The families of a device are read as they were written.                 *)
LEMMA ServicesArrive ==
  ASSUME NEW s \in K!Families
  PROVE  LET p == K!PackServices(s)
             n == K!SizeServices(s.families)
         IN  /\ p \in Seq(K!Byte) /\ Len(p) = n
             /\ K!UnpackServices(p, <<>>) = K!Got(s, n)
<1> DEFINE fs == s.families
           m == Len(s.families)
           n == K!SizeServices(s.families)
           b == [j \in 1..2 * m |->
                   LET f == fs[(j + 1) \div 2] IN IF j % 2 = 1 THEN f.type ELSE f.version]
           p == <<n % 256, s.type>> \o b
<1>1. /\ s.type \in K!Byte /\ fs \in Seq([type : K!Byte, version : K!Byte]) /\ m <= 126
      /\ s = [type |-> s.type, families |-> fs]
  BY DEF K!Families
<1>2. m \in Nat
  BY <1>1
<1>3. n = 2 + 2 * m
  BY DEF K!SizeServices
<1>4. K!PackServices(s) = p
  BY DEF K!PackServices
<1>5. \A i \in 1..m : /\ fs[i].type \in K!Byte /\ fs[i].version \in K!Byte
                      /\ fs[i] = [type |-> fs[i].type, version |-> fs[i].version]
  <2>1. \A i \in 1..m : fs[i] \in [type : K!Byte, version : K!Byte]
    <3> DEFINE T == [type : K!Byte, version : K!Byte]
    <3>1. fs \in Seq(T)
      BY <1>1
    <3> HIDE DEF fs, T
    <3>2. \A i \in 1..Len(fs) : fs[i] \in T
      BY <3>1, ElementsOf
    <3> QED
      BY <3>2 DEF T, fs
  <2> QED
    BY <2>1
<1> HIDE DEF fs, m, p
<1>6. \A j \in 1..2 * m : b[j] \in K!Byte
  BY <1>2, <1>5, OctetFamily
<1>7. b \in Seq(K!Byte) /\ Len(b) = 2 * m
  <2>1. 2 * m \in Nat
    BY <1>2
  <2>2. b = [j \in 1..2 * m |-> b[j]]
    OBVIOUS
  <2> HIDE DEF b
  <2> QED
    BY <1>6, <2>1, <2>2
<1>8. \A i \in 1..m : b[2 * i - 1] = fs[i].type /\ b[2 * i] = fs[i].version
  BY <1>2, FamilyOctets
<1> HIDE DEF b
<1>9. n % 256 = n /\ n \in K!Byte /\ n \in Nat /\ (n - 1) \div 2 = m /\ ~(n < 2)
  <2>1. m <= 126
    BY <1>1
  <2> HIDE DEF n
  <2> QED
    BY <1>2, <1>3, <2>1, BlockLength
<1> HIDE DEF n
<1>10. /\ p \in Seq(K!Byte) /\ Len(p) = 2 + Len(b) /\ p[1] = n /\ p[2] = s.type
       /\ \A j \in 1..Len(b) : p[2 + j] = b[j]
  <2>1. n \in K!Byte /\ s.type \in K!Byte /\ b \in Seq(K!Byte)
    BY <1>1, <1>7, <1>9
  <2>2. p = <<n, s.type>> \o b
    BY <1>9 DEF p, n
  <2> QED
    BY <2>1, <2>2, TwoBefore
<1> DEFINE read == [i \in 1..m |-> [type |-> p[2 * i + 1], version |-> p[2 * i + 2]]]
<1>11. \A i \in 1..m : read[i] = fs[i]
  <2> SUFFICES ASSUME NEW i \in 1..m PROVE read[i] = fs[i]
    OBVIOUS
  <2>1. 2 * i - 1 \in 1..2 * m /\ 2 * i \in 1..2 * m
    BY <1>2
  <2>2. p[2 + (2 * i - 1)] = b[2 * i - 1] /\ p[2 + 2 * i] = b[2 * i]
    BY <1>7, <1>10, <2>1
  <2>3. 2 + (2 * i - 1) = 2 * i + 1 /\ 2 + 2 * i = 2 * i + 2
    BY <1>2
  <2>4. p[2 * i + 1] = fs[i].type /\ p[2 * i + 2] = fs[i].version
    BY <1>8, <2>2, <2>3
  <2> QED
    BY <1>5, <2>4
<1>12. <<>> \o read = fs
  <2>1. fs = [i \in 1..m |-> fs[i]]
    BY <1>1 DEF fs, m
  <2>2. read = fs
    BY <1>11, <2>1
  <2> QED
    BY <1>1, <2>2
<1>13. Len(p) = n /\ ~(Len(p) < 2) /\ ~(Len(p) < 2 + 2 * m)
  BY <1>2, <1>3, <1>7, <1>10 DEF n
<1>14. K!SizeServices(fs) = n
  BY DEF n, fs
<1>15. K!UnpackServices(p, <<>>) =
         LET count == IF p[1] < 2 THEN 0 ELSE (p[1] - 1) \div 2
             found == [i \in 1..count |-> [type |-> p[2 * i + 1], version |-> p[2 * i + 2]]]
         IN  IF Len(p) < 2 + 2 * count \/ p[1] # K!SizeServices(<<>> \o found) % 256
               THEN K!Fails
               ELSE K!Got([type |-> p[2], families |-> <<>> \o found], 2 + 2 * count)
  BY <1>13 DEF K!UnpackServices
<1>16. (IF p[1] < 2 THEN 0 ELSE (p[1] - 1) \div 2) = m
  BY <1>9, <1>10
<1>17. K!UnpackServices(p, <<>>) = K!Got([type |-> s.type, families |-> fs], 2 + 2 * m)
  BY <1>9, <1>10, <1>12, <1>13, <1>14, <1>15, <1>16
<1>18. 2 + 2 * m = n
  BY <1>3 DEF n, m, fs
<1> QED
  BY <1>1, <1>4, <1>10, <1>13, <1>17, <1>18 DEF n

-----------------------------------------------------------------------------
(* A search response is read as what a gateway says in it.                 *)
LEMMA SearchResArrives ==
  ASSUME NEW h \in K!HostInfos, NEW d \in K!Devices, NEW s \in K!Families
  PROVE  LET p == K!PackHostInfo(h) \o K!PackDevice(d).value \o K!PackServices(s)
         IN  /\ p \in Seq(K!Byte)
             /\ ReadAs(K!UnpackSearchRes(p),
                       [service |-> "SearchRes", control |-> h, device |-> d, services |-> s])
<1> DEFINE a == K!PackHostInfo(h)
           b == K!PackDevice(d).value
           c == K!PackServices(s)
           e == a \o b
           p == e \o c
           n == K!SizeServices(s.families)
<1>1. /\ a \in Seq(K!Byte) /\ Len(a) = 8
      /\ \A q \in Seq(K!Byte) :
           Len(q) >= 8 /\ (\A i \in 1..8 : q[i] = a[i]) => K!UnpackHostInfo(q) = K!Got(h, 8)
  BY HostArrives
<1>2. /\ b \in Seq(K!Byte) /\ Len(b) = 54
      /\ \A q \in Seq(K!Byte) : Starts(q, b) => K!UnpackDevice(q, q) = K!Got(d, 54)
  BY DeviceArrives
<1>3. c \in Seq(K!Byte) /\ K!UnpackServices(c, <<>>) = K!Got(s, n)
  BY ServicesArrive
<1> HIDE DEF a, b, c, n
<1>4. e \in Seq(K!Byte) /\ Len(e) = Len(a) + Len(b)
  BY <1>1, <1>2, Put, Zenon
<1> HIDE DEF e
<1>5. p \in Seq(K!Byte) /\ Len(p) = Len(e) + Len(c) /\ K!From(p, Len(e)) = c /\ Starts(p, p)
  <2>1. p \in Seq(K!Byte) /\ Len(p) = Len(e) + Len(c) /\ K!From(p, Len(e)) = c
    BY <1>3, <1>4, Put, Zenon
  <2>2. Len(p) <= Len(p)
    BY <2>1
  <2> QED
    BY <2>1, <2>2 DEF Starts
<1>6. Starts(p, e)
  BY <1>3, <1>4, <1>5, StartsParts, Zenon DEF p
<1> HIDE DEF p
<1>7. Starts(p, a) /\ Starts(K!From(p, Len(a)), b)
  <2>1. Starts(p, a \o b)
    BY <1>6 DEF e
  <2> QED
    BY <1>1, <1>2, <1>5, <2>1, StartsParts, Zenon
<1>8. Len(e) = 62 /\ K!From(p, 62) = c /\ Starts(K!From(p, 8), b)
  BY <1>1, <1>2, <1>4, <1>5, <1>7
<1>9. Len(p) >= 8 /\ \A i \in 1..8 : p[i] = a[i]
  BY <1>1, <1>5, <1>7 DEF Starts
<1>10. K!UnpackHostInfo(p) = K!Got(h, 8)
  BY <1>1, <1>5, <1>9
<1>11. K!From(p, 8) \in Seq(K!Byte)
  <2>1. 8 \in 0..Len(p)
    BY <1>5, <1>9
  <2> QED
    BY <1>5, <2>1, FromType
<1>12. K!UnpackDevice(K!From(p, 8), K!From(p, 8)) = K!Got(d, 54)
  BY <1>2, <1>8, <1>11
<1>13. ReadAs(K!UnpackSearchRes(p),
              [service |-> "SearchRes", control |-> h, device |-> d, services |-> s])
  <2> DEFINE r == K!UnpackHostInfo(p)
             f == K!UnpackDevice(K!From(p, 8), K!From(p, 8))
             g == K!UnpackServices(K!From(p, 62), <<>>)
  <2>1. r.res = "ok" /\ r.value = h /\ r.n = 8
    BY <1>10 DEF K!Got
  <2>2. f.res = "ok" /\ f.value = d /\ f.n = 54
    BY <1>12 DEF K!Got
  <2>3. g.res = "ok" /\ g.value = s
    BY <1>3, <1>8 DEF K!Got
  <2>4. 8 + 54 = 62
    OBVIOUS
  <2> QED
    BY <2>1, <2>2, <2>3, <2>4 DEF K!UnpackSearchRes, K!Then, K!Got, ReadAs
<1> QED
  BY <1>5, <1>13 DEF p, e, a, b, c

(* What is read of the header and the body that a gateway sends.           *)
LEMMA FramedArrives ==
  ASSUME NEW s \in ServiceNames, NEW body \in Seq(K!Byte)
  PROVE  /\ Framed(s, body) \in Seq(K!Byte)
         /\ K!Unpack(Framed(s, body)) = K!UnpackBody(s, body)
<1> DEFINE id == K!IDs[s]
           total == 6 + Len(body)
           p == Framed(s, body)
<1>1. p = Packet(id, total, body)
  BY DEF Framed, Packet
<1>2. id \in K!Word /\ total \in Int
  BY IDsDiffer
<1> HIDE DEF id, total, p
<1>3. /\ p \in Seq(K!Byte) /\ K!From(p, 6) = body
      /\ K!UnpackHeader(p) = K!Got([id |-> id, total |-> LengthRead(total)], 6)
  BY <1>1, <1>2, HeaderArrives
<1>4. K!Unpack(p) = K!UnpackBody(s, body)
  BY <1>3, PacketByID DEF id
<1> QED
  BY <1>3, <1>4 DEF p

(* Two pairs of octets in one sequence.                                    *)
LEMMA TwoAndTwo ==
  ASSUME NEW a \in K!Byte, NEW b \in K!Byte, NEW c \in K!Byte, NEW d \in K!Byte
  PROVE  <<a, b>> \o <<c, d>> = <<a, b, c, d>>
<1> DEFINE s == <<a, b>>
           p == s \o <<c, d>>
           q == <<a, b, c, d>>
<1>1. s \in Seq(K!Byte) /\ Len(s) = 2 /\ s[1] = a /\ s[2] = b
  OBVIOUS
<1>2. /\ q \in Seq(K!Byte) /\ Len(q) = 4
      /\ q[1] = a /\ q[2] = b /\ q[3] = c /\ q[4] = d
  OBVIOUS
<1> HIDE DEF s, q
<1>3. /\ p \in Seq(K!Byte) /\ Len(p) = Len(s) + 2
      /\ \A i \in 1..Len(s) : p[i] = s[i]
      /\ p[Len(s) + 1] = c /\ p[Len(s) + 2] = d
  <2>1. s \in Seq(K!Byte)
    BY <1>1
  <2> QED
    BY <2>1, PutTwo
<1> HIDE DEF p
<1>4. Len(p) = 4 /\ \A i \in 1..4 : p[i] = q[i]
  BY <1>1, <1>2, <1>3
<1>5. p = q
  BY <1>2, <1>3, <1>4, SameOctets
<1> QED
  BY <1>5 DEF p, q, s

(* Three pairs of octets in one sequence.                                  *)
LEMMA FourAndTwo ==
  ASSUME NEW a \in K!Byte, NEW b \in K!Byte, NEW c \in K!Byte, NEW d \in K!Byte,
         NEW e \in K!Byte, NEW f \in K!Byte
  PROVE  <<a, b, c, d>> \o <<e, f>> = <<a, b, c, d, e, f>>
<1> DEFINE s == <<a, b, c, d>>
           p == s \o <<e, f>>
           q == <<a, b, c, d, e, f>>
<1>1. s \in Seq(K!Byte) /\ Len(s) = 4 /\ s[1] = a /\ s[2] = b /\ s[3] = c /\ s[4] = d
  OBVIOUS
<1>2. /\ q \in Seq(K!Byte) /\ Len(q) = 6
      /\ q[1] = a /\ q[2] = b /\ q[3] = c /\ q[4] = d /\ q[5] = e /\ q[6] = f
  OBVIOUS
<1> HIDE DEF s, q
<1>3. /\ p \in Seq(K!Byte) /\ Len(p) = Len(s) + 2
      /\ \A i \in 1..Len(s) : p[i] = s[i]
      /\ p[Len(s) + 1] = e /\ p[Len(s) + 2] = f
  <2>1. s \in Seq(K!Byte)
    BY <1>1
  <2> QED
    BY <2>1, PutTwo
<1> HIDE DEF p
<1>4. Len(p) = 6 /\ \A i \in 1..6 : p[i] = q[i]
  BY <1>1, <1>2, <1>3
<1>5. p = q
  BY <1>2, <1>3, <1>4, SameOctets
<1> QED
  BY <1>5 DEF p, q, s

(* What peers send is read as what they mean.                              *)
LEMMA PeerArrives ==
  ASSUME NEW v, NEW packet, PeerSends(v, packet)
  PROVE  packet \in Seq(K!Byte) /\ ReadAs(K!Unpack(packet), v)
<1>1. CASE /\ v \in [service : {"SearchRes"}, control : K!HostInfos, device : K!Devices,
                     services : K!Families]
           /\ packet = Framed("SearchRes", SearchResult(v))
  <2>1. /\ v.control \in K!HostInfos /\ v.device \in K!Devices /\ v.services \in K!Families
        /\ v = [service |-> "SearchRes", control |-> v.control, device |-> v.device,
                services |-> v.services]
    BY <1>1
  <2>2. SearchResult(v) \in Seq(K!Byte) /\ ReadAs(K!UnpackSearchRes(SearchResult(v)), v)
    BY <2>1, SearchResArrives DEF SearchResult
  <2>3. "SearchRes" \in ServiceNames
    BY DEF ServiceNames
  <2>4. packet \in Seq(K!Byte) /\ K!Unpack(packet) = K!UnpackBody("SearchRes", SearchResult(v))
    BY <1>1, <2>2, <2>3, FramedArrives
  <2>5. K!UnpackBody("SearchRes", SearchResult(v)) = K!UnpackSearchRes(SearchResult(v))
    BY DEF K!UnpackBody
  <2> QED
    BY <2>2, <2>4, <2>5
<1>2. CASE /\ v \in [service : {"RoutingLost"}, status : K!Byte, count : K!Word]
           /\ packet = Framed("RoutingLost", <<4, v.status>> \o K!U16(v.count))
  <2> DEFINE b == <<4, v.status>> \o K!U16(v.count)
             w1 == (v.count \div 256) % 256
             w2 == v.count % 256
  <2>1. /\ v.status \in K!Byte /\ v.count \in K!Word
        /\ v = [service |-> "RoutingLost", status |-> v.status, count |-> v.count]
    BY <1>2
  <2>2. w1 \in K!Byte /\ w2 \in K!Byte /\ w1 * 256 + w2 = v.count
    BY <2>1, WordOctets
  <2>3. b = <<4, v.status, w1, w2>>
    <3>1. b = <<4, v.status>> \o <<w1, w2>>
      BY DEF K!U16
    <3>2. 4 \in K!Byte
      BY DEF K!Byte
    <3> HIDE DEF b, w1, w2
    <3> QED
      BY <2>1, <2>2, <3>1, <3>2, TwoAndTwo
  <2> HIDE DEF b, w1, w2
  <2>4. b \in Seq(K!Byte) /\ ~(Len(b) < 4) /\ b[2] = v.status /\ b[3] = w1 /\ b[4] = w2
    BY <2>1, <2>2, <2>3 DEF K!Byte
  <2>5. K!N16(b, 3) = v.count
    BY <2>2, <2>4 DEF K!N16
  <2>6. K!UnpackRoutingLost(b) = K!Got(v, 4)
    BY <2>1, <2>4, <2>5 DEF K!UnpackRoutingLost
  <2>7. "RoutingLost" \in ServiceNames
    BY DEF ServiceNames
  <2>8. packet \in Seq(K!Byte) /\ K!Unpack(packet) = K!UnpackBody("RoutingLost", b)
    BY <1>2, <2>4, <2>7, FramedArrives DEF b
  <2>9. K!UnpackBody("RoutingLost", b) = K!UnpackRoutingLost(b)
    BY DEF K!UnpackBody
  <2> QED
    BY <2>6, <2>8, <2>9 DEF ReadAs, K!Got
<1>3. CASE /\ v \in [service : {"RoutingBusy"}, status : K!Byte, wait : K!Word, busyControl : K!Word]
           /\ packet = Framed("RoutingBusy", <<6, v.status>> \o K!U16(v.wait) \o K!U16(v.busyControl))
  <2> DEFINE b == <<6, v.status>> \o K!U16(v.wait) \o K!U16(v.busyControl)
             w1 == (v.wait \div 256) % 256
             w2 == v.wait % 256
             c1 == (v.busyControl \div 256) % 256
             c2 == v.busyControl % 256
  <2>1. /\ v.status \in K!Byte /\ v.wait \in K!Word /\ v.busyControl \in K!Word
        /\ v = [service |-> "RoutingBusy", status |-> v.status, wait |-> v.wait,
                busyControl |-> v.busyControl]
    BY <1>3
  <2>2. /\ w1 \in K!Byte /\ w2 \in K!Byte /\ w1 * 256 + w2 = v.wait
        /\ c1 \in K!Byte /\ c2 \in K!Byte /\ c1 * 256 + c2 = v.busyControl
    BY <2>1, WordOctets
  <2>3. b = <<6, v.status, w1, w2, c1, c2>>
    <3>1. b = <<6, v.status>> \o <<w1, w2>> \o <<c1, c2>>
      BY DEF K!U16
    <3>2. 6 \in K!Byte
      BY DEF K!Byte
    <3> HIDE DEF b, w1, w2, c1, c2
    <3>3. <<6, v.status>> \o <<w1, w2>> = <<6, v.status, w1, w2>>
      BY <2>1, <2>2, <3>2, TwoAndTwo
    <3>4. <<6, v.status, w1, w2>> \o <<c1, c2>> = <<6, v.status, w1, w2, c1, c2>>
      BY <2>1, <2>2, <3>2, FourAndTwo
    <3> QED
      BY <3>1, <3>3, <3>4
  <2> HIDE DEF b, w1, w2, c1, c2
  <2>4. /\ b \in Seq(K!Byte) /\ ~(Len(b) < 6) /\ b[2] = v.status
        /\ b[3] = w1 /\ b[4] = w2 /\ b[5] = c1 /\ b[6] = c2
    BY <2>1, <2>2, <2>3 DEF K!Byte
  <2>5. K!N16(b, 3) = v.wait /\ K!N16(b, 5) = v.busyControl
    BY <2>2, <2>4 DEF K!N16
  <2>6. K!UnpackRoutingBusy(b) = K!Got(v, 6)
    BY <2>1, <2>4, <2>5 DEF K!UnpackRoutingBusy
  <2>7. "RoutingBusy" \in ServiceNames
    BY DEF ServiceNames
  <2>8. packet \in Seq(K!Byte) /\ K!Unpack(packet) = K!UnpackBody("RoutingBusy", b)
    BY <1>3, <2>4, <2>7, FramedArrives DEF b
  <2>9. K!UnpackBody("RoutingBusy", b) = K!UnpackRoutingBusy(b)
    BY DEF K!UnpackBody
  <2> QED
    BY <2>6, <2>8, <2>9 DEF ReadAs, K!Got
<1>4. CASE /\ v.service = "DescriptionRes" /\ packet \in Seq(K!Byte)
           /\ K!Unpack(packet).res = "ok" /\ K!Unpack(packet).value = v
  BY <1>4 DEF ReadAs
<1> QED
  BY <1>1, <1>2, <1>3, <1>4 DEF PeerSends

-----------------------------------------------------------------------------
(* What the octets of an undamaged packet of the item are.                 *)
Whole(w) ==
  \/ item.made /\ K!Pack(item.value).res = "ok" /\ w = K!Pack(item.value).value
  \/ ~item.made /\ \E p \in PeerPackets : item.value = p.value /\ w = p.wire

(* The inductive invariant for packets: what is on the wire is what was    *)
(* packed or sent by a peer, or a beginning of that, or other octets; what *)
(* was read is what Unpack makes of it; and what was read once more is     *)
(* what Unpack makes of what Pack made of that.                            *)
PacketInv ==
  item.kind = "packet" =>
    /\ stage \in {"made", "sent", "read", "relayed"} /\ damage \in {"none", "cut", "changed"}
    /\ item.made => item.value \in Services
    /\ stage = "made" => item.made /\ damage = "none"
    /\ stage # "made" =>
         /\ damage = "none" =>
              \/ item.made /\ wire = K!Pack(item.value)
              \/ ~item.made /\ wire.res = "ok" /\ Whole(wire.value)
         /\ damage = "cut" =>
              /\ wire.res = "ok" /\ wire.value \in Seq(K!Byte)
              /\ \E w \in Seq(K!Byte) : Whole(w) /\ Starts(w, wire.value)
         /\ damage = "changed" => wire.res = "ok" /\ wire.value \in Seq(K!Byte)
    /\ stage \in {"read", "relayed"} => wire.res = "ok" /\ got = K!Unpack(wire.value)
    /\ stage = "relayed" =>
         /\ got.res = "ok" /\ got.value.service \notin {"RoutingLost", "RoutingBusy"}
         /\ LET r == K!Pack(got.value)
            IN  again = IF r.res = "ok" THEN K!Unpack(r.value) ELSE r

(* A service is packed unless it is one of the two that stop with a panic, *)
(* and then it is one that fits a datagram.                                *)
LEMMA PackedIsService ==
  ASSUME NEW srv \in Services
  PROVE  /\ K!Pack(srv).res = "ok" =>
              srv \in K!ServicePackable /\ K!SizeService(srv) + 6 \in K!Word
         /\ K!Pack(srv).res # "ok" => srv.service \in K!PackPanics
<1>1. CASE srv.service \in K!PackPanics
  <2>1. K!Pack(srv) = K!Outside
    BY <1>1 DEF K!Pack
  <2> QED
    BY <1>1, <2>1 DEF K!Outside
<1>2. CASE srv.service \notin K!PackPanics
  <2>1. srv \in K!ServicePackable /\ K!SizeService(srv) + 6 \in K!Word
    BY <1>2, PacketAssumption
  <2>2. K!Pack(srv).res = "ok"
    BY <1>2 DEF K!Pack, K!Got
  <2> QED
    BY <2>1, <2>2
<1> QED
  BY <1>1, <1>2

(* An undamaged packet consists of octets and is read as what it means.    *)
LEMMA WholeArrives ==
  ASSUME item.made => item.value \in Services, NEW w, Whole(w)
  PROVE  w \in Seq(K!Byte) /\ ReadAs(K!Unpack(w), Meant(item.value))
<1>1. CASE item.made /\ K!Pack(item.value).res = "ok" /\ w = K!Pack(item.value).value
  <2>1. item.value \in K!ServicePackable
    BY <1>1, PackedIsService
  <2> QED
    BY <1>1, <2>1, PacketArrives
<1>2. CASE ~item.made /\ \E p \in PeerPackets : item.value = p.value /\ w = p.wire
  <2>1. PICK p \in PeerPackets : item.value = p.value /\ w = p.wire
    BY <1>2
  <2>2. PeerSends(p.value, p.wire)
    BY PeerAssumption
  <2>3. p.wire \in Seq(K!Byte) /\ ReadAs(K!Unpack(p.wire), p.value)
    BY <2>2, PeerArrives
  <2>4. p.value.service \notin Carries
    BY <2>2 DEF PeerSends, Carries
  <2> QED
    BY <2>1, <2>3, <2>4 DEF Meant
<1> QED
  BY <1>1, <1>2 DEF Whole

(* What is on the wire of a packet consists of octets.                     *)
LEMMA WireOctets ==
  ASSUME PacketInv, item.kind = "packet", stage # "made", wire.res = "ok"
  PROVE  wire.value \in Seq(K!Byte) /\ (damage = "none" => Whole(wire.value))
<1>1. CASE damage = "none"
  <2>1. Whole(wire.value)
    BY <1>1 DEF PacketInv, Whole
  <2>2. item.made => item.value \in Services
    BY DEF PacketInv
  <2> QED
    BY <2>1, <2>2, WholeArrives
<1>2. CASE damage \in {"cut", "changed"}
  BY <1>2 DEF PacketInv
<1> QED
  BY <1>1, <1>2 DEF PacketInv

(* The invariant holds of the items there are at first.                    *)
LEMMA PacketInvInit == Init => PacketInv
<1> SUFFICES ASSUME Init, item.kind = "packet" PROVE PacketInv
  BY DEF PacketInv
<1>1. damage = "none"
  BY DEF Init
<1>2. /\ \A kind, form, v : Item(kind, form, v) => item.kind = kind
      /\ \A kind, form, v, w : FromPeer(kind, form, v, w) => item.kind = kind
  BY DEF Item, FromPeer
<1>3. \/ \E srv \in Services : Item("packet", "", srv)
      \/ \E p \in PeerPackets : FromPeer("packet", "", p.value, p.wire)
  BY <1>2 DEF Init
<1>4. ASSUME NEW srv \in Services, Item("packet", "", srv) PROVE PacketInv
  <2>1. item.made /\ item.value = srv /\ stage = "made"
    BY <1>4 DEF Item
  <2> QED
    BY <1>1, <2>1 DEF PacketInv
<1>5. ASSUME NEW p \in PeerPackets, FromPeer("packet", "", p.value, p.wire) PROVE PacketInv
  <2>1. /\ ~item.made /\ item.value = p.value /\ stage = "sent"
        /\ wire.res = "ok" /\ wire.value = p.wire
    BY <1>5 DEF FromPeer, K!Got
  <2> QED
    BY <1>1, <2>1 DEF PacketInv, Whole
<1> QED
  BY <1>3, <1>4, <1>5

(* A packet that is cut starts with what is left of it.                    *)
LEMMA CutStarts ==
  ASSUME NEW w \in Seq(K!Byte), NEW k \in 0..Len(w) - 1
  PROVE  SubSeq(w, 1, k) \in Seq(K!Byte) /\ Starts(w, SubSeq(w, 1, k))
<1>1. /\ SubSeq(w, 1, k) \in Seq(K!Byte) /\ Len(SubSeq(w, 1, k)) = k
      /\ \A i \in 1..k : SubSeq(w, 1, k)[i] = w[i]
  OBVIOUS
<1>2. k <= Len(w)
  OBVIOUS
<1> QED
  BY <1>1, <1>2 DEF Starts

(* Every step keeps the invariant.                                         *)
LEMMA PacketInvNext == PacketInv /\ [Next]_vars => PacketInv'
<1> SUFFICES ASSUME PacketInv, [Next]_vars, item'.kind = "packet" PROVE PacketInv'
  BY DEF PacketInv
<1>1. item' = item
  BY DEF Next, vars, Write, Cut, Change, Receive, Relay
<1>2. item.kind = "packet" /\ (item.made => item.value \in Services)
  BY <1>1 DEF PacketInv
<1>3. \A w : Whole(w)' <=> Whole(w)
  BY <1>1 DEF Whole
<1>4. CASE Write
  <2>1. stage = "made" /\ item.made /\ damage' = "none" /\ stage' = "sent"
    BY <1>2, <1>4 DEF Write, PacketInv
  <2>2. wire' = K!Pack(item.value)
    BY <1>2, <1>4 DEF Write, Written
  <2> QED
    BY <1>1, <1>2, <2>1, <2>2 DEF PacketInv
<1>5. CASE Cut
  <2>1. stage = "sent" /\ stage' = "sent" /\ damage = "none" /\ damage' = "cut" /\ wire.res = "ok"
    BY <1>5 DEF Cut, OnTheWay
  <2>2. wire.value \in Seq(K!Byte) /\ Whole(wire.value)
    BY <1>2, <2>1, WireOctets
  <2>3. PICK k \in 0..Len(wire.value) - 1 : wire' = K!Got(SubSeq(wire.value, 1, k), 0)
    BY <1>5 DEF Cut
  <2>4. wire'.res = "ok" /\ wire'.value = SubSeq(wire.value, 1, k)
    BY <2>3 DEF K!Got
  <2>5. wire'.value \in Seq(K!Byte) /\ Starts(wire.value, wire'.value)
    BY <2>2, <2>4, CutStarts
  <2>6. \E w \in Seq(K!Byte) : Whole(w)' /\ Starts(w, wire'.value)
    BY <1>3, <2>2, <2>5
  <2> QED
    BY <1>1, <1>2, <2>1, <2>4, <2>5, <2>6 DEF PacketInv
<1>6. CASE Change
  <2>1. stage = "sent" /\ stage' = "sent" /\ damage = "none" /\ damage' = "changed" /\ wire.res = "ok"
    BY <1>6 DEF Change, OnTheWay
  <2>2. wire.value \in Seq(K!Byte)
    BY <1>2, <2>1, WireOctets
  <2>3. PICK i \in 1..Len(wire.value), b \in Changes : wire' = K!Got([wire.value EXCEPT ![i] = b], 0)
    BY <1>6 DEF Change
  <2>4. b \in K!Byte
    BY PeerAssumption
  <2>5. wire'.res = "ok" /\ wire'.value \in Seq(K!Byte)
    BY <2>2, <2>3, <2>4 DEF K!Got
  <2> QED
    BY <1>1, <1>2, <2>1, <2>5 DEF PacketInv
<1>7. CASE Receive
  <2>1. stage = "sent" /\ wire.res = "ok" /\ stage' = "read" /\ UNCHANGED <<damage, wire>>
    BY <1>7 DEF Receive
  <2>2. got' = K!Unpack(wire.value)
    BY <1>2, <1>7 DEF Receive, Read
  <2> QED
    BY <1>1, <1>2, <1>3, <2>1, <2>2 DEF PacketInv
<1>8. CASE Relay
  <2>1. stage = "read" /\ got.res = "ok" /\ stage' = "relayed" /\ UNCHANGED <<damage, wire, got>>
    BY <1>8 DEF Relay
  <2>2. got.value.service \notin {"RoutingLost", "RoutingBusy"}
    BY <1>2, <1>8 DEF Relay, Packs
  <2>3. again' = LET r == K!Pack(got.value) IN IF r.res = "ok" THEN K!Unpack(r.value) ELSE r
    BY <1>2, <1>8 DEF Relay, Written, Onward, Read
  <2> QED
    BY <1>1, <1>2, <1>3, <2>1, <2>2, <2>3 DEF PacketInv
<1>9. CASE UNCHANGED vars
  BY <1>9 DEF vars, PacketInv, Whole
<1> QED
  BY <1>4, <1>5, <1>6, <1>7, <1>8, <1>9 DEF Next

(* The invariant implies the property.                                     *)
LEMMA PacketInvImplies == PacketInv => PacketsArrive
<1> SUFFICES ASSUME PacketInv, item.kind = "packet", damage = "none" PROVE PacketsArrive
  BY DEF PacketsArrive
<1>1. item.made => item.value \in Services
  BY DEF PacketInv
<1>2. ASSUME stage # "made", item.made, wire.res = "ok"
      PROVE  Len(wire.value) = wire.n /\ K!UnpackHeader(wire.value).value.total = wire.n
  <2>1. wire = K!Pack(item.value)
    BY <1>2 DEF PacketInv
  <2>2. item.value \in K!ServicePackable /\ K!SizeService(item.value) + 6 \in K!Word
    BY <1>1, <1>2, <2>1, PackedIsService
  <2> QED
    BY <2>1, <2>2, PacketArrives
<1>3. ASSUME stage # "made", wire.res # "ok" PROVE item.value.service \in K!PackPanics
  <2>1. item.made /\ wire = K!Pack(item.value)
    BY <1>3 DEF PacketInv
  <2> QED
    BY <1>1, <1>3, <2>1, PackedIsService
<1>4. ASSUME stage \in {"read", "relayed"} PROVE got.res = "ok" /\ got.value = Meant(item.value)
  <2>1. wire.res = "ok" /\ got = K!Unpack(wire.value)
    BY <1>4 DEF PacketInv
  <2>2. Whole(wire.value)
    BY <1>4, <2>1, WireOctets
  <2>3. ReadAs(K!Unpack(wire.value), Meant(item.value))
    BY <1>1, <2>2, WholeArrives
  <2> QED
    BY <2>1, <2>3 DEF ReadAs
<1> QED
  BY <1>2, <1>3, <1>4 DEF PacketsArrive

(* The invariant is one of the specification.                              *)
THEOREM PacketInvCorrect == Spec => []PacketInv
<1> QED
  BY PacketInvInit, PacketInvNext, PTL DEF Spec

(* PacketsArrive, for all services and all packets of peers.               *)
THEOREM PacketsArriveCorrect == Spec => []PacketsArrive
<1> QED
  BY PacketInvCorrect, PacketInvImplies, PTL

-----------------------------------------------------------------------------
(* An octet is a number below 256, and 0 is one.                           *)
LEMMA OctetIsNumber == (\A b \in K!Byte : b \in Nat /\ b <= 255) /\ 0 \in K!Byte
BY DEF K!Byte

(* Host information that is read is host information.                      *)
LEMMA HostRead ==
  ASSUME NEW p \in Seq(K!Byte), K!UnpackHostInfo(p).res = "ok"
  PROVE  LET r == K!UnpackHostInfo(p)
         IN  /\ ~(Len(p) < 8) /\ p[1] = 8 /\ r.value \in K!HostInfos /\ r.n = 8
             /\ r.value = [protocol |-> p[2], address |-> SubSeq(p, 3, 6), port |-> K!N16(p, 7)]
<1>1. ~(Len(p) < 8 \/ p[1] # 8)
  BY DEF K!UnpackHostInfo, K!Fails
<1> DEFINE v == [protocol |-> p[2], address |-> SubSeq(p, 3, 6), port |-> K!N16(p, 7)]
<1>2. K!UnpackHostInfo(p).value = v /\ K!UnpackHostInfo(p).n = 8
  BY <1>1 DEF K!UnpackHostInfo, K!Got
<1>3. p[2] \in K!Byte /\ p[7] \in K!Byte /\ p[8] \in K!Byte
  BY <1>1
<1>4. K!N16(p, 7) \in K!Word
  BY <1>3, OctetsWord DEF K!N16
<1>5. SubSeq(p, 3, 6) \in K!Bytes(4)
  BY <1>1 DEF K!Bytes
<1>6. v \in K!HostInfos
  BY <1>3, <1>4, <1>5 DEF K!HostInfos
<1> QED
  BY <1>1, <1>2, <1>6

(* Additional information that is read is within the packet.               *)
LEMMA InfoRead ==
  ASSUME NEW p \in Seq(K!Byte), K!UnpackInfo(p).res = "ok"
  PROVE  LET r == K!UnpackInfo(p)
         IN  /\ Len(p) > 0 /\ p[1] \in K!Byte /\ p[1] + 1 <= Len(p)
             /\ r.value = SubSeq(p, 2, 1 + p[1]) /\ r.n = 1 + p[1]
             /\ r.value \in Seq(K!Byte) /\ Len(r.value) <= 255
<1>1. ~(Len(p) < 1)
  BY DEF K!UnpackInfo, K!Fails
<1>2. ~(p[1] > Len(p) - 1)
  BY <1>1 DEF K!UnpackInfo, K!Outside
<1>3. K!UnpackInfo(p).value = SubSeq(p, 2, 1 + p[1]) /\ K!UnpackInfo(p).n = 1 + p[1]
  BY <1>1, <1>2 DEF K!UnpackInfo, K!Got
<1>4. Len(p) > 0 /\ p[1] \in K!Byte
  BY <1>1
<1>5. p[1] \in Nat /\ p[1] <= 255
  BY <1>4, OctetIsNumber
<1>6. p[1] + 1 <= Len(p)
  BY <1>2, <1>5
<1> DEFINE a == p[1]
<1> HIDE DEF a
<1>7. a \in Nat /\ a <= 255 /\ a + 1 <= Len(p)
  BY <1>5, <1>6 DEF a
<1>8. SubSeq(p, 2, 1 + a) \in Seq(K!Byte) /\ Len(SubSeq(p, 2, 1 + a)) = a
  BY <1>7
<1> QED
  BY <1>3, <1>4, <1>6, <1>7, <1>8 DEF a

(* The bits of the octets of a transport unit.                             *)
LEMMA UnitBits ==
  ASSUME NEW x \in K!Byte, NEW y \in K!Byte
  PROVE  /\ K!Numbered(x) \in BOOLEAN /\ K!SeqNumber(x) \in 0..15 /\ x % 4 \in 0..3
         /\ 4 * (x % 4) + (y \div 64) \in 0..15 /\ y % 64 \in K!Byte
BY DEF K!Byte, K!Numbered, K!SeqNumber

(* Octets given for each place are a sequence of octets.                   *)
LEMMA OctetsOfFunction ==
  ASSUME NEW n \in Nat, NEW f \in [1..n -> K!Byte]
  PROVE  f \in Seq(K!Byte)
OBVIOUS

(* A transport unit that is read is one.                                   *)
LEMMA UnitRead ==
  ASSUME NEW p \in Seq(K!Byte), K!UnpackUnit(p).res = "ok"
  PROVE  LET r == K!UnpackUnit(p)
         IN  /\ Len(p) >= 2 /\ r.value \in K!Units /\ r.n \in Nat
             /\ r.value.control <=> p[2] >= 128
             /\ p[2] >= 128 =>
                  r.value = [control |-> TRUE, numbered |-> K!Numbered(p[2]),
                             seq |-> K!SeqNumber(p[2]), command |-> p[2] % 4]
             /\ ~(p[2] >= 128) =>
                  /\ Len(p) >= 3 /\ p[1] + 2 >= Len(p) /\ p[1] \in K!Byte
                  /\ r.value = [control |-> FALSE, numbered |-> K!Numbered(p[2]),
                                seq |-> K!SeqNumber(p[2]),
                                command |-> 4 * (p[2] % 4) + (p[3] \div 64),
                                data |-> [i \in 1..p[1] |->
                                            IF i + 2 > Len(p) THEN 0
                                            ELSE IF i = 1 THEN p[3] % 64 ELSE p[i + 2]]]
<1> DEFINE r == K!UnpackUnit(p)
           d == [i \in 1..p[1] |-> IF i + 2 > Len(p) THEN 0
                                   ELSE IF i = 1 THEN p[3] % 64 ELSE p[i + 2]]
           short == [control |-> TRUE, numbered |-> K!Numbered(p[2]),
                     seq |-> K!SeqNumber(p[2]), command |-> p[2] % 4]
           long == [control |-> FALSE, numbered |-> K!Numbered(p[2]),
                    seq |-> K!SeqNumber(p[2]),
                    command |-> 4 * (p[2] % 4) + (p[3] \div 64), data |-> d]
<1>1. ~(Len(p) < 2)
  BY DEF K!UnpackUnit, K!Fails
<1>2. p[1] \in K!Byte /\ p[2] \in K!Byte /\ Len(p) >= 2
  BY <1>1
<1>3. CASE p[2] >= 128
  <2>1. r.value = short /\ r.n = 2
    BY <1>1, <1>3 DEF K!UnpackUnit, K!Got
  <2>2. short \in K!Units
    BY <1>2, UnitBits DEF K!Units
  <2> QED
    BY <1>2, <1>3, <2>1, <2>2
<1>4. CASE ~(p[2] >= 128)
  <2>1. ~(Len(p) < 3 \/ p[1] + 2 < Len(p))
    BY <1>1, <1>4 DEF K!UnpackUnit, K!Fails
  <2>2. r.value = long /\ r.n = p[1] + 2
    BY <1>1, <1>4, <2>1 DEF K!UnpackUnit, K!Got
  <2>3. Len(p) >= 3 /\ p[1] + 2 >= Len(p) /\ p[1] \in Nat
    BY <1>2, <2>1, OctetIsNumber
  <2>4. p[3] \in K!Byte
    BY <2>3
  <2>5. \A i \in 1..p[1] : d[i] \in K!Byte
    <3>1. 0 \in K!Byte /\ p[3] % 64 \in K!Byte
      BY <1>2, <2>4, UnitBits, OctetIsNumber
    <3>2. \A i \in 1..p[1] : ~(i + 2 > Len(p)) => p[i + 2] \in K!Byte
      BY <2>3
    <3>3. TAKE i \in 1..p[1]
    <3>4. d[i] = IF i + 2 > Len(p) THEN 0 ELSE IF i = 1 THEN p[3] % 64 ELSE p[i + 2]
      OBVIOUS
    <3> HIDE DEF d
    <3> QED
      BY <3>1, <3>2, <3>4
  <2>6. d \in Seq(K!Byte)
    <3>1. d = [i \in 1..p[1] |-> d[i]]
      OBVIOUS
    <3> HIDE DEF d
    <3>2. d \in [1..p[1] -> K!Byte]
      BY <2>5, <3>1, Zenon
    <3>3. p[1] \in Nat
      BY <2>3
    <3> QED
      BY <3>2, <3>3, OctetsOfFunction, Zenon
  <2>7. /\ K!Numbered(p[2]) \in BOOLEAN /\ K!SeqNumber(p[2]) \in 0..15
        /\ 4 * (p[2] % 4) + (p[3] \div 64) \in 0..15
    BY <1>2, <2>4, UnitBits
  <2>8. long \in [control : {FALSE}, numbered : BOOLEAN, seq : 0..15, command : 0..15,
                  data : Seq(K!Byte)]
    <3> HIDE DEF d
    <3> QED
      BY <2>6, <2>7
  <2>9. long \in K!Units
    BY <2>8 DEF K!Units
  <2> QED
    BY <1>2, <1>4, <2>2, <2>3, <2>9
<1> QED
  BY <1>3, <1>4

-----------------------------------------------------------------------------
(* An L_Data frame that is read has its fields where they are written.     *)
LEMMA LDataRead ==
  ASSUME NEW type, NEW p \in Seq(K!Byte), K!UnpackLData(type, p).res = "ok"
  PROVE  LET i == K!UnpackInfo(p)
             n == i.n
             u == K!UnpackUnit(K!From(p, n + 6))
             v == K!UnpackLData(type, p).value
         IN  /\ i.res = "ok" /\ n \in Nat /\ n + 6 <= Len(p) /\ u.res = "ok"
             /\ v = [type |-> type, info |-> i.value, control1 |-> p[n + 1], control2 |-> p[n + 2],
                     source |-> K!N16(p, n + 3), destination |-> K!N16(p, n + 5), unit |-> u.value]
             /\ K!UnpackLData(type, p).n = n + 6 + u.n
<1> DEFINE i == K!UnpackInfo(p)
           n == i.n
           u == K!UnpackUnit(K!From(p, n + 6))
<1>1. i.res = "ok"
  BY DEF K!UnpackLData, K!Then
<1>2. n \in Nat
  <2>1. n = 1 + p[1] /\ p[1] \in K!Byte
    BY <1>1, InfoRead
  <2> QED
    BY <2>1, OctetIsNumber
<1>3. ~(Len(p) < n + 6)
  BY <1>1 DEF K!UnpackLData, K!Then, K!Fails
<1>4. u.res = "ok"
  BY <1>1, <1>3 DEF K!UnpackLData, K!Then, K!Fails
<1>5. K!UnpackLData(type, p) =
        K!Got([type |-> type, info |-> i.value, control1 |-> p[n + 1], control2 |-> p[n + 2],
               source |-> K!N16(p, n + 3), destination |-> K!N16(p, n + 5), unit |-> u.value],
              n + 6 + u.n)
  BY <1>1, <1>3, <1>4 DEF K!UnpackLData, K!Then
<1>6. n + 6 <= Len(p)
  BY <1>2, <1>3
<1> QED
  BY <1>1, <1>2, <1>4, <1>5, <1>6 DEF K!Got

(* It is an L_Data frame.                                                  *)
LEMMA LDataIsMessage ==
  ASSUME NEW type \in K!LDataTypes, NEW p \in Seq(K!Byte), K!UnpackLData(type, p).res = "ok"
  PROVE  /\ K!UnpackLData(type, p).value \in K!Messages
         /\ K!UnpackLData(type, p).value.type = type
         /\ K!UnpackLData(type, p).n \in Nat
<1> DEFINE i == K!UnpackInfo(p)
           n == i.n
           u == K!UnpackUnit(K!From(p, n + 6))
           v == [type |-> type, info |-> i.value, control1 |-> p[n + 1], control2 |-> p[n + 2],
                 source |-> K!N16(p, n + 3), destination |-> K!N16(p, n + 5), unit |-> u.value]
<1>1. /\ i.res = "ok" /\ n \in Nat /\ n + 6 <= Len(p) /\ u.res = "ok"
      /\ K!UnpackLData(type, p).value = v /\ K!UnpackLData(type, p).n = n + 6 + u.n
  BY LDataRead
<1>2. i.value \in Seq(K!Byte) /\ Len(i.value) <= 255
  BY <1>1, InfoRead
<1>3. K!From(p, n + 6) \in Seq(K!Byte)
  <2>1. n + 6 \in 0..Len(p)
    BY <1>1
  <2> QED
    BY <2>1, FromType
<1>4. u.value \in K!Units /\ u.n \in Nat
  BY <1>1, <1>3, UnitRead
<1> DEFINE m == n
<1> HIDE DEF i, m, u
<1>5. /\ p[m + 1] \in K!Byte /\ p[m + 2] \in K!Byte /\ p[m + 3] \in K!Byte /\ p[m + 4] \in K!Byte
      /\ p[m + 5] \in K!Byte /\ p[m + 6] \in K!Byte
  <2>1. m \in Nat /\ m + 6 <= Len(p)
    BY <1>1 DEF m
  <2> QED
    BY <2>1
<1>6. K!N16(p, m + 3) \in K!Word /\ K!N16(p, m + 5) \in K!Word
  <2>1. m + 3 + 1 = m + 4 /\ m + 5 + 1 = m + 6
    BY <1>1 DEF m
  <2> QED
    BY <1>5, <2>1, OctetsWord DEF K!N16
<1>7. v \in K!Messages
  BY <1>2, <1>4, <1>5, <1>6 DEF K!Messages, m
<1>8. n + 6 + u.n \in Nat
  BY <1>1, <1>4
<1> QED
  BY <1>1, <1>7, <1>8

(* A message that is read is one.                                          *)
LEMMA MessageRead ==
  ASSUME NEW p \in Seq(K!Byte), K!UnpackMessage(p).res = "ok"
  PROVE  /\ Len(p) >= 1 /\ p[1] \in K!Byte /\ K!From(p, 1) \in Seq(K!Byte)
         /\ K!UnpackMessage(p).value \in K!Messages
         /\ K!UnpackMessage(p).n \in Nat
<1> DEFINE r == K!UnpackMessage(p)
           body == K!From(p, 1)
<1>1. ~(Len(p) < 1)
  BY DEF K!UnpackMessage, K!Fails
<1>2. Len(p) >= 1 /\ p[1] \in K!Byte
  BY <1>1
<1>3. body \in Seq(K!Byte)
  <2>1. 1 \in 0..Len(p)
    BY <1>2
  <2> QED
    BY <2>1, FromType
<1>4. CASE \E t \in K!LDataTypes : K!CodeOf(t) = p[1]
  <2>1. PICK t \in K!LDataTypes : K!CodeOf(t) = p[1]
    BY <1>4
  <2> DEFINE l == K!UnpackLData(t, body)
  <2>2. r = IF l.res = "ok" THEN K!Got(l.value, 1 + l.n) ELSE l
    BY <1>1, <2>1, MessageByCode
  <2>3. l.res = "ok"
    BY <2>2
  <2>4. r.value = l.value /\ r.n = 1 + l.n
    BY <2>2, <2>3 DEF K!Got
  <2>5. l.value \in K!Messages /\ l.n \in Nat
    BY <1>3, <2>3, LDataIsMessage
  <2> QED
    BY <1>2, <1>3, <2>4, <2>5
<1>5. CASE \E t \in K!RawTypes : K!CodeOf(t) = p[1]
  <2>1. PICK t \in K!RawTypes : K!CodeOf(t) = p[1]
    BY <1>5
  <2>2. r = K!Got([type |-> t, body |-> body], 1 + Len(body))
    BY <1>1, <2>1, MessageByCode
  <2>3. r.value = [type |-> t, body |-> body] /\ r.n = 1 + Len(body)
    BY <2>2 DEF K!Got
  <2>4. r.value \in K!Messages
    BY <1>3, <2>3 DEF K!Messages
  <2>5. 1 + Len(body) \in Nat
    BY <1>3
  <2> QED
    BY <1>2, <1>3, <2>3, <2>4, <2>5
<1>6. CASE \A t \in K!LDataTypes \cup K!RawTypes : K!CodeOf(t) # p[1]
  <2>1. r = K!Got([type |-> "Unsupported", code |-> p[1], body |-> body], 1 + Len(body))
    BY <1>1, <1>6, MessageByCode
  <2>2. r.value = [type |-> "Unsupported", code |-> p[1], body |-> body] /\ r.n = 1 + Len(body)
    BY <2>1 DEF K!Got
  <2>3. p[1] \in K!Byte \ {K!CodeOf(t) : t \in K!LDataTypes \cup K!RawTypes}
    BY <1>2, <1>6
  <2>4. r.value \in K!Messages
    BY <1>3, <2>2, <2>3 DEF K!Messages
  <2>5. 1 + Len(body) \in Nat
    BY <1>3
  <2> QED
    BY <1>2, <1>3, <2>2, <2>4, <2>5
<1> QED
  BY <1>4, <1>5, <1>6

-----------------------------------------------------------------------------
(* A request's body that is read is host information.                      *)
LEMMA RequestRead ==
  ASSUME NEW service, NEW p, K!UnpackRequest(service, p).res = "ok"
  PROVE  /\ K!UnpackHostInfo(p).res = "ok"
         /\ K!UnpackRequest(service, p).value =
              [service |-> service, control |-> K!UnpackHostInfo(p).value]
<1>1. K!UnpackHostInfo(p).res = "ok"
  BY DEF K!UnpackRequest, K!Then
<1> QED
  BY <1>1 DEF K!UnpackRequest, K!Then, K!Got

(* A body of a channel, a status and host information.                     *)
LEMMA ControlledRead ==
  ASSUME NEW service, NEW p, K!UnpackControlled(service, p).res = "ok"
  PROVE  /\ ~(Len(p) < 2) /\ K!UnpackHostInfo(K!From(p, 2)).res = "ok"
         /\ K!UnpackControlled(service, p).value =
              [service |-> service, channel |-> p[1], status |-> p[2],
               control |-> K!UnpackHostInfo(K!From(p, 2)).value]
<1>1. ~(Len(p) < 2)
  BY DEF K!UnpackControlled, K!Fails
<1>2. K!UnpackHostInfo(K!From(p, 2)).res = "ok"
  BY <1>1 DEF K!UnpackControlled, K!Then
<1> QED
  BY <1>1, <1>2 DEF K!UnpackControlled, K!Then, K!Got

(* A body of a channel and a status.                                       *)
LEMMA StatusRead ==
  ASSUME NEW service, NEW p, K!UnpackStatus(service, p).res = "ok"
  PROVE  /\ ~(Len(p) < 2)
         /\ K!UnpackStatus(service, p).value =
              [service |-> service, channel |-> p[1], status |-> p[2]]
<1>1. ~(Len(p) < 2)
  BY DEF K!UnpackStatus, K!Fails
<1> QED
  BY <1>1 DEF K!UnpackStatus, K!Got

(* A connection request's body.                                            *)
LEMMA ConnReqRead ==
  ASSUME NEW p, K!UnpackConnReq(p).res = "ok"
  PROVE  /\ ~(Len(p) < 20) /\ K!UnpackHostInfo(p).res = "ok"
         /\ K!UnpackHostInfo(K!From(p, 8)).res = "ok"
         /\ K!UnpackConnReq(p).value =
              [service |-> "ConnReq", control |-> K!UnpackHostInfo(p).value,
               tunnel |-> K!UnpackHostInfo(K!From(p, 8)).value, layer |-> p[19]]
<1>1. ~(Len(p) < 20)
  BY DEF K!UnpackConnReq, K!Fails
<1>2. K!UnpackHostInfo(p).res = "ok"
  BY <1>1 DEF K!UnpackConnReq, K!Then
<1>3. K!UnpackHostInfo(K!From(p, 8)).res = "ok"
  BY <1>1, <1>2 DEF K!UnpackConnReq, K!Then
<1>4. ~(p[17] # 4 \/ p[18] # 4)
  BY <1>1, <1>2, <1>3 DEF K!UnpackConnReq, K!Then, K!Fails
<1> QED
  BY <1>1, <1>2, <1>3, <1>4 DEF K!UnpackConnReq, K!Then, K!Got

(* A connection response's body: host information only with status 0.      *)
LEMMA ConnResRead ==
  ASSUME NEW p, K!UnpackConnRes(p).res = "ok"
  PROVE  /\ ~(Len(p) < 2)
         /\ p[2] # 0 =>
              K!UnpackConnRes(p).value = [service |-> "ConnRes", channel |-> p[1], status |-> p[2]]
         /\ p[2] = 0 =>
              /\ K!UnpackHostInfo(K!From(p, 2)).res = "ok"
              /\ K!UnpackConnRes(p).value =
                   [service |-> "ConnRes", channel |-> p[1], status |-> 0,
                    control |-> K!UnpackHostInfo(K!From(p, 2)).value]
<1>1. ~(Len(p) < 2)
  BY DEF K!UnpackConnRes, K!Outside
<1>2. CASE p[2] # 0
  BY <1>1, <1>2 DEF K!UnpackConnRes, K!Got
<1>3. CASE p[2] = 0
  <2>1. K!UnpackHostInfo(K!From(p, 2)).res = "ok"
    BY <1>1, <1>3 DEF K!UnpackConnRes, K!Then
  <2>2. K!UnpackConnRes(p).value =
          [service |-> "ConnRes", channel |-> p[1], status |-> 0,
           control |-> K!UnpackHostInfo(K!From(p, 2)).value]
    BY <1>1, <1>3, <2>1 DEF K!UnpackConnRes, K!Then, K!Got
  <2> QED
    BY <1>1, <1>3, <2>1, <2>2
<1> QED
  BY <1>2, <1>3

(* A tunnelling request's body.                                            *)
LEMMA TunnelReqRead ==
  ASSUME NEW p, K!UnpackTunnelReq(p).res = "ok"
  PROVE  /\ ~(Len(p) < 4) /\ K!UnpackMessage(K!From(p, 4)).res = "ok"
         /\ K!UnpackTunnelReq(p).value =
              [service |-> "TunnelReq", channel |-> p[2], seq |-> p[3],
               payload |-> K!UnpackMessage(K!From(p, 4)).value]
<1>1. ~(Len(p) < 4 \/ p[1] # 4)
  BY DEF K!UnpackTunnelReq, K!Fails
<1>2. K!UnpackMessage(K!From(p, 4)).res = "ok"
  BY <1>1 DEF K!UnpackTunnelReq, K!Then
<1> QED
  BY <1>1, <1>2 DEF K!UnpackTunnelReq, K!Then, K!Got

(* A tunnelling response's body.                                           *)
LEMMA TunnelResRead ==
  ASSUME NEW p, K!UnpackTunnelRes(p).res = "ok"
  PROVE  /\ ~(Len(p) < 4)
         /\ K!UnpackTunnelRes(p).value =
              [service |-> "TunnelRes", channel |-> p[2], seq |-> p[3], status |-> p[4]]
<1>1. ~(Len(p) < 4 \/ p[1] # 4)
  BY DEF K!UnpackTunnelRes, K!Fails
<1> QED
  BY <1>1 DEF K!UnpackTunnelRes, K!Got

(* A routing indication's body is a message.                               *)
LEMMA RoutingIndRead ==
  ASSUME NEW p, K!UnpackRoutingInd(p).res = "ok"
  PROVE  /\ K!UnpackMessage(p).res = "ok"
         /\ K!UnpackRoutingInd(p).value =
              [service |-> "RoutingInd", payload |-> K!UnpackMessage(p).value]
<1>1. K!UnpackMessage(p).res = "ok"
  BY DEF K!UnpackRoutingInd, K!Then
<1> QED
  BY <1>1 DEF K!UnpackRoutingInd, K!Then, K!Got

(* The body of a lost message indication.                                  *)
LEMMA RoutingLostRead ==
  ASSUME NEW p, K!UnpackRoutingLost(p).res = "ok"
  PROVE  /\ ~(Len(p) < 4)
         /\ K!UnpackRoutingLost(p).value =
              [service |-> "RoutingLost", status |-> p[2], count |-> K!N16(p, 3)]
<1>1. ~(Len(p) < 4)
  BY DEF K!UnpackRoutingLost, K!Fails
<1> QED
  BY <1>1 DEF K!UnpackRoutingLost, K!Got

(* The body of a busy indication.                                          *)
LEMMA RoutingBusyRead ==
  ASSUME NEW p, K!UnpackRoutingBusy(p).res = "ok"
  PROVE  /\ ~(Len(p) < 6)
         /\ K!UnpackRoutingBusy(p).value =
              [service |-> "RoutingBusy", status |-> p[2], wait |-> K!N16(p, 3),
               busyControl |-> K!N16(p, 5)]
<1>1. ~(Len(p) < 6)
  BY DEF K!UnpackRoutingBusy, K!Fails
<1> QED
  BY <1>1 DEF K!UnpackRoutingBusy, K!Got

(* A search response's body: host information, a device and its services.  *)
LEMMA SearchResRead ==
  ASSUME NEW p, K!UnpackSearchRes(p).res = "ok"
  PROVE  LET h == K!UnpackHostInfo(p)
             d == K!UnpackDevice(K!From(p, h.n), K!From(p, h.n))
             s == K!UnpackServices(K!From(p, h.n + d.n), <<>>)
         IN  /\ h.res = "ok" /\ d.res = "ok" /\ s.res = "ok"
             /\ K!UnpackSearchRes(p).value =
                  [service |-> "SearchRes", control |-> h.value, device |-> d.value,
                   services |-> s.value]
<1> DEFINE h == K!UnpackHostInfo(p)
           d == K!UnpackDevice(K!From(p, h.n), K!From(p, h.n))
           s == K!UnpackServices(K!From(p, h.n + d.n), <<>>)
<1>1. h.res = "ok"
  BY DEF K!UnpackSearchRes, K!Then
<1>2. d.res = "ok"
  BY <1>1 DEF K!UnpackSearchRes, K!Then
<1>3. s.res = "ok"
  BY <1>1, <1>2 DEF K!UnpackSearchRes, K!Then
<1> QED
  BY <1>1, <1>2, <1>3 DEF K!UnpackSearchRes, K!Then, K!Got

(* A description response names its service.                               *)
LEMMA DescriptionResRead ==
  ASSUME NEW p, K!UnpackDescriptionRes(p).res = "ok"
  PROVE  K!UnpackDescriptionRes(p).value.service = "DescriptionRes"
<1>1. K!UnpackDescription(p).res = "ok"
  BY DEF K!UnpackDescriptionRes, K!Then
<1> QED
  BY <1>1 DEF K!UnpackDescriptionRes, K!Then, K!Got

(* The decoder of a service's body.                                        *)
LEMMA Decoders ==
  ASSUME NEW p
  PROVE  /\ K!UnpackBody("SearchReq", p) = K!UnpackRequest("SearchReq", p)
         /\ K!UnpackBody("SearchRes", p) = K!UnpackSearchRes(p)
         /\ K!UnpackBody("DescriptionReq", p) = K!UnpackRequest("DescriptionReq", p)
         /\ K!UnpackBody("DescriptionRes", p) = K!UnpackDescriptionRes(p)
         /\ K!UnpackBody("ConnReq", p) = K!UnpackConnReq(p)
         /\ K!UnpackBody("ConnRes", p) = K!UnpackConnRes(p)
         /\ K!UnpackBody("ConnStateReq", p) = K!UnpackControlled("ConnStateReq", p)
         /\ K!UnpackBody("ConnStateRes", p) = K!UnpackStatus("ConnStateRes", p)
         /\ K!UnpackBody("DiscReq", p) = K!UnpackControlled("DiscReq", p)
         /\ K!UnpackBody("DiscRes", p) = K!UnpackStatus("DiscRes", p)
         /\ K!UnpackBody("TunnelReq", p) = K!UnpackTunnelReq(p)
         /\ K!UnpackBody("TunnelRes", p) = K!UnpackTunnelRes(p)
         /\ K!UnpackBody("RoutingInd", p) = K!UnpackRoutingInd(p)
         /\ K!UnpackBody("RoutingLost", p) = K!UnpackRoutingLost(p)
         /\ K!UnpackBody("RoutingBusy", p) = K!UnpackRoutingBusy(p)
BY DEF K!UnpackBody

-----------------------------------------------------------------------------
(* The octets of a packet that has so many, and what is left after them.   *)
LEMMA OctetsThere ==
  ASSUME NEW p \in Seq(K!Byte), NEW n \in Nat, ~(Len(p) < n)
  PROVE  /\ \A i \in 1..n : p[i] \in K!Byte
         /\ K!From(p, n) \in Seq(K!Byte) /\ Len(K!From(p, n)) = Len(p) - n
<1>1. Len(p) \in Nat /\ n <= Len(p) /\ n \in 0..Len(p)
  OBVIOUS
<1>2. \A i \in 1..n : p[i] \in K!Byte
  BY <1>1
<1> QED
  BY <1>1, <1>2, FromType

(* What is read of a body is a service that can be packed, unless it is    *)
(* one of the four that are only received.                                 *)
Received == K!PackPanics \cup {"RoutingLost", "RoutingBusy"}

(* A body that is read belongs to the service asked for, and is one that   *)
(* can be packed again unless it is only ever received.                    *)
LEMMA BodyRead ==
  ASSUME NEW s \in ServiceNames, NEW p \in Seq(K!Byte), K!UnpackBody(s, p).res = "ok"
  PROVE  LET v == K!UnpackBody(s, p).value
         IN  v.service = s /\ (s \notin Received => v \in K!ServicePackable)
<1> DEFINE r == K!UnpackBody(s, p)
           v == r.value
<1>1. CASE s = "SearchReq" \/ s = "DescriptionReq"
  <2>1. r = K!UnpackRequest(s, p)
    BY <1>1, Decoders
  <2>2. K!UnpackHostInfo(p).res = "ok" /\ v = [service |-> s, control |-> K!UnpackHostInfo(p).value]
    BY <2>1, RequestRead
  <2>3. K!UnpackHostInfo(p).value \in K!HostInfos
    BY <2>2, HostRead
  <2>4. v \in [service : {"SearchReq", "DescriptionReq"}, control : K!HostInfos]
    BY <1>1, <2>2, <2>3
  <2> QED
    BY <2>2, <2>4 DEF K!ServicePackable
<1>2. CASE s = "SearchRes"
  <2>1. r = K!UnpackSearchRes(p)
    BY <1>2, Decoders
  <2>2. v.service = "SearchRes"
    <3>1. K!UnpackSearchRes(p).res = "ok"
      BY <2>1
    <3> DEFINE h == K!UnpackHostInfo(p)
               d == K!UnpackDevice(K!From(p, h.n), K!From(p, h.n))
               f == K!UnpackServices(K!From(p, h.n + d.n), <<>>)
    <3>2. K!UnpackSearchRes(p).value =
            [service |-> "SearchRes", control |-> h.value, device |-> d.value, services |-> f.value]
      BY <3>1, SearchResRead
    <3> HIDE DEF h, d, f
    <3> QED
      BY <2>1, <3>2
  <2> QED
    BY <1>2, <2>2 DEF Received, K!PackPanics
<1>3. CASE s = "DescriptionRes"
  <2>1. r = K!UnpackDescriptionRes(p)
    BY <1>3, Decoders
  <2>2. v.service = "DescriptionRes"
    BY <2>1, DescriptionResRead
  <2> QED
    BY <1>3, <2>2 DEF Received, K!PackPanics
<1>4. CASE s = "ConnReq"
  <2>1. r = K!UnpackConnReq(p)
    BY <1>4, Decoders
  <2>2. /\ ~(Len(p) < 20) /\ K!UnpackHostInfo(p).res = "ok"
        /\ K!UnpackHostInfo(K!From(p, 8)).res = "ok"
        /\ v = [service |-> "ConnReq", control |-> K!UnpackHostInfo(p).value,
                tunnel |-> K!UnpackHostInfo(K!From(p, 8)).value, layer |-> p[19]]
    BY <2>1, ConnReqRead
  <2>3. p[19] \in K!Byte
    BY <2>2, OctetsThere
  <2>4. K!From(p, 8) \in Seq(K!Byte)
    <3>1. 8 \in Nat /\ ~(Len(p) < 8)
      BY <2>2
    <3> QED
      BY <3>1, OctetsThere
  <2>5. K!UnpackHostInfo(p).value \in K!HostInfos /\ K!UnpackHostInfo(K!From(p, 8)).value \in K!HostInfos
    BY <2>2, <2>4, HostRead
  <2>6. v \in [service : {"ConnReq"}, control : K!HostInfos, tunnel : K!HostInfos, layer : K!Byte]
    BY <2>2, <2>3, <2>5
  <2> QED
    BY <1>4, <2>2, <2>6 DEF K!ServicePackable
<1>5. CASE s = "ConnRes"
  <2>1. r = K!UnpackConnRes(p)
    BY <1>5, Decoders
  <2>2. /\ ~(Len(p) < 2)
        /\ p[2] # 0 => v = [service |-> "ConnRes", channel |-> p[1], status |-> p[2]]
        /\ p[2] = 0 =>
             /\ K!UnpackHostInfo(K!From(p, 2)).res = "ok"
             /\ v = [service |-> "ConnRes", channel |-> p[1], status |-> 0,
                     control |-> K!UnpackHostInfo(K!From(p, 2)).value]
    BY <2>1, ConnResRead
  <2>3. p[1] \in K!Byte /\ p[2] \in K!Byte /\ K!From(p, 2) \in Seq(K!Byte)
    BY <2>2, OctetsThere
  <2>4. CASE p[2] # 0
    <3>1. v \in [service : {"ConnRes"}, channel : K!Byte, status : K!Byte \ {0}]
      BY <2>2, <2>3, <2>4
    <3> QED
      BY <1>5, <2>2, <2>4, <3>1 DEF K!ServicePackable
  <2>5. CASE p[2] = 0
    <3>1. K!UnpackHostInfo(K!From(p, 2)).value \in K!HostInfos
      BY <2>2, <2>3, <2>5, HostRead
    <3>2. v \in [service : {"ConnRes"}, channel : K!Byte, status : {0}, control : K!HostInfos]
      BY <2>2, <2>3, <2>5, <3>1
    <3> QED
      BY <1>5, <2>2, <2>5, <3>2 DEF K!ServicePackable
  <2> QED
    BY <2>4, <2>5
<1>6. CASE s = "ConnStateReq" \/ s = "DiscReq"
  <2>1. r = K!UnpackControlled(s, p)
    BY <1>6, Decoders
  <2>2. /\ ~(Len(p) < 2) /\ K!UnpackHostInfo(K!From(p, 2)).res = "ok"
        /\ v = [service |-> s, channel |-> p[1], status |-> p[2],
                control |-> K!UnpackHostInfo(K!From(p, 2)).value]
    BY <2>1, ControlledRead
  <2>3. p[1] \in K!Byte /\ p[2] \in K!Byte /\ K!From(p, 2) \in Seq(K!Byte)
    BY <2>2, OctetsThere
  <2>4. K!UnpackHostInfo(K!From(p, 2)).value \in K!HostInfos
    BY <2>2, <2>3, HostRead
  <2>5. v \in [service : {"ConnStateReq", "DiscReq"}, channel : K!Byte, status : K!Byte,
               control : K!HostInfos]
    BY <1>6, <2>2, <2>3, <2>4
  <2> QED
    BY <2>2, <2>5 DEF K!ServicePackable
<1>7. CASE s = "ConnStateRes" \/ s = "DiscRes"
  <2>1. r = K!UnpackStatus(s, p)
    BY <1>7, Decoders
  <2>2. ~(Len(p) < 2) /\ v = [service |-> s, channel |-> p[1], status |-> p[2]]
    BY <2>1, StatusRead
  <2>3. p[1] \in K!Byte /\ p[2] \in K!Byte
    BY <2>2, OctetsThere
  <2>4. v \in [service : {"ConnStateRes", "DiscRes"}, channel : K!Byte, status : K!Byte]
    BY <1>7, <2>2, <2>3
  <2> QED
    BY <2>2, <2>4 DEF K!ServicePackable
<1>8. CASE s = "TunnelReq"
  <2>1. r = K!UnpackTunnelReq(p)
    BY <1>8, Decoders
  <2>2. /\ ~(Len(p) < 4) /\ K!UnpackMessage(K!From(p, 4)).res = "ok"
        /\ v = [service |-> "TunnelReq", channel |-> p[2], seq |-> p[3],
                payload |-> K!UnpackMessage(K!From(p, 4)).value]
    BY <2>1, TunnelReqRead
  <2>3. p[2] \in K!Byte /\ p[3] \in K!Byte /\ K!From(p, 4) \in Seq(K!Byte)
    BY <2>2, OctetsThere
  <2>4. K!UnpackMessage(K!From(p, 4)).value \in K!Messages
    BY <2>2, <2>3, MessageRead
  <2>5. v \in [service : {"TunnelReq"}, channel : K!Byte, seq : K!Byte, payload : K!Messages]
    BY <2>2, <2>3, <2>4
  <2> QED
    BY <1>8, <2>2, <2>5 DEF K!ServicePackable
<1>9. CASE s = "TunnelRes"
  <2>1. r = K!UnpackTunnelRes(p)
    BY <1>9, Decoders
  <2>2. /\ ~(Len(p) < 4)
        /\ v = [service |-> "TunnelRes", channel |-> p[2], seq |-> p[3], status |-> p[4]]
    BY <2>1, TunnelResRead
  <2>3. p[2] \in K!Byte /\ p[3] \in K!Byte /\ p[4] \in K!Byte
    BY <2>2, OctetsThere
  <2>4. v \in [service : {"TunnelRes"}, channel : K!Byte, seq : K!Byte, status : K!Byte]
    BY <2>2, <2>3
  <2> QED
    BY <1>9, <2>2, <2>4 DEF K!ServicePackable
<1>10. CASE s = "RoutingInd"
  <2>1. r = K!UnpackRoutingInd(p)
    BY <1>10, Decoders
  <2>2. /\ K!UnpackMessage(p).res = "ok"
        /\ v = [service |-> "RoutingInd", payload |-> K!UnpackMessage(p).value]
    BY <2>1, RoutingIndRead
  <2>3. K!UnpackMessage(p).value \in K!Messages
    BY <2>2, MessageRead
  <2>4. v \in [service : {"RoutingInd"}, payload : K!Messages]
    BY <2>2, <2>3
  <2> QED
    BY <1>10, <2>2, <2>4 DEF K!ServicePackable
<1>11. CASE s = "RoutingLost"
  <2>1. r = K!UnpackRoutingLost(p)
    BY <1>11, Decoders
  <2>2. v = [service |-> "RoutingLost", status |-> p[2], count |-> K!N16(p, 3)]
    BY <2>1, RoutingLostRead
  <2>3. v.service = "RoutingLost"
    BY <2>2
  <2> QED
    BY <1>11, <2>3 DEF Received
<1>12. CASE s = "RoutingBusy"
  <2>1. r = K!UnpackRoutingBusy(p)
    BY <1>12, Decoders
  <2>2. v = [service |-> "RoutingBusy", status |-> p[2], wait |-> K!N16(p, 3),
            busyControl |-> K!N16(p, 5)]
    BY <2>1, RoutingBusyRead
  <2>3. v.service = "RoutingBusy"
    BY <2>2
  <2> QED
    BY <1>12, <2>3 DEF Received
<1> QED
  BY <1>1, <1>2, <1>3, <1>4, <1>5, <1>6, <1>7, <1>8, <1>9, <1>10, <1>11, <1>12 DEF ServiceNames

(* The header of a packet that is read.                                    *)
LEMMA HeaderRead ==
  ASSUME NEW p \in Seq(K!Byte), K!Unpack(p).res = "ok"
  PROVE  /\ ~(Len(p) < 6) /\ p[1] = 6 /\ p[2] = 16
         /\ K!N16(p, 3) \in K!Word /\ K!From(p, 6) \in Seq(K!Byte)
         /\ K!UnpackHeader(p) = K!Got([id |-> K!N16(p, 3), total |-> K!N16(p, 5)], 6)
<1>1. K!UnpackHeader(p).res = "ok"
  BY DEF K!Unpack, K!Then
<1>2. ~(Len(p) < 6 \/ p[1] # 6 \/ p[2] # 16)
  BY <1>1 DEF K!UnpackHeader, K!Fails
<1>3. K!UnpackHeader(p) = K!Got([id |-> K!N16(p, 3), total |-> K!N16(p, 5)], 6)
  BY <1>2 DEF K!UnpackHeader
<1>4. p[3] \in K!Byte /\ p[4] \in K!Byte /\ K!From(p, 6) \in Seq(K!Byte)
  BY <1>2, OctetsThere
<1>5. K!N16(p, 3) \in K!Word
  BY <1>4, OctetsWord DEF K!N16
<1> QED
  BY <1>2, <1>3, <1>4, <1>5

(* What is read of any packet is a service that can be packed, or one that *)
(* is only received.                                                       *)
LEMMA PacketRead ==
  ASSUME NEW p \in Seq(K!Byte), K!Unpack(p).res = "ok"
  PROVE  LET v == K!Unpack(p).value
         IN  v.service \in Received \/ v \in K!ServicePackable
<1> DEFINE id == K!N16(p, 3)
           body == K!From(p, 6)
           v == K!Unpack(p).value
<1>1. /\ id \in K!Word /\ body \in Seq(K!Byte)
      /\ K!UnpackHeader(p) = K!Got([id |-> id, total |-> K!N16(p, 5)], 6)
  BY HeaderRead
<1>2. CASE \E s \in ServiceNames : K!IDs[s] = id
  <2>1. PICK s \in ServiceNames : K!IDs[s] = id
    BY <1>2
  <2>2. K!Unpack(p) = K!UnpackBody(s, body)
    BY <1>1, <2>1, PacketByID
  <2> QED
    BY <1>1, <2>2, BodyRead
<1>3. CASE \A s \in ServiceNames : K!IDs[s] # id
  <2>1. K!Unpack(p) = K!Got([service |-> "Unknown", id |-> id, data |-> body], Len(body))
    BY <1>1, <1>3, PacketByID
  <2>2. v = [service |-> "Unknown", id |-> id, data |-> body]
    BY <2>1 DEF K!Got
  <2>3. id \notin {K!IDs[s] : s \in DOMAIN K!IDs}
    BY <1>3, IDsDiffer
  <2>4. v \in [service : {"Unknown"}, data : Seq(K!Byte), id : K!Word \ {K!IDs[s] : s \in DOMAIN K!IDs}]
    <3> HIDE DEF id, body, v
    <3> QED
      BY <1>1, <2>2, <2>3
  <2> QED
    BY <2>4 DEF K!ServicePackable
<1> QED
  BY <1>2, <1>3

(* AcceptedIsForwardable, whatever was done to the packet on its way.      *)
THEOREM AcceptedIsForwardableCorrect == Spec => []AcceptedIsForwardable
<1>1. ASSUME PacketInv PROVE AcceptedIsForwardable
  <2> SUFFICES ASSUME item.kind = "packet", stage = "relayed"
               PROVE  \/ got.value.service \in K!PackPanics
                      \/ again.res = "ok" /\ again.value = Meant(got.value)
    BY DEF AcceptedIsForwardable
  <2> DEFINE v == got.value
             r == K!Pack(v)
  <2>1. /\ wire.res = "ok" /\ got = K!Unpack(wire.value) /\ got.res = "ok"
        /\ v.service \notin {"RoutingLost", "RoutingBusy"}
        /\ again = IF r.res = "ok" THEN K!Unpack(r.value) ELSE r
    BY <1>1 DEF PacketInv
  <2>2. wire.value \in Seq(K!Byte)
    BY <1>1, <2>1, WireOctets
  <2>3. v.service \in K!PackPanics \/ v \in K!ServicePackable
    BY <2>1, <2>2, PacketRead DEF Received
  <2>4. ASSUME v \in K!ServicePackable PROVE again.res = "ok" /\ again.value = Meant(v)
    <3>1. r.res = "ok" /\ ReadAs(K!Unpack(r.value), Meant(v))
      BY <2>4, PacketArrives
    <3> QED
      BY <2>1, <3>1 DEF ReadAs
  <2> QED
    BY <2>3, <2>4
<1> QED
  BY <1>1, PacketInvCorrect, PTL

-----------------------------------------------------------------------------
(* What is left of a packet that was cut: the octets it still has.         *)
LEMMA CutOctets ==
  ASSUME NEW p \in Seq(K!Byte), NEW q \in Seq(K!Byte), Starts(p, q), NEW n \in Nat, ~(Len(q) < n)
  PROVE  /\ ~(Len(p) < n) /\ \A i \in 1..n : q[i] = p[i]
         /\ K!From(p, n) \in Seq(K!Byte) /\ K!From(q, n) \in Seq(K!Byte)
         /\ Starts(K!From(p, n), K!From(q, n))
<1> DEFINE l == Len(p)
           m == Len(q)
<1>1. l \in Nat /\ m \in Nat /\ m <= l /\ n <= m /\ \A i \in 1..m : q[i] = p[i]
  BY DEF Starts
<1>2. n \in 0..l /\ n \in 0..m
  BY <1>1
<1>3. /\ K!From(p, n) \in Seq(K!Byte) /\ Len(K!From(p, n)) = l - n
      /\ \A i \in 1..l - n : K!From(p, n)[i] = p[n + i]
  BY <1>2, FromType
<1>4. /\ K!From(q, n) \in Seq(K!Byte) /\ Len(K!From(q, n)) = m - n
      /\ \A i \in 1..m - n : K!From(q, n)[i] = q[n + i]
  BY <1>2, FromType
<1> HIDE DEF l, m
<1>5. \A i \in 1..m - n : i \in 1..l - n /\ n + i \in 1..m
  BY <1>1
<1>6. m - n <= l - n
  BY <1>1
<1>7. Starts(K!From(p, n), K!From(q, n))
  BY <1>1, <1>3, <1>4, <1>5, <1>6 DEF Starts
<1>8. ~(l < n) /\ \A i \in 1..n : q[i] = p[i]
  BY <1>1
<1> QED
  BY <1>3, <1>4, <1>7, <1>8 DEF l

(* A part of it that was not cut.                                          *)
LEMMA CutPart ==
  ASSUME NEW p \in Seq(K!Byte), NEW q \in Seq(K!Byte), Starts(p, q),
         NEW a \in Nat, a >= 1, NEW b \in Nat, ~(Len(q) < b)
  PROVE  SubSeq(q, a, b) = SubSeq(p, a, b)
<1>1. Len(q) <= Len(p) /\ b <= Len(q) /\ \A i \in 1..Len(q) : q[i] = p[i]
  BY DEF Starts
<1> DEFINE n == IF a > b THEN 0 ELSE b - a + 1
<1>2. n \in Nat /\ (\A i \in 1..n : a + i - 1 \in 1..Len(q))
  BY <1>1
<1>3. /\ SubSeq(q, a, b) \in Seq(K!Byte) /\ Len(SubSeq(q, a, b)) = n
      /\ \A i \in 1..n : SubSeq(q, a, b)[i] = q[a + i - 1]
  BY <1>1
<1>4. /\ SubSeq(p, a, b) \in Seq(K!Byte) /\ Len(SubSeq(p, a, b)) = n
      /\ \A i \in 1..n : SubSeq(p, a, b)[i] = p[a + i - 1]
  BY <1>1
<1> HIDE DEF n
<1>5. \A i \in 1..n : SubSeq(q, a, b)[i] = SubSeq(p, a, b)[i]
  BY <1>1, <1>2, <1>3, <1>4, SMTT(30)
<1> QED
  BY <1>3, <1>4, <1>5, SameOctets

(* What starts a packet is a beginning of it.                              *)
LEMMA StartsIsBeginning ==
  ASSUME NEW p \in Seq(K!Byte), NEW q \in Seq(K!Byte), Starts(p, q)
  PROVE  \E k \in 0..Len(p) : q = SubSeq(p, 1, k)
<1>1. Len(q) \in 0..Len(p) /\ 1 \in Nat /\ Len(q) \in Nat /\ ~(Len(q) < Len(q))
  BY DEF Starts
<1>2. SubSeq(q, 1, Len(q)) = SubSeq(p, 1, Len(q))
  BY <1>1, CutPart
<1>3. SubSeq(q, 1, Len(q)) = q
  OBVIOUS
<1> QED
  BY <1>1, <1>2, <1>3

(* Host information is not read differently.                               *)
LEMMA CutHost ==
  ASSUME NEW p \in Seq(K!Byte), NEW q \in Seq(K!Byte), Starts(p, q),
         K!UnpackHostInfo(p).res = "ok", K!UnpackHostInfo(q).res = "ok"
  PROVE  /\ K!UnpackHostInfo(q).value = K!UnpackHostInfo(p).value
         /\ K!UnpackHostInfo(q).n = 8 /\ K!UnpackHostInfo(p).n = 8 /\ ~(Len(q) < 8)
<1>1. /\ ~(Len(q) < 8) /\ K!UnpackHostInfo(q).n = 8
      /\ K!UnpackHostInfo(q).value =
           [protocol |-> q[2], address |-> SubSeq(q, 3, 6), port |-> K!N16(q, 7)]
  BY HostRead
<1>2. /\ K!UnpackHostInfo(p).n = 8
      /\ K!UnpackHostInfo(p).value =
           [protocol |-> p[2], address |-> SubSeq(p, 3, 6), port |-> K!N16(p, 7)]
  BY HostRead
<1>3. \A i \in 1..8 : q[i] = p[i]
  BY <1>1, CutOctets
<1>4. SubSeq(q, 3, 6) = SubSeq(p, 3, 6)
  <2>1. 3 \in Nat /\ 3 >= 1 /\ 6 \in Nat /\ ~(Len(q) < 6)
    BY <1>1
  <2> QED
    BY <2>1, CutPart
<1>5. q[2] = p[2] /\ K!N16(q, 7) = K!N16(p, 7)
  BY <1>3 DEF K!N16
<1> QED
  BY <1>1, <1>2, <1>4, <1>5

(* Nor is additional information.                                          *)
LEMMA CutInfo ==
  ASSUME NEW p \in Seq(K!Byte), NEW q \in Seq(K!Byte), Starts(p, q),
         K!UnpackInfo(p).res = "ok", K!UnpackInfo(q).res = "ok"
  PROVE  K!UnpackInfo(q).value = K!UnpackInfo(p).value /\ K!UnpackInfo(q).n = K!UnpackInfo(p).n
<1>1. /\ Len(q) > 0 /\ q[1] \in K!Byte /\ q[1] + 1 <= Len(q)
      /\ K!UnpackInfo(q).value = SubSeq(q, 2, 1 + q[1]) /\ K!UnpackInfo(q).n = 1 + q[1]
  BY InfoRead
<1>2. K!UnpackInfo(p).value = SubSeq(p, 2, 1 + p[1]) /\ K!UnpackInfo(p).n = 1 + p[1]
  BY InfoRead
<1>3. q[1] = p[1]
  <2>1. ~(Len(q) < 1)
    BY <1>1
  <2> QED
    BY <2>1, CutOctets
<1>4. SubSeq(q, 2, 1 + q[1]) = SubSeq(p, 2, 1 + q[1])
  <2>1. 2 \in Nat /\ 2 >= 1 /\ 1 + q[1] \in Nat /\ ~(Len(q) < 1 + q[1])
    BY <1>1, OctetIsNumber
  <2> QED
    BY <2>1, CutPart
<1> QED
  BY <1>1, <1>2, <1>3, <1>4

(* Units that differ only in their data are the same without.              *)
LEMMA OtherData ==
  ASSUME NEW control, NEW numbered, NEW seq, NEW command, NEW d, NEW e, NEW none
  PROVE  [[control |-> control, numbered |-> numbered, seq |-> seq, command |-> command,
           data |-> d] EXCEPT !.data = none] =
         [[control |-> control, numbered |-> numbered, seq |-> seq, command |-> command,
           data |-> e] EXCEPT !.data = none]
OBVIOUS

(* The data of a transport unit that was cut end in zeros.                 *)
LEMMA CutUnitRead ==
  ASSUME NEW p \in Seq(K!Byte), NEW q \in Seq(K!Byte), Starts(p, q),
         K!UnpackUnit(p).res = "ok", K!UnpackUnit(q).res = "ok"
  PROVE  CutUnit(K!UnpackUnit(q).value, K!UnpackUnit(p).value)
<1> DEFINE u == K!UnpackUnit(q).value
           w == K!UnpackUnit(p).value
           data(s) == [i \in 1..s[1] |-> IF i + 2 > Len(s) THEN 0
                                         ELSE IF i = 1 THEN s[3] % 64 ELSE s[i + 2]]
<1>1. ~(Len(q) < 2)
  <2>1. Len(q) >= 2
    BY UnitRead
  <2> QED
    BY <2>1
<1>2. q[1] = p[1] /\ q[2] = p[2]
  BY <1>1, CutOctets
<1>3. (u.control <=> q[2] >= 128) /\ (w.control <=> p[2] >= 128)
  BY UnitRead
<1>4. CASE p[2] >= 128
  <2>1. /\ u = [control |-> TRUE, numbered |-> K!Numbered(q[2]), seq |-> K!SeqNumber(q[2]),
                command |-> q[2] % 4]
        /\ w = [control |-> TRUE, numbered |-> K!Numbered(p[2]), seq |-> K!SeqNumber(p[2]),
                command |-> p[2] % 4]
    BY <1>2, <1>4, UnitRead
  <2> QED
    BY <1>2, <2>1 DEF CutUnit
<1>5. CASE ~(p[2] >= 128)
  <2>1. /\ Len(q) >= 3 /\ q[1] + 2 >= Len(q) /\ q[1] \in K!Byte
        /\ u = [control |-> FALSE, numbered |-> K!Numbered(q[2]), seq |-> K!SeqNumber(q[2]),
                command |-> 4 * (q[2] % 4) + (q[3] \div 64), data |-> data(q)]
    BY <1>2, <1>5, UnitRead
  <2>2. w = [control |-> FALSE, numbered |-> K!Numbered(p[2]), seq |-> K!SeqNumber(p[2]),
             command |-> 4 * (p[2] % 4) + (p[3] \div 64), data |-> data(p)]
    BY <1>5, UnitRead
  <2>3. q[3] = p[3]
    <3>1. ~(Len(q) < 3)
      BY <2>1
    <3> QED
      BY <3>1, CutOctets
  <2>4. [u EXCEPT !.data = <<>>] = [w EXCEPT !.data = <<>>]
    <3> DEFINE number == K!Numbered(p[2])
               seq == K!SeqNumber(p[2])
               command == 4 * (p[2] % 4) + (p[3] \div 64)
               dq == data(q)
               dp == data(p)
               no == FALSE
    <3>1. /\ u = [control |-> no, numbered |-> number, seq |-> seq, command |-> command, data |-> dq]
          /\ w = [control |-> no, numbered |-> number, seq |-> seq, command |-> command, data |-> dp]
      BY <1>2, <2>1, <2>2, <2>3
    <3> HIDE DEF u, w, number, seq, command, dq, dp, no
    <3> QED
      BY <3>1, OtherData
  <2>5. u.data = data(q) /\ w.data = data(p)
    <3> HIDE DEF u, w, data
    <3> QED
      BY <2>1, <2>2
  <2> DEFINE n == p[1]
             k == Len(q) - 2
  <2>6. n \in Nat /\ k \in 0..n
    <3>1. q[1] \in Nat
      BY <2>1, OctetIsNumber
    <3>2. Len(q) \in Nat
      OBVIOUS
    <3> QED
      BY <1>2, <2>1, <3>1, <3>2
  <2>7. /\ \A i \in 1..n : i <= k => ~(i + 2 > Len(q)) /\ ~(i + 2 > Len(p)) /\ i + 2 \in 1..Len(q)
        /\ \A i \in 1..n : ~(i <= k) => i + 2 > Len(q)
    BY <2>6 DEF Starts
  <2>8. \A i \in 1..n : data(q)[i] = IF i <= k THEN data(p)[i] ELSE 0
    <3>1. \A i \in 1..n : i <= k => q[i + 2] = p[i + 2]
      BY <2>7 DEF Starts
    <3>2. \A i \in 1..n : data(q)[i] = IF i + 2 > Len(q) THEN 0
                                       ELSE IF i = 1 THEN q[3] % 64 ELSE q[i + 2]
      BY <1>2
    <3>3. \A i \in 1..n : data(p)[i] = IF i + 2 > Len(p) THEN 0
                                       ELSE IF i = 1 THEN p[3] % 64 ELSE p[i + 2]
      OBVIOUS
    <3> HIDE DEF data, n, k
    <3> QED
      BY <2>3, <2>7, <3>1, <3>2, <3>3
  <2>9. Len(data(q)) = n /\ Len(data(p)) = n
    <3>1. q[1] = n /\ p[1] = n
      BY <1>2
    <3> HIDE DEF n
    <3> QED
      BY <2>6, <3>1
  <2>10. Beginning(u.data, w.data)
    <3> HIDE DEF data, n, k
    <3> QED
      BY <2>5, <2>6, <2>8, <2>9 DEF Beginning
  <2>11. ~w.control
    BY <2>2
  <2> QED
    BY <2>4, <2>10, <2>11 DEF CutUnit
<1> QED
  BY <1>4, <1>5

-----------------------------------------------------------------------------
(* An L_Data frame that was cut keeps all but the end of its data.         *)
LEMMA CutLData ==
  ASSUME NEW type \in K!LDataTypes, NEW p \in Seq(K!Byte), NEW q \in Seq(K!Byte), Starts(p, q),
         K!UnpackLData(type, p).res = "ok", K!UnpackLData(type, q).res = "ok"
  PROVE  CutMessage(K!UnpackLData(type, q).value, K!UnpackLData(type, p).value)
<1> DEFINE i == K!UnpackInfo(q)
           n == i.n
           u == K!UnpackUnit(K!From(q, n + 6)).value
           w == K!UnpackUnit(K!From(p, n + 6)).value
           m == K!UnpackLData(type, q).value
           meant == K!UnpackLData(type, p).value
<1>1. /\ i.res = "ok" /\ n \in Nat /\ n + 6 <= Len(q) /\ K!UnpackUnit(K!From(q, n + 6)).res = "ok"
      /\ m = [type |-> type, info |-> i.value, control1 |-> q[n + 1], control2 |-> q[n + 2],
              source |-> K!N16(q, n + 3), destination |-> K!N16(q, n + 5), unit |-> u]
  BY LDataRead
<1> DEFINE j == K!UnpackInfo(p)
<1>2. /\ j.res = "ok" /\ K!UnpackUnit(K!From(p, j.n + 6)).res = "ok"
      /\ meant = [type |-> type, info |-> j.value, control1 |-> p[j.n + 1],
                  control2 |-> p[j.n + 2], source |-> K!N16(p, j.n + 3),
                  destination |-> K!N16(p, j.n + 5), unit |-> K!UnpackUnit(K!From(p, j.n + 6)).value]
  BY LDataRead
<1>3. j.value = i.value /\ j.n = n
  BY <1>1, <1>2, CutInfo
<1> HIDE DEF i, j, m, meant
<1> DEFINE k == n
<1> HIDE DEF k
<1>4. k \in Nat /\ k = n /\ k + 6 \in Nat /\ ~(Len(q) < k + 6)
  BY <1>1 DEF k
<1>5. /\ \A x \in 1..k + 6 : q[x] = p[x]
      /\ K!From(p, k + 6) \in Seq(K!Byte) /\ K!From(q, k + 6) \in Seq(K!Byte)
      /\ Starts(K!From(p, k + 6), K!From(q, k + 6))
  BY <1>4, CutOctets
<1>6. /\ q[k + 1] = p[k + 1] /\ q[k + 2] = p[k + 2] /\ q[k + 3] = p[k + 3] /\ q[k + 4] = p[k + 4]
      /\ q[k + 5] = p[k + 5] /\ q[k + 6] = p[k + 6]
  <2>1. /\ k + 1 \in 1..k + 6 /\ k + 2 \in 1..k + 6 /\ k + 3 \in 1..k + 6
        /\ k + 4 \in 1..k + 6 /\ k + 5 \in 1..k + 6 /\ k + 6 \in 1..k + 6
    BY <1>4, SMTT(30)
  <2>2. \A x \in 1..k + 6 : q[x] = p[x]
    BY <1>5
  <2> QED
    BY <2>1, <2>2
<1>7. K!N16(q, k + 3) = K!N16(p, k + 3) /\ K!N16(q, k + 5) = K!N16(p, k + 5)
  <2>1. k + 3 + 1 = k + 4 /\ k + 5 + 1 = k + 6
    BY <1>4
  <2> QED
    BY <1>6, <2>1 DEF K!N16
<1>8. CutUnit(u, w)
  BY <1>1, <1>2, <1>3, <1>4, <1>5, CutUnitRead
<1> HIDE DEF u, w
<1>9. /\ meant.type = type /\ m.unit = u /\ meant.unit = w
      /\ [m EXCEPT !.unit = meant.unit] = meant
  <2>1. meant = [type |-> type, info |-> i.value, control1 |-> q[k + 1], control2 |-> q[k + 2],
                 source |-> K!N16(q, k + 3), destination |-> K!N16(q, k + 5), unit |-> w]
    BY <1>2, <1>3, <1>4, <1>6, <1>7 DEF w
  <2>2. m = [type |-> type, info |-> i.value, control1 |-> q[k + 1], control2 |-> q[k + 2],
             source |-> K!N16(q, k + 3), destination |-> K!N16(q, k + 5), unit |-> u]
    BY <1>1, <1>4
  <2> QED
    BY <2>1, <2>2
<1> QED
  BY <1>8, <1>9 DEF CutMessage, m, meant

(* A message that was cut is of the same type.                             *)
LEMMA CutMessageRead ==
  ASSUME NEW p \in Seq(K!Byte), NEW q \in Seq(K!Byte), Starts(p, q),
         K!UnpackMessage(p).res = "ok", K!UnpackMessage(q).res = "ok"
  PROVE  CutMessage(K!UnpackMessage(q).value, K!UnpackMessage(p).value)
<1> DEFINE m == K!UnpackMessage(q).value
           meant == K!UnpackMessage(p).value
           b == K!From(q, 1)
           c == K!From(p, 1)
<1>1. ~(Len(q) < 1) /\ ~(Len(p) < 1)
  <2>1. Len(q) >= 1 /\ Len(p) >= 1
    BY MessageRead
  <2> QED
    BY <2>1
<1>2. q[1] = p[1] /\ b \in Seq(K!Byte) /\ c \in Seq(K!Byte) /\ Starts(c, b)
  BY <1>1, CutOctets
<1>3. \E k \in 0..Len(c) : b = SubSeq(c, 1, k)
  BY <1>2, StartsIsBeginning
<1>4. CASE \E t \in K!LDataTypes : K!CodeOf(t) = p[1]
  <2>1. PICK t \in K!LDataTypes : K!CodeOf(t) = p[1]
    BY <1>4
  <2> DEFINE l == K!UnpackLData(t, b)
             r == K!UnpackLData(t, c)
  <2>2. K!UnpackMessage(q) = IF l.res = "ok" THEN K!Got(l.value, 1 + l.n) ELSE l
    BY <1>1, <1>2, <2>1, MessageByCode
  <2>3. K!UnpackMessage(p) = IF r.res = "ok" THEN K!Got(r.value, 1 + r.n) ELSE r
    BY <1>1, <2>1, MessageByCode
  <2>4. l.res = "ok" /\ r.res = "ok"
    BY <2>2, <2>3
  <2>5. m = l.value /\ meant = r.value
    BY <2>2, <2>3, <2>4 DEF K!Got
  <2> QED
    BY <1>2, <2>4, <2>5, CutLData
<1>5. CASE \E t \in K!RawTypes : K!CodeOf(t) = p[1]
  <2>1. PICK t \in K!RawTypes : K!CodeOf(t) = p[1]
    BY <1>5
  <2>2. K!UnpackMessage(q) = K!Got([type |-> t, body |-> b], 1 + Len(b))
    BY <1>1, <1>2, <2>1, MessageByCode
  <2>3. K!UnpackMessage(p) = K!Got([type |-> t, body |-> c], 1 + Len(c))
    BY <1>1, <2>1, MessageByCode
  <2>4. m = [type |-> t, body |-> b] /\ meant = [type |-> t, body |-> c]
    BY <2>2, <2>3 DEF K!Got
  <2>5. t \notin K!LDataTypes
    BY <2>1, CodesDiffer
  <2> HIDE DEF m, meant, b, c
  <2>6. m.body = b /\ meant.body = c /\ meant.type = t /\ [m EXCEPT !.body = c] = meant
    BY <2>4
  <2>7. CutMessage(m, meant)
    BY <1>3, <2>5, <2>6 DEF CutMessage
  <2> QED
    BY <2>7 DEF m, meant
<1>6. CASE \A t \in K!LDataTypes \cup K!RawTypes : K!CodeOf(t) # p[1]
  <2>1. K!UnpackMessage(q) =
          K!Got([type |-> "Unsupported", code |-> q[1], body |-> b], 1 + Len(b))
    BY <1>1, <1>2, <1>6, MessageByCode
  <2>2. K!UnpackMessage(p) =
          K!Got([type |-> "Unsupported", code |-> p[1], body |-> c], 1 + Len(c))
    BY <1>1, <1>6, MessageByCode
  <2>3. /\ m = [type |-> "Unsupported", code |-> p[1], body |-> b]
        /\ meant = [type |-> "Unsupported", code |-> p[1], body |-> c]
    BY <1>2, <2>1, <2>2 DEF K!Got
  <2>4. "Unsupported" \notin K!LDataTypes
    BY DEF K!LDataTypes
  <2> HIDE DEF m, meant, b, c
  <2>5. /\ m.body = b /\ meant.body = c /\ meant.type = "Unsupported"
        /\ [m EXCEPT !.body = c] = meant
    BY <2>3
  <2>6. CutMessage(m, meant)
    BY <1>3, <2>4, <2>5 DEF CutMessage
  <2> QED
    BY <2>6 DEF m, meant
<1> QED
  BY <1>4, <1>5, <1>6

(* A device's block is not read differently.                               *)
LEMMA CutDevice ==
  ASSUME NEW p \in Seq(K!Byte), NEW q \in Seq(K!Byte), Starts(p, q),
         K!UnpackDevice(p, p).res = "ok", K!UnpackDevice(q, q).res = "ok"
  PROVE  /\ K!UnpackDevice(q, q).value = K!UnpackDevice(p, p).value
         /\ K!UnpackDevice(q, q).n = 54 /\ K!UnpackDevice(p, p).n = 54 /\ ~(Len(q) < 54)
<1>1. ASSUME NEW s, K!UnpackDevice(s, s).res = "ok"
      PROVE  /\ ~(Len(s) < 54) /\ K!UnpackDevice(s, s).n = 54
             /\ K!UnpackDevice(s, s).value =
                  [type |-> s[2], medium |-> s[3], status |-> s[4],
                   source |-> K!N16(s, 5), project |-> K!N16(s, 7),
                   serial |-> SubSeq(s, 9, 14), multicast |-> SubSeq(s, 15, 18),
                   hardware |-> SubSeq(s, 19, 24),
                   name |-> K!UnpackString(SubSeq(s, 25, 54))]
  <2>1. K!SizeDevice = 54
    BY DEF K!SizeDevice
  <2>2. ~(Len(s) < K!SizeDevice - K!NameWidth)
    BY <1>1 DEF K!UnpackDevice, K!Fails
  <2>3. ~(Len(s) < K!SizeDevice)
    BY <1>1, <2>2 DEF K!UnpackDevice, K!Outside
  <2>4. ~(s[1] # K!SizeDevice)
    BY <1>1, <2>2, <2>3 DEF K!UnpackDevice, K!Fails
  <2> QED
    BY <2>1, <2>2, <2>3, <2>4 DEF K!UnpackDevice, K!Got
<1>2. ~(Len(q) < 54)
  BY <1>1
<1>3. \A i \in 1..54 : q[i] = p[i]
  BY <1>2, CutOctets
<1>4. ASSUME NEW a \in 1..54, NEW b \in 1..54 PROVE SubSeq(q, a, b) = SubSeq(p, a, b)
  <2>1. a \in Nat /\ a >= 1 /\ b \in Nat /\ ~(Len(q) < b)
    BY <1>2
  <2> QED
    BY <2>1, CutPart
<1>5. K!N16(q, 5) = K!N16(p, 5) /\ K!N16(q, 7) = K!N16(p, 7)
  <2>1. q[5] = p[5] /\ q[6] = p[6] /\ q[7] = p[7] /\ q[8] = p[8]
    BY <1>3
  <2>2. 5 + 1 = 6 /\ 7 + 1 = 8
    OBVIOUS
  <2> QED
    BY <2>1, <2>2, Zenon DEF K!N16
<1>6. /\ SubSeq(q, 9, 14) = SubSeq(p, 9, 14) /\ SubSeq(q, 15, 18) = SubSeq(p, 15, 18)
      /\ SubSeq(q, 19, 24) = SubSeq(p, 19, 24) /\ SubSeq(q, 25, 54) = SubSeq(p, 25, 54)
  <2>1. /\ 9 \in 1..54 /\ 14 \in 1..54 /\ 15 \in 1..54 /\ 18 \in 1..54 /\ 19 \in 1..54
        /\ 24 \in 1..54 /\ 25 \in 1..54 /\ 54 \in 1..54
    OBVIOUS
  <2> QED
    BY <1>4, <2>1, Zenon
<1>7. q[2] = p[2] /\ q[3] = p[3] /\ q[4] = p[4]
  BY <1>3
<1>8. K!UnpackDevice(q, q).value = K!UnpackDevice(p, p).value
  BY <1>1, <1>5, <1>6, <1>7, ZenonT(30)
<1> QED
  BY <1>1, <1>2, <1>8

(* Nor are the families of its services.                                   *)
LEMMA CutServices ==
  ASSUME NEW p \in Seq(K!Byte), NEW q \in Seq(K!Byte), Starts(p, q),
         K!UnpackServices(p, <<>>).res = "ok", K!UnpackServices(q, <<>>).res = "ok"
  PROVE  K!UnpackServices(q, <<>>).value = K!UnpackServices(p, <<>>).value
<1> DEFINE count(s) == IF s[1] < 2 THEN 0 ELSE (s[1] - 1) \div 2
           read(s) == [i \in 1..count(s) |-> [type |-> s[2 * i + 1], version |-> s[2 * i + 2]]]
<1>1. ASSUME NEW s, K!UnpackServices(s, <<>>).res = "ok"
      PROVE  /\ ~(Len(s) < 2) /\ ~(Len(s) < 2 + 2 * count(s))
             /\ K!UnpackServices(s, <<>>).value =
                  [type |-> s[2], families |-> <<>> \o read(s)]
  <2>1. ~(Len(s) < 2)
    BY <1>1 DEF K!UnpackServices, K!Fails
  <2>2. ~(Len(s) < 2 + 2 * count(s) \/ s[1] # K!SizeServices(<<>> \o read(s)) % 256)
    BY <1>1, <2>1 DEF K!UnpackServices, K!Fails
  <2> QED
    BY <1>1, <2>1, <2>2 DEF K!UnpackServices, K!Got
<1>2. ~(Len(q) < 2) /\ ~(Len(q) < 2 + 2 * count(q))
  BY <1>1
<1>3. q[1] = p[1] /\ q[2] = p[2] /\ q[1] \in K!Byte
  <2>1. \A i \in 1..2 : q[i] = p[i]
    BY <1>2, CutOctets
  <2>2. q[1] \in K!Byte
    BY <1>2
  <2> QED
    BY <2>1, <2>2
<1>4. count(q) = count(p)
  BY <1>3
<1>5. count(q) \in Nat
  <2>1. q[1] \in Nat
    BY <1>3, OctetIsNumber
  <2> QED
    BY <2>1
<1> DEFINE n == count(q)
<1> HIDE DEF count
<1>6. \A i \in 1..n : q[2 * i + 1] = p[2 * i + 1] /\ q[2 * i + 2] = p[2 * i + 2]
  <2>1. \A i \in 1..Len(q) : q[i] = p[i]
    BY DEF Starts
  <2>2. \A i \in 1..n : 2 * i + 1 \in 1..Len(q) /\ 2 * i + 2 \in 1..Len(q)
    BY <1>2, <1>5
  <2> QED
    BY <2>1, <2>2
<1>7. read(q) = read(p)
  BY <1>4, <1>6
<1> HIDE DEF read
<1>8. K!UnpackServices(q, <<>>).value = [type |-> q[2], families |-> <<>> \o read(q)]
  BY <1>1
<1>9. K!UnpackServices(p, <<>>).value = [type |-> p[2], families |-> <<>> \o read(p)]
  BY <1>1
<1> QED
  BY <1>3, <1>7, <1>8, <1>9

-----------------------------------------------------------------------------
(* A body that was cut and is still read, but a description's.             *)
LEMMA CutBody ==
  ASSUME NEW s \in ServiceNames \ {"DescriptionRes"},
         NEW p \in Seq(K!Byte), NEW q \in Seq(K!Byte), Starts(p, q),
         K!UnpackBody(s, p).res = "ok", K!UnpackBody(s, q).res = "ok"
  PROVE  CutService(K!UnpackBody(s, q).value, K!UnpackBody(s, p).value)
<1> DEFINE v == K!UnpackBody(s, q).value
           meant == K!UnpackBody(s, p).value
<1>1. v.service = s /\ meant.service = s
  BY BodyRead
<1>2. ASSUME s \notin Carries, s # "Unknown", v = meant PROVE CutService(v, meant)
  BY <1>1, <1>2 DEF CutService
<1>3. CASE s = "SearchReq"
  <2>1. K!UnpackBody(s, p) = K!UnpackRequest(s, p) /\ K!UnpackBody(s, q) = K!UnpackRequest(s, q)
    BY <1>3, Decoders
  <2>2. /\ K!UnpackHostInfo(p).res = "ok" /\ K!UnpackHostInfo(q).res = "ok"
        /\ v = [service |-> s, control |-> K!UnpackHostInfo(q).value]
        /\ meant = [service |-> s, control |-> K!UnpackHostInfo(p).value]
    BY <2>1, RequestRead
  <2>3. v = meant
    BY <2>2, CutHost
  <2> QED
    BY <1>2, <1>3, <2>3 DEF Carries
<1>4. CASE s = "DescriptionReq"
  <2>1. K!UnpackBody(s, p) = K!UnpackRequest(s, p) /\ K!UnpackBody(s, q) = K!UnpackRequest(s, q)
    BY <1>4, Decoders
  <2>2. /\ K!UnpackHostInfo(p).res = "ok" /\ K!UnpackHostInfo(q).res = "ok"
        /\ v = [service |-> s, control |-> K!UnpackHostInfo(q).value]
        /\ meant = [service |-> s, control |-> K!UnpackHostInfo(p).value]
    BY <2>1, RequestRead
  <2>3. v = meant
    BY <2>2, CutHost
  <2> QED
    BY <1>2, <1>4, <2>3 DEF Carries
<1>5. CASE s = "SearchRes"
  <2> DEFINE h(x) == K!UnpackHostInfo(x)
             d(x) == K!UnpackDevice(K!From(x, h(x).n), K!From(x, h(x).n))
             f(x) == K!UnpackServices(K!From(x, h(x).n + d(x).n), <<>>)
  <2>1. K!UnpackBody(s, p) = K!UnpackSearchRes(p) /\ K!UnpackBody(s, q) = K!UnpackSearchRes(q)
    BY <1>5, Decoders
  <2>2. K!UnpackSearchRes(p).res = "ok" /\ K!UnpackSearchRes(q).res = "ok"
    BY <2>1
  <2>3. /\ h(q).res = "ok" /\ d(q).res = "ok" /\ f(q).res = "ok"
        /\ v = [service |-> "SearchRes", control |-> h(q).value, device |-> d(q).value,
                services |-> f(q).value]
    BY <2>1, <2>2, SearchResRead
  <2>4. /\ h(p).res = "ok" /\ d(p).res = "ok" /\ f(p).res = "ok"
        /\ meant = [service |-> "SearchRes", control |-> h(p).value, device |-> d(p).value,
                    services |-> f(p).value]
    BY <2>1, <2>2, SearchResRead
  <2>5. h(q).value = h(p).value /\ h(q).n = 8 /\ h(p).n = 8 /\ ~(Len(q) < 8)
    BY <2>3, <2>4, CutHost
  <2>6. /\ K!From(p, 8) \in Seq(K!Byte) /\ K!From(q, 8) \in Seq(K!Byte)
        /\ Starts(K!From(p, 8), K!From(q, 8)) /\ Len(K!From(q, 8)) = Len(q) - 8
    BY <2>5, CutOctets, OctetsThere
  <2>7. d(q) = K!UnpackDevice(K!From(q, 8), K!From(q, 8)) /\ d(p) = K!UnpackDevice(K!From(p, 8), K!From(p, 8))
    BY <2>5
  <2>8. d(q).value = d(p).value /\ d(q).n = 54 /\ d(p).n = 54 /\ ~(Len(K!From(q, 8)) < 54)
    BY <2>3, <2>4, <2>6, <2>7, CutDevice
  <2>9. ~(Len(q) < 62)
    BY <2>6, <2>8
  <2>10. /\ K!From(p, 62) \in Seq(K!Byte) /\ K!From(q, 62) \in Seq(K!Byte)
         /\ Starts(K!From(p, 62), K!From(q, 62))
    BY <2>9, CutOctets
  <2>11. f(q) = K!UnpackServices(K!From(q, 62), <<>>) /\ f(p) = K!UnpackServices(K!From(p, 62), <<>>)
    <3>1. h(q).n + d(q).n = 62 /\ h(p).n + d(p).n = 62
      BY <2>5, <2>8
    <3> QED
      BY <3>1
  <2>12. f(q).value = f(p).value
    BY <2>3, <2>4, <2>10, <2>11, CutServices
  <2>13. v = meant
    BY <2>3, <2>4, <2>5, <2>8, <2>12
  <2> QED
    BY <1>2, <1>5, <2>13 DEF Carries
<1>6. CASE s = "ConnReq"
  <2>1. K!UnpackBody(s, p) = K!UnpackConnReq(p) /\ K!UnpackBody(s, q) = K!UnpackConnReq(q)
    BY <1>6, Decoders
  <2>2. K!UnpackConnReq(p).res = "ok" /\ K!UnpackConnReq(q).res = "ok"
    BY <2>1
  <2>3. /\ ~(Len(q) < 20) /\ K!UnpackHostInfo(q).res = "ok" /\ K!UnpackHostInfo(K!From(q, 8)).res = "ok"
        /\ v = [service |-> "ConnReq", control |-> K!UnpackHostInfo(q).value,
                tunnel |-> K!UnpackHostInfo(K!From(q, 8)).value, layer |-> q[19]]
    BY <2>1, <2>2, ConnReqRead
  <2>4. /\ K!UnpackHostInfo(p).res = "ok" /\ K!UnpackHostInfo(K!From(p, 8)).res = "ok"
        /\ meant = [service |-> "ConnReq", control |-> K!UnpackHostInfo(p).value,
                    tunnel |-> K!UnpackHostInfo(K!From(p, 8)).value, layer |-> p[19]]
    BY <2>1, <2>2, ConnReqRead
  <2>5. q[19] = p[19]
    BY <2>3, CutOctets
  <2>6. /\ K!From(p, 8) \in Seq(K!Byte) /\ K!From(q, 8) \in Seq(K!Byte)
        /\ Starts(K!From(p, 8), K!From(q, 8))
    <3>1. 8 \in Nat /\ ~(Len(q) < 8)
      BY <2>3
    <3> QED
      BY <3>1, CutOctets
  <2>7. K!UnpackHostInfo(q).value = K!UnpackHostInfo(p).value
    BY <2>3, <2>4, CutHost
  <2>8. K!UnpackHostInfo(K!From(q, 8)).value = K!UnpackHostInfo(K!From(p, 8)).value
    BY <2>3, <2>4, <2>6, CutHost
  <2>9. v = meant
    BY <2>3, <2>4, <2>5, <2>7, <2>8
  <2> QED
    BY <1>2, <1>6, <2>9 DEF Carries
<1>7. CASE s = "ConnRes"
  <2>1. K!UnpackBody(s, p) = K!UnpackConnRes(p) /\ K!UnpackBody(s, q) = K!UnpackConnRes(q)
    BY <1>7, Decoders
  <2>2. K!UnpackConnRes(p).res = "ok" /\ K!UnpackConnRes(q).res = "ok"
    BY <2>1
  <2>3. /\ ~(Len(q) < 2)
        /\ q[2] # 0 => v = [service |-> "ConnRes", channel |-> q[1], status |-> q[2]]
        /\ q[2] = 0 =>
             /\ K!UnpackHostInfo(K!From(q, 2)).res = "ok"
             /\ v = [service |-> "ConnRes", channel |-> q[1], status |-> 0,
                     control |-> K!UnpackHostInfo(K!From(q, 2)).value]
    BY <2>1, <2>2, ConnResRead
  <2>4. /\ p[2] # 0 => meant = [service |-> "ConnRes", channel |-> p[1], status |-> p[2]]
        /\ p[2] = 0 =>
             /\ K!UnpackHostInfo(K!From(p, 2)).res = "ok"
             /\ meant = [service |-> "ConnRes", channel |-> p[1], status |-> 0,
                         control |-> K!UnpackHostInfo(K!From(p, 2)).value]
    BY <2>1, <2>2, ConnResRead
  <2>5. /\ q[1] = p[1] /\ q[2] = p[2] /\ K!From(p, 2) \in Seq(K!Byte) /\ K!From(q, 2) \in Seq(K!Byte)
        /\ Starts(K!From(p, 2), K!From(q, 2))
    BY <2>3, CutOctets
  <2>6. CASE q[2] # 0
    <3>1. v = meant
      BY <2>3, <2>4, <2>5, <2>6
    <3> QED
      BY <1>2, <1>7, <3>1 DEF Carries
  <2>7. CASE q[2] = 0
    <3>1. K!UnpackHostInfo(K!From(q, 2)).value = K!UnpackHostInfo(K!From(p, 2)).value
      BY <2>3, <2>4, <2>5, <2>7, CutHost
    <3>2. v = meant
      BY <2>3, <2>4, <2>5, <2>7, <3>1
    <3> QED
      BY <1>2, <1>7, <3>2 DEF Carries
  <2> QED
    BY <2>6, <2>7
<1>8. CASE s = "ConnStateReq" \/ s = "DiscReq"
  <2>1. K!UnpackBody(s, p) = K!UnpackControlled(s, p) /\ K!UnpackBody(s, q) = K!UnpackControlled(s, q)
    BY <1>8, Decoders
  <2>2. K!UnpackControlled(s, p).res = "ok" /\ K!UnpackControlled(s, q).res = "ok"
    BY <2>1
  <2>3. /\ ~(Len(q) < 2) /\ K!UnpackHostInfo(K!From(q, 2)).res = "ok"
        /\ v = [service |-> s, channel |-> q[1], status |-> q[2],
                control |-> K!UnpackHostInfo(K!From(q, 2)).value]
    BY <2>1, <2>2, ControlledRead
  <2>4. /\ K!UnpackHostInfo(K!From(p, 2)).res = "ok"
        /\ meant = [service |-> s, channel |-> p[1], status |-> p[2],
                    control |-> K!UnpackHostInfo(K!From(p, 2)).value]
    BY <2>1, <2>2, ControlledRead
  <2>5. /\ q[1] = p[1] /\ q[2] = p[2] /\ K!From(p, 2) \in Seq(K!Byte) /\ K!From(q, 2) \in Seq(K!Byte)
        /\ Starts(K!From(p, 2), K!From(q, 2))
    BY <2>3, CutOctets
  <2>6. K!UnpackHostInfo(K!From(q, 2)).value = K!UnpackHostInfo(K!From(p, 2)).value
    BY <2>3, <2>4, <2>5, CutHost
  <2>7. v = meant
    BY <2>3, <2>4, <2>5, <2>6
  <2> QED
    BY <1>2, <1>8, <2>7 DEF Carries
<1>9. CASE s = "ConnStateRes" \/ s = "DiscRes"
  <2>1. K!UnpackBody(s, p) = K!UnpackStatus(s, p) /\ K!UnpackBody(s, q) = K!UnpackStatus(s, q)
    BY <1>9, Decoders
  <2>2. /\ ~(Len(q) < 2) /\ v = [service |-> s, channel |-> q[1], status |-> q[2]]
        /\ meant = [service |-> s, channel |-> p[1], status |-> p[2]]
    BY <2>1, StatusRead
  <2>3. q[1] = p[1] /\ q[2] = p[2]
    BY <2>2, CutOctets
  <2>4. v = meant
    BY <2>2, <2>3
  <2> QED
    BY <1>2, <1>9, <2>4 DEF Carries
<1>10. CASE s = "TunnelReq"
  <2>1. K!UnpackBody(s, p) = K!UnpackTunnelReq(p) /\ K!UnpackBody(s, q) = K!UnpackTunnelReq(q)
    BY <1>10, Decoders
  <2> DEFINE m == K!UnpackMessage(K!From(q, 4))
             w == K!UnpackMessage(K!From(p, 4))
  <2>2. /\ ~(Len(q) < 4) /\ m.res = "ok" /\ w.res = "ok"
        /\ v = [service |-> "TunnelReq", channel |-> q[2], seq |-> q[3], payload |-> m.value]
        /\ meant = [service |-> "TunnelReq", channel |-> p[2], seq |-> p[3], payload |-> w.value]
    BY <2>1, TunnelReqRead
  <2>3. /\ q[2] = p[2] /\ q[3] = p[3] /\ K!From(p, 4) \in Seq(K!Byte) /\ K!From(q, 4) \in Seq(K!Byte)
        /\ Starts(K!From(p, 4), K!From(q, 4))
    BY <2>2, CutOctets
  <2>4. CutMessage(m.value, w.value)
    BY <2>2, <2>3, CutMessageRead
  <2> HIDE DEF v, meant, m, w
  <2>5. [v EXCEPT !.payload = meant.payload] = meant /\ v.payload = m.value /\ meant.payload = w.value
    <3> DEFINE a == p[2]
               b == p[3]
               x == m.value
               y == w.value
    <3>1. /\ v = [service |-> "TunnelReq", channel |-> a, seq |-> b, payload |-> x]
          /\ meant = [service |-> "TunnelReq", channel |-> a, seq |-> b, payload |-> y]
      BY <2>2, <2>3
    <3> HIDE DEF a, b, x, y
    <3>2. [v EXCEPT !.payload = meant.payload] = meant /\ v.payload = x /\ meant.payload = y
      BY <3>1
    <3> QED
      BY <3>2 DEF x, y
  <2>6. s \in Carries
    BY <1>10 DEF Carries
  <2>7. CutService(v, meant)
    BY <1>1, <2>4, <2>5, <2>6 DEF CutService
  <2> QED
    BY <2>7 DEF v, meant
<1>11. CASE s = "TunnelRes"
  <2>1. K!UnpackBody(s, p) = K!UnpackTunnelRes(p) /\ K!UnpackBody(s, q) = K!UnpackTunnelRes(q)
    BY <1>11, Decoders
  <2>2. /\ ~(Len(q) < 4)
        /\ v = [service |-> "TunnelRes", channel |-> q[2], seq |-> q[3], status |-> q[4]]
        /\ meant = [service |-> "TunnelRes", channel |-> p[2], seq |-> p[3], status |-> p[4]]
    BY <2>1, TunnelResRead
  <2>3. q[2] = p[2] /\ q[3] = p[3] /\ q[4] = p[4]
    BY <2>2, CutOctets
  <2>4. v = meant
    BY <2>2, <2>3
  <2> QED
    BY <1>2, <1>11, <2>4 DEF Carries
<1>12. CASE s = "RoutingInd"
  <2>1. K!UnpackBody(s, p) = K!UnpackRoutingInd(p) /\ K!UnpackBody(s, q) = K!UnpackRoutingInd(q)
    BY <1>12, Decoders
  <2> DEFINE m == K!UnpackMessage(q)
             w == K!UnpackMessage(p)
  <2>2. /\ m.res = "ok" /\ w.res = "ok"
        /\ v = [service |-> "RoutingInd", payload |-> m.value]
        /\ meant = [service |-> "RoutingInd", payload |-> w.value]
    BY <2>1, RoutingIndRead
  <2>3. CutMessage(m.value, w.value)
    BY <2>2, CutMessageRead
  <2> HIDE DEF v, meant, m, w
  <2>4. [v EXCEPT !.payload = meant.payload] = meant /\ v.payload = m.value /\ meant.payload = w.value
    BY <2>2
  <2>5. s \in Carries
    BY <1>12 DEF Carries
  <2>6. CutService(v, meant)
    BY <1>1, <2>3, <2>4, <2>5 DEF CutService
  <2> QED
    BY <2>6 DEF v, meant
<1>13. CASE s = "RoutingLost"
  <2>1. K!UnpackBody(s, p) = K!UnpackRoutingLost(p) /\ K!UnpackBody(s, q) = K!UnpackRoutingLost(q)
    BY <1>13, Decoders
  <2>2. K!UnpackRoutingLost(p).res = "ok" /\ K!UnpackRoutingLost(q).res = "ok"
    BY <2>1
  <2>3. /\ ~(Len(q) < 4)
        /\ v = [service |-> "RoutingLost", status |-> q[2], count |-> K!N16(q, 3)]
        /\ meant = [service |-> "RoutingLost", status |-> p[2], count |-> K!N16(p, 3)]
    BY <2>1, <2>2, RoutingLostRead
  <2>4. q[2] = p[2] /\ q[3] = p[3] /\ q[4] = p[4]
    BY <2>3, CutOctets
  <2>5. v = meant
    <3>1. 3 + 1 = 4
      OBVIOUS
    <3>2. K!N16(q, 3) = K!N16(p, 3)
      BY <2>4, <3>1, Zenon DEF K!N16
    <3> QED
      BY <2>3, <2>4, <3>2
  <2> QED
    BY <1>2, <1>13, <2>5 DEF Carries
<1>14. CASE s = "RoutingBusy"
  <2>1. K!UnpackBody(s, p) = K!UnpackRoutingBusy(p) /\ K!UnpackBody(s, q) = K!UnpackRoutingBusy(q)
    BY <1>14, Decoders
  <2>2. K!UnpackRoutingBusy(p).res = "ok" /\ K!UnpackRoutingBusy(q).res = "ok"
    BY <2>1
  <2>3. /\ ~(Len(q) < 6)
        /\ v = [service |-> "RoutingBusy", status |-> q[2], wait |-> K!N16(q, 3),
                busyControl |-> K!N16(q, 5)]
        /\ meant = [service |-> "RoutingBusy", status |-> p[2], wait |-> K!N16(p, 3),
                    busyControl |-> K!N16(p, 5)]
    BY <2>1, <2>2, RoutingBusyRead
  <2>4. q[2] = p[2] /\ q[3] = p[3] /\ q[4] = p[4] /\ q[5] = p[5] /\ q[6] = p[6]
    BY <2>3, CutOctets
  <2>5. v = meant
    <3>1. 3 + 1 = 4 /\ 5 + 1 = 6
      OBVIOUS
    <3>2. K!N16(q, 3) = K!N16(p, 3) /\ K!N16(q, 5) = K!N16(p, 5)
      BY <2>4, <3>1, Zenon DEF K!N16
    <3> QED
      BY <2>3, <2>4, <3>2
  <2> QED
    BY <1>2, <1>14, <2>5 DEF Carries
<1> QED
  BY <1>3, <1>4, <1>5, <1>6, <1>7, <1>8, <1>9, <1>10, <1>11, <1>12, <1>13, <1>14 DEF ServiceNames

-----------------------------------------------------------------------------
(* A packet that was cut and is still read, but a description.             *)
LEMMA CutPacket ==
  ASSUME NEW p \in Seq(K!Byte), NEW q \in Seq(K!Byte), Starts(p, q),
         K!Unpack(p).res = "ok", K!Unpack(q).res = "ok",
         K!Unpack(p).value.service # "DescriptionRes"
  PROVE  CutService(K!Unpack(q).value, K!Unpack(p).value)
<1> DEFINE id == K!N16(p, 3)
           b == K!From(q, 6)
           c == K!From(p, 6)
<1>1. /\ ~(Len(q) < 6) /\ K!UnpackHeader(q) = K!Got([id |-> K!N16(q, 3), total |-> K!N16(q, 5)], 6)
      /\ K!UnpackHeader(p) = K!Got([id |-> id, total |-> K!N16(p, 5)], 6)
  BY HeaderRead
<1>2. /\ q[3] = p[3] /\ q[4] = p[4]
      /\ b \in Seq(K!Byte) /\ c \in Seq(K!Byte) /\ Starts(c, b)
  BY <1>1, CutOctets
<1>3. K!N16(q, 3) = id
  <2>1. 3 + 1 = 4
    OBVIOUS
  <2> QED
    BY <1>2, <2>1, Zenon DEF K!N16
<1>4. CASE \E s \in ServiceNames : K!IDs[s] = id
  <2>1. PICK s \in ServiceNames : K!IDs[s] = id
    BY <1>4
  <2>2. K!Unpack(q) = K!UnpackBody(s, b) /\ K!Unpack(p) = K!UnpackBody(s, c)
    BY <1>1, <1>3, <2>1, PacketByID
  <2>3. s # "DescriptionRes"
    BY <1>2, <2>2, BodyRead
  <2> QED
    BY <1>2, <2>2, <2>3, CutBody
<1>5. CASE \A s \in ServiceNames : K!IDs[s] # id
  <2>1. K!Unpack(q) = K!Got([service |-> "Unknown", id |-> id, data |-> b], Len(b))
    BY <1>1, <1>3, <1>5, PacketByID
  <2>2. K!Unpack(p) = K!Got([service |-> "Unknown", id |-> id, data |-> c], Len(c))
    BY <1>1, <1>5, PacketByID
  <2>3. \E k \in 0..Len(c) : b = SubSeq(c, 1, k)
    BY <1>2, StartsIsBeginning
  <2> DEFINE v == K!Unpack(q).value
             meant == K!Unpack(p).value
  <2>4. /\ v = [service |-> "Unknown", id |-> id, data |-> b]
        /\ meant = [service |-> "Unknown", id |-> id, data |-> c]
    BY <2>1, <2>2 DEF K!Got
  <2> HIDE DEF v, meant, id, b, c
  <2>5. CutService(v, meant)
    BY <2>3, <2>4 DEF CutService, Carries
  <2> QED
    BY <2>5 DEF v, meant
<1> QED
  BY <1>4, <1>5

(* CutIsNoTelegram, for all packets but descriptions, whose decoder is a   *)
(* recursive function.                                                     *)
THEOREM CutIsNoTelegramCorrect ==
  Spec => [](item.value.service # "DescriptionRes" => CutIsNoTelegram)
<1>1. ASSUME PacketInv, item.value.service # "DescriptionRes" PROVE CutIsNoTelegram
  <2> SUFFICES ASSUME item.kind = "packet", damage = "cut", stage = "read", got.res = "ok"
               PROVE  CutService(got.value, Meant(item.value))
    BY DEF CutIsNoTelegram
  <2>1. wire.value \in Seq(K!Byte) /\ got = K!Unpack(wire.value)
    BY <1>1 DEF PacketInv
  <2>2. PICK w \in Seq(K!Byte) : Whole(w) /\ Starts(w, wire.value)
    BY <1>1 DEF PacketInv
  <2>3. K!Unpack(w).res = "ok" /\ K!Unpack(w).value = Meant(item.value)
    <3>1. item.made => item.value \in Services
      BY <1>1 DEF PacketInv
    <3> QED
      BY <2>2, <3>1, WholeArrives DEF ReadAs
  <2>4. Meant(item.value).service # "DescriptionRes"
    BY <1>1 DEF Meant, Carries
  <2> QED
    BY <2>1, <2>2, <2>3, <2>4, CutPacket
<1> QED
  BY <1>1, PacketInvCorrect, PTL
-----------------------------------------------------------------------------
(* The powers of two that numbers of two octets are scaled by.             *)
Powers == {1, 2, 4, 8, 16, 32, 64, 128, 256, 512, 1024, 2048, 4096, 8192, 16384, 32768}

(* They are those of an exponent of four bits.                             *)
LEMMA PowersOf ==
  /\ 2^0 = 1 /\ 2^1 = 2 /\ 2^2 = 4 /\ 2^3 = 8 /\ 2^4 = 16 /\ 2^5 = 32 /\ 2^6 = 64
  /\ 2^7 = 128 /\ 2^8 = 256 /\ 2^9 = 512 /\ 2^10 = 1024 /\ 2^11 = 2048 /\ 2^12 = 4096
  /\ 2^13 = 8192 /\ 2^14 = 16384 /\ 2^15 = 32768 /\ 2^24 = 16777216 /\ 2^25 = 33554432
OBVIOUS

(* An exponent of four bits.                                               *)
LEMMA PowerIn ==
  ASSUME NEW e \in 0..15
  PROVE  2^e \in Powers
<1>1. CASE e = 0
  BY <1>1, PowersOf DEF Powers
<1>2. CASE e = 1
  BY <1>2, PowersOf DEF Powers
<1>3. CASE e = 2
  BY <1>3, PowersOf DEF Powers
<1>4. CASE e = 3
  BY <1>4, PowersOf DEF Powers
<1>5. CASE e = 4
  BY <1>5, PowersOf DEF Powers
<1>6. CASE e = 5
  BY <1>6, PowersOf DEF Powers
<1>7. CASE e = 6
  BY <1>7, PowersOf DEF Powers
<1>8. CASE e = 7
  BY <1>8, PowersOf DEF Powers
<1>9. CASE e = 8
  BY <1>9, PowersOf DEF Powers
<1>10. CASE e = 9
  BY <1>10, PowersOf DEF Powers
<1>11. CASE e = 10
  BY <1>11, PowersOf DEF Powers
<1>12. CASE e = 11
  BY <1>12, PowersOf DEF Powers
<1>13. CASE e = 12
  BY <1>13, PowersOf DEF Powers
<1>14. CASE e = 13
  BY <1>14, PowersOf DEF Powers
<1>15. CASE e = 14
  BY <1>15, PowersOf DEF Powers
<1>16. CASE e = 15
  BY <1>16, PowersOf DEF Powers
<1> QED
  BY <1>1, <1>2, <1>3, <1>4, <1>5, <1>6, <1>7, <1>8,
     <1>9, <1>10, <1>11, <1>12, <1>13, <1>14, <1>15, <1>16

(* Dividing a number by another and multiplying it again.                  *)
Rescales(a, p) ==
  /\ a \div p \in Nat /\ (a \div p) * p \in Nat
  /\ (a \div p) * p <= a /\ a <= (a \div p) * p + (p - 1)
  /\ \A n \in Nat : a \div p <= n <=> a <= (n + 1) * p - 1

(* By a power of two.                                                      *)
LEMMA Rescaled ==
  ASSUME NEW a \in Nat, NEW p \in Powers
  PROVE  Rescales(a, p)
<1>1. CASE p = 1
  BY <1>1 DEF Rescales
<1>2. CASE p = 2
  BY <1>2 DEF Rescales
<1>3. CASE p = 4
  BY <1>3 DEF Rescales
<1>4. CASE p = 8
  BY <1>4 DEF Rescales
<1>5. CASE p = 16
  BY <1>5 DEF Rescales
<1>6. CASE p = 32
  BY <1>6 DEF Rescales
<1>7. CASE p = 64
  BY <1>7 DEF Rescales
<1>8. CASE p = 128
  BY <1>8 DEF Rescales
<1>9. CASE p = 256
  BY <1>9 DEF Rescales
<1>10. CASE p = 512
  BY <1>10 DEF Rescales
<1>11. CASE p = 1024
  BY <1>11 DEF Rescales
<1>12. CASE p = 2048
  BY <1>12 DEF Rescales
<1>13. CASE p = 4096
  BY <1>13 DEF Rescales
<1>14. CASE p = 8192
  BY <1>14 DEF Rescales
<1>15. CASE p = 16384
  BY <1>15 DEF Rescales
<1>16. CASE p = 32768
  BY <1>16 DEF Rescales
<1> QED
  BY <1>1, <1>2, <1>3, <1>4, <1>5, <1>6, <1>7, <1>8, <1>9, <1>10, <1>11, <1>12, <1>13,
     <1>14, <1>15, <1>16 DEF Powers

(* A power is a positive number.                                           *)
LEMMA PowerPositive ==
  ASSUME NEW e \in 0..15
  PROVE  2^e \in Nat /\ 2^e >= 1
<1> DEFINE p == 2^e
<1>1. p \in Powers
  BY PowerIn
<1> HIDE DEF p
<1>2. p \in Nat /\ p >= 1
  BY <1>1, SMT DEF Powers
<1> QED
  BY <1>2 DEF p

(* Halving cuts towards zero.                                              *)
LEMMA HalvedBounds ==
  ASSUME NEW h \in Int, NEW e \in 0..15
  PROVE  LET m == D!Halved(h, e)
             w == m * 2^e
         IN  /\ m \in Int /\ w \in Int /\ 2^e \in Nat /\ 2^e >= 1
             /\ h >= 0 => m >= 0 /\ 0 <= w /\ w <= h /\ h <= w + 2^e - 1
             /\ h < 0 => m <= 0 /\ h <= w /\ w <= 0 /\ w - 2^e + 1 <= h
<1> DEFINE p == 2^e
<1>1. p \in Powers
  BY PowerIn
<1>2. p \in Nat /\ p >= 1
  BY <1>1 DEF Powers
<1>3. D!Halved(h, e) = IF h >= 0 THEN h \div p ELSE -((-h) \div p)
  BY DEF D!Halved
<1> HIDE DEF p
<1>4. CASE h >= 0
  <2> DEFINE d == h \div p
  <2>1. h \in Nat
    BY <1>4
  <2>2. D!Halved(h, e) = d
    BY <1>3, <1>4
  <2>3. d \in Nat /\ d * p \in Nat /\ d * p <= h /\ h <= d * p + (p - 1)
    BY <1>1, <2>1, Rescaled DEF Rescales
  <2> HIDE DEF d
  <2> QED
    BY <1>2, <1>4, <2>1, <2>2, <2>3 DEF p
<1>5. CASE h < 0
  <2> DEFINE a == -h
             d == a \div p
  <2>1. a \in Nat
    BY <1>5
  <2>2. D!Halved(h, e) = -d
    BY <1>3, <1>5
  <2>3. d \in Nat /\ d * p \in Nat /\ d * p <= a /\ a <= d * p + (p - 1)
    BY <1>1, <2>1, Rescaled DEF Rescales
  <2>4. h = -a /\ a \in Int
    BY <2>1
  <2> HIDE DEF d, a
  <2>5. (-d) * p = -(d * p)
    BY <1>2, <2>3
  <2> QED
    BY <1>2, <1>5, <2>1, <2>2, <2>3, <2>4, <2>5 DEF p
<1> QED
  BY <1>4, <1>5

(* A number fits if eleven bits and a sign hold what halving leaves.       *)
Fits(c, e) == -2048 <= D!Halved(c, e) /\ D!Halved(c, e) <= 2047

(* Up to which number that is, which depends on its sign.                  *)
Size(c) == IF c >= 0 THEN c ELSE -c
Room(c) == IF c >= 0 THEN 2048 ELSE 2049

(* A number fits up to there.                                              *)
LEMMA FitsBounds ==
  ASSUME NEW c \in Int, NEW e \in 0..15
  PROVE  Fits(c, e) <=> Size(c) <= Room(c) * 2^e - 1
<1> DEFINE p == 2^e
<1>1. p \in Powers
  BY PowerIn
<1>2. p \in Nat /\ p >= 1
  BY <1>1 DEF Powers
<1>3. D!Halved(c, e) = IF c >= 0 THEN c \div p ELSE -((-c) \div p)
  BY DEF D!Halved
<1> HIDE DEF p
<1>4. CASE c >= 0
  <2>1. c \in Nat
    BY <1>4
  <2>2. c \div p \in Nat /\ (c \div p <= 2047 <=> c <= (2047 + 1) * p - 1)
    BY <1>1, <2>1, Rescaled DEF Rescales
  <2> QED
    BY <1>2, <1>3, <1>4, <2>2 DEF p, Fits, Size, Room
<1>5. CASE c < 0
  <2> DEFINE a == -c
             d == a \div p
  <2>1. a \in Nat
    BY <1>5
  <2>2. d \in Nat /\ (d <= 2048 <=> a <= (2048 + 1) * p - 1)
    BY <1>1, <2>1, Rescaled DEF Rescales
  <2>3. D!Halved(c, e) = -d
    BY <1>3, <1>5
  <2> HIDE DEF d
  <2> QED
    BY <1>2, <1>5, <2>2, <2>3 DEF p, Fits, Size, Room
<1> QED
  BY <1>4, <1>5

(* A non-empty set of small numbers has a least one.                       *)
LEMMA LeastOf ==
  ASSUME NEW T, T \subseteq Nat, T # {}
  PROVE  \E x \in T : \A y \in 0..x - 1 : y \notin T
<1>1. PICK x \in T : \A y \in T : <<y, x>> \notin OpToRel(<, Nat)
  BY NatLessThanWellFounded, WFMin
<1>2. ASSUME NEW y \in 0..x - 1, y \in T PROVE FALSE
  <2>1. x \in Nat /\ y \in Nat /\ y < x
    BY <1>2
  <2>2. <<y, x>> \in Nat \X Nat /\ <<y, x>>[1] = y /\ <<y, x>>[2] = x
    BY <2>1
  <2>3. <<y, x>> \in OpToRel(<, Nat)
    BY <2>1, <2>2, Zenon DEF OpToRel
  <2> QED
    BY <1>1, <1>2, <2>3
<1> QED
  BY <1>1, <1>2

(* The numbers that eleven bits and a sign can hold.                       *)
InF16(c) == c \in Int /\ -67108864 <= c /\ c <= 67076096

(* The exponent that packF16 finds.                                        *)
Exponent(c) == CHOOSE x \in 0..16 : Fits(c, x) /\ \A y \in 0..x - 1 : ~Fits(c, y)

(* It is the least that fits, and has four bits.                           *)
LEMMA ExponentIs ==
  ASSUME NEW c, InF16(c)
  PROVE  /\ Exponent(c) \in 0..15 /\ Fits(c, Exponent(c))
         /\ \A y \in 0..Exponent(c) - 1 : ~Fits(c, y)
<1>1. c \in Int /\ -67108864 <= c /\ c <= 67076096
  BY DEF InF16
<1>2. Fits(c, 15)
  <2>1. 2^15 = 32768
    BY PowersOf
  <2>2. 15 \in 0..15
    OBVIOUS
  <2> QED
    BY <1>1, <2>1, <2>2, FitsBounds, SMT DEF Size, Room
<1> DEFINE T == {x \in 0..15 : Fits(c, x)}
<1>3. PICK x \in T : \A y \in 0..x - 1 : y \notin T
  <2>1. T \subseteq Nat /\ 15 \in T
    BY <1>2
  <2> HIDE DEF T
  <2> QED
    BY <2>1, LeastOf
<1>4. x \in 0..15 /\ Fits(c, x) /\ \A y \in 0..x - 1 : ~Fits(c, y)
  BY <1>3
<1>5. /\ Exponent(c) \in 0..16 /\ Fits(c, Exponent(c))
      /\ \A y \in 0..Exponent(c) - 1 : ~Fits(c, y)
  <2>1. x \in 0..16
    BY <1>4
  <2> QED
    BY <1>4, <2>1 DEF Exponent
<1>6. Exponent(c) \in 0..15
  BY <1>2, <1>5
<1> QED
  BY <1>5, <1>6

(* A smaller number of the same sign has no larger exponent.               *)
LEMMA ExponentOrder ==
  ASSUME NEW c, InF16(c), NEW h, InF16(h), c >= 0 => 0 <= h /\ h <= c, c < 0 => c <= h /\ h <= 0
  PROVE  Exponent(h) <= Exponent(c)
<1> DEFINE e == Exponent(c)
<1>1. c \in Int /\ h \in Int
  BY DEF InF16
<1>2. e \in 0..15 /\ Fits(c, e)
  BY ExponentIs
<1>3. Exponent(h) \in 0..15 /\ \A y \in 0..Exponent(h) - 1 : ~Fits(h, y)
  BY ExponentIs
<1>4. Fits(h, e)
  <2> DEFINE p == 2^e
  <2>1. p \in Nat /\ p >= 1
    BY <1>1, <1>2, PowerPositive
  <2> HIDE DEF e
  <2>2. Size(c) <= Room(c) * p - 1
    BY <1>1, <1>2, FitsBounds, Zenon
  <2>3. Fits(h, e) <=> Size(h) <= Room(h) * p - 1
    BY <1>1, <1>2, FitsBounds, Zenon
  <2> HIDE DEF p
  <2>4. Size(h) <= Room(h) * p - 1
    BY <1>1, <2>1, <2>2, SMT DEF Size, Room
  <2> QED
    BY <2>3, <2>4
<1> HIDE DEF e
<1>5. ~(Exponent(h) > e)
  BY <1>2, <1>3, <1>4
<1> QED
  BY <1>2, <1>3, <1>5 DEF e

(* A power by its exponent.                                                *)
PowerAt(e, p) ==
  /\ e = 0 => p = 1
  /\ e = 1 => p = 2
  /\ e = 2 => p = 4
  /\ e = 3 => p = 8
  /\ e = 4 => p = 16
  /\ e = 5 => p = 32
  /\ e = 6 => p = 64
  /\ e = 7 => p = 128
  /\ e = 8 => p = 256
  /\ e = 9 => p = 512
  /\ e = 10 => p = 1024
  /\ e = 11 => p = 2048
  /\ e = 12 => p = 4096
  /\ e = 13 => p = 8192
  /\ e = 14 => p = 16384
  /\ e = 15 => p = 32768

(* The powers of two are these.                                            *)
LEMMA PowerCases ==
  ASSUME NEW e \in 0..15
  PROVE  PowerAt(e, 2^e)
<1>1. e = 0 => 2^e = 1
  BY PowersOf
<1>2. e = 1 => 2^e = 2
  BY PowersOf
<1>3. e = 2 => 2^e = 4
  BY PowersOf
<1>4. e = 3 => 2^e = 8
  BY PowersOf
<1>5. e = 4 => 2^e = 16
  BY PowersOf
<1>6. e = 5 => 2^e = 32
  BY PowersOf
<1>7. e = 6 => 2^e = 64
  BY PowersOf
<1>8. e = 7 => 2^e = 128
  BY PowersOf
<1>9. e = 8 => 2^e = 256
  BY PowersOf
<1>10. e = 9 => 2^e = 512
  BY PowersOf
<1>11. e = 10 => 2^e = 1024
  BY PowersOf
<1>12. e = 11 => 2^e = 2048
  BY PowersOf
<1>13. e = 12 => 2^e = 4096
  BY PowersOf
<1>14. e = 13 => 2^e = 8192
  BY PowersOf
<1>15. e = 14 => 2^e = 16384
  BY PowersOf
<1>16. e = 15 => 2^e = 32768
  BY PowersOf
<1> QED
  BY <1>1, <1>2, <1>3, <1>4, <1>5, <1>6, <1>7, <1>8,
     <1>9, <1>10, <1>11, <1>12, <1>13, <1>14, <1>15, <1>16, SMT DEF PowerAt

(* Powers of two are in the order of their exponents.                      *)
LEMMA PowerOrder ==
  ASSUME NEW e \in 0..15, NEW g \in 0..15, g <= e
  PROVE  2^e \in Nat /\ 2^g \in Nat /\ 2^g <= 2^e
<1> DEFINE p == 2^e
           r == 2^g
<1>1. p \in Nat /\ r \in Nat
  BY PowerPositive
<1>2. PowerAt(e, p) /\ PowerAt(g, r)
  BY PowerCases
<1> HIDE DEF p, r
<1>3. r <= p
  BY <1>1, <1>2, SMT DEF PowerAt
<1> QED
  BY <1>1, <1>3 DEF p, r

(* A number that fits is written with its exponent and its mantissa.       *)
LEMMA F16Octets ==
  ASSUME NEW h, InF16(h)
  PROVE  LET d == D!PackF16(h)
         IN  /\ Len(d) = 3 /\ (d[2] \div 8) % 16 = Exponent(h)
             /\ D!UnpackF16(d) = D!Halved(h, Exponent(h)) * 2^Exponent(h)
<1> DEFINE e == Exponent(h)
           m == D!Halved(h, e)
           t == IF m < 0 THEN m + 2048 ELSE m
           x == (IF m < 0 THEN 128 ELSE 0) + 8 * (e % 16) + (t \div 256)
           y == t % 256
           d == D!PackF16(h)
<1>1. h \in Int /\ ~(h > 67076096) /\ ~(h < -67108864)
  BY DEF InF16
<1>2. e \in 0..15 /\ Fits(h, e)
  BY ExponentIs
<1>3. d = <<0, x, y>>
  BY <1>1, SMT DEF D!PackF16, D!Largest, D!Smallest, Exponent, Fits
<1>4. m \in Int /\ -2048 <= m /\ m <= 2047
  <2> HIDE DEF e
  <2>1. h \in Int /\ e \in 0..15
    BY <1>1, <1>2, SMT
  <2>2. m \in Int
    BY <2>1, HalvedBounds, Zenon
  <2> QED
    BY <1>2, <2>2 DEF Fits
<1> HIDE DEF e, m, d
<1>5. t \in Int /\ 0 <= t /\ t <= 2047 /\ m = t - (IF m < 0 THEN 2048 ELSE 0)
  BY <1>4
<1> HIDE DEF t
<1>6. t \div 256 \in 0..7 /\ t % 256 \in 0..255 /\ t = (t \div 256) * 256 + (t % 256)
  BY <1>5
<1> DEFINE q == t \div 256
<1>7. q \in 0..7 /\ y \in 0..255 /\ t = q * 256 + y
  BY <1>6
<1>8. x = (IF m < 0 THEN 128 ELSE 0) + 8 * e + q
  BY <1>2
<1> HIDE DEF q, x, y
<1>9. (x \div 8) % 16 = e /\ x % 8 = q /\ (x >= 128 <=> m < 0)
  BY <1>2, <1>4, <1>7, <1>8
<1>10. Len(d) = 3 /\ d[2] = x /\ d[3] = y
  BY <1>3
<1>11. D!UnpackF16(d) = m * 2^e
  <2>1. D!UnpackF16(d) = (q * 256 + y - (IF m < 0 THEN 2048 ELSE 0)) * 2^e
    BY <1>9, <1>10 DEF D!UnpackF16
  <2>2. q * 256 + y - (IF m < 0 THEN 2048 ELSE 0) = m
    BY <1>5, <1>7
  <2> QED
    BY <2>1, <2>2
<1> QED
  BY <1>9, <1>10, <1>11 DEF d, m, e

(* The numbers between the limits of the types: a float32 may have rounded *)
(* them away from zero without leaving what two octets hold.               *)
InLimits(c) == c \in Int /\ -67076000 <= c /\ c <= 67076000

(* How much nearer to zero float32 may bring a number.                     *)
Below(a) == IF a = 0 THEN 0 ELSE IF D!FloatStep(a) = 0 THEN 1 ELSE D!FloatStep(a)

(* What float32 may take off a number is at most its resolution; it adds   *)
(* nothing to a small one.                                                 *)
LEMMA StepBounds ==
  ASSUME NEW c, InF16(c)
  PROVE  LET a == Size(c)
         IN  /\ Below(a) \in Nat /\ Below(a) <= a /\ Below(a) <= 2^Exponent(c)
             /\ D!FloatStep(a) \in 0..5 /\ (D!FloatStep(a) = 0 <=> a < 13107200)
<1> DEFINE e == Exponent(c)
           p == 2^e
           a == Size(c)
<1>1. c \in Int
  BY DEF InF16
<1>2. e \in 0..15 /\ Fits(c, e)
  BY ExponentIs
<1>3. p \in Nat /\ p >= 1
  BY <1>2, PowerPositive
<1>4. a \in Nat /\ a <= 2049 * p - 1
  <2> HIDE DEF e
  <2>1. Size(c) <= Room(c) * p - 1
    BY <1>1, <1>2, FitsBounds, Zenon
  <2> HIDE DEF p
  <2> QED
    BY <1>1, <1>3, <2>1, SMT DEF Size, Room
<1>5. D!FloatStep(a) = IF a < 13107200 THEN 0 ELSE IF a < 33554432 THEN 2 ELSE 5
  BY PowersOf, SMT DEF D!FloatStep
<1>6. Below(a) = IF a = 0 THEN 0 ELSE IF D!FloatStep(a) = 0 THEN 1 ELSE D!FloatStep(a)
  BY DEF Below
<1> HIDE DEF p, a
<1>7. D!FloatStep(a) \in 0..5 /\ (D!FloatStep(a) = 0 <=> a < 13107200)
  BY <1>4, <1>5, SMT
<1>8. Below(a) \in Nat /\ Below(a) <= a /\ Below(a) <= p
  BY <1>3, <1>4, <1>5, <1>6, SMT
<1> QED
  BY <1>7, <1>8 DEF a, p, e

(* The resolution of a number is the power of its exponent.                *)
LEMMA ResolutionIs ==
  ASSUME NEW c, InF16(c)
  PROVE  Resolution(c) = 2^Exponent(c)
BY F16Octets DEF Resolution

(* What float32 makes of a number is on the same side of zero and can be   *)
(* held.                                                                   *)
LEMMA FloatIs ==
  ASSUME NEW c, InLimits(c), NEW h \in D!Hundredths(c)
  PROVE  LET a == Size(c)
         IN  /\ InF16(c) /\ InF16(h) /\ Size(h) <= a + D!FloatStep(a)
             /\ c >= 0 => 0 <= h /\ c - Below(a) <= h /\ h <= c + D!FloatStep(a)
             /\ c < 0 => h <= 0 /\ h <= c + Below(a) /\ c - D!FloatStep(a) <= h
<1> DEFINE a == Size(c)
           s == D!FloatStep(a)
           b == Below(a)
<1>1. c \in Int /\ -67076000 <= c /\ c <= 67076000 /\ c # NaN
  BY FloatAssumption DEF InLimits
<1>2. InF16(c)
  BY <1>1, SMT DEF InF16
<1>3. b \in Nat /\ b <= a /\ s \in 0..5
  BY <1>2, StepBounds
<1>4. a = IF c >= 0 THEN c ELSE -c
  BY DEF Size
<1>5. D!Hundredths(c) = IF c >= 0 THEN (a - b)..(a + s) ELSE {-x : x \in (a - b)..(a + s)}
  <2>1. /\ c >= 0 => D!Hundredths(c) = D!FloatCut(c)
        /\ ~(c >= 0) => D!Hundredths(c) = {-x : x \in D!FloatCut(-c)}
    <3>1. c # NaN
      BY <1>1
    <3> QED
      BY <3>1, SMT DEF D!Hundredths
  <2>2. b = (IF a = 0 THEN 0 ELSE IF s = 0 THEN 1 ELSE s)
    BY Zenon DEF Below
  <2> HIDE DEF b, a
  <2>3. a \in Int
    BY <1>1, <1>4, SMT
  <2>4. D!FloatCut(a) = (IF a = 0 THEN 0 ELSE IF s = 0 THEN a - 1 ELSE a - s)..(a + s)
    BY Zenon DEF D!FloatCut
  <2> HIDE DEF s
  <2>5. D!FloatCut(a) = (a - b)..(a + s)
    BY <1>3, <2>2, <2>3, <2>4, SMT
  <2>6. CASE c >= 0
    <3>1. a = c
      BY <1>4, <2>6
    <3> QED
      BY <2>1, <2>5, <2>6, <3>1, Zenon
  <2>7. CASE ~(c >= 0)
    <3>1. a = -c
      BY <1>4, <2>7
    <3> QED
      BY <2>1, <2>5, <2>7, <3>1, Zenon
  <2> QED
    BY <2>6, <2>7
<1> HIDE DEF a, s, b
<1>6. /\ h \in Int
      /\ c >= 0 => 0 <= h /\ c - b <= h /\ h <= c + s
      /\ c < 0 => h <= 0 /\ h <= c + b /\ c - s <= h
  BY <1>1, <1>3, <1>4, <1>5, SMT
<1>7. InF16(h)
  BY <1>1, <1>3, <1>6, SMT DEF InF16
<1>8. Size(h) <= a + s
  BY <1>1, <1>3, <1>4, <1>6, SMT DEF Size
<1> QED
  BY <1>2, <1>6, <1>7, <1>8 DEF a, s, b

(* The next power is twice as large.                                       *)
LEMMA NextPower ==
  ASSUME NEW e \in 0..14
  PROVE  2^(e + 1) = 2 * 2^e
<1> DEFINE g == e + 1
           p == 2^e
           r == 2^g
<1>1. e \in 0..15 /\ g \in 0..15
  OBVIOUS
<1>2. PowerAt(e, p) /\ PowerAt(g, r)
  BY <1>1, PowerCases
<1> HIDE DEF p, r
<1>3. r = 2 * p
  BY <1>2, SMT DEF PowerAt
<1> QED
  BY <1>3 DEF g, p, r

(* The resolution of a number that was rounded up is not more than twice   *)
(* as coarse.                                                              *)
LEMMA RoundedResolution ==
  ASSUME NEW c, InLimits(c), NEW h \in D!Hundredths(c)
  PROVE  2^Exponent(h) <= 2 * 2^Exponent(c)
<1> DEFINE e == Exponent(c)
           g == Exponent(h)
           x == IF e = 15 THEN 15 ELSE e + 1
           p == 2^e
           q == 2^x
<1>1. InF16(c) /\ InF16(h) /\ Size(h) <= Size(c) + D!FloatStep(Size(c))
  BY FloatIs
<1>2. c \in Int /\ h \in Int /\ -67076000 <= c /\ c <= 67076000
  BY <1>1, SMT DEF InF16, InLimits
<1>3. e \in 0..15 /\ Fits(c, e) /\ g \in 0..15 /\ \A y \in 0..g - 1 : ~Fits(h, y)
  BY <1>1, ExponentIs
<1> HIDE DEF e, g
<1>4. x \in 0..15
  BY <1>3
<1>5. p \in Nat /\ p >= 1 /\ (e = 15 => p = 32768)
  <2>1. p \in Nat /\ p >= 1
    BY <1>3, PowerPositive, Zenon
  <2>2. e = 15 => p = 32768
    <3>1. ASSUME e = 15 PROVE p = 2^15
      BY <3>1
    <3> QED
      BY <3>1, PowersOf, SMT
  <2> QED
    BY <2>1, <2>2, SMT
<1>6. IF e = 15 THEN q = p ELSE q = 2 * p
  <2>1. CASE e = 15
    BY <2>1
  <2>2. CASE e # 15
    <3>1. e \in 0..14 /\ x = e + 1
      BY <1>3, <2>2
    <3> QED
      BY <2>2, <3>1, NextPower, Zenon
  <2> QED
    BY <2>1, <2>2
<1>7. Size(c) <= Room(c) * p - 1
  <2>1. c \in Int
    BY <1>2
  <2> QED
    BY <1>3, <2>1, FitsBounds, Zenon
<1>8. Fits(h, x) <=> Size(h) <= Room(h) * q - 1
  <2>1. h \in Int
    BY <1>2
  <2> QED
    BY <1>4, <2>1, FitsBounds, Zenon
<1>9. D!FloatStep(Size(c)) \in 0..5 /\ Size(h) \in Nat
  BY <1>1, <1>2, StepBounds, SMT DEF Size
<1> HIDE DEF p, q
<1>10. Size(h) <= Room(h) * q - 1
  <2>1. Room(h) \in 2048..2049 /\ Room(c) \in 2048..2049
    BY DEF Room
  <2>2. Size(c) \in Nat /\ Size(c) <= 67076000
    BY <1>2, SMT DEF Size
  <2>3. Size(h) <= Size(c) + 5
    BY <1>1, <1>9, <2>2, SMT
  <2>4. CASE e = 15
    <3> DEFINE to == Room(h) * q
    <3>1. to \in Int /\ to >= 67108864
      BY <1>5, <1>6, <2>1, <2>4, SMT
    <3> HIDE DEF to
    <3>2. Size(h) <= to - 1
      BY <1>9, <2>2, <2>3, <3>1, SMT
    <3> QED
      BY <3>2 DEF to
  <2>5. CASE e # 15
    <3> DEFINE from == Room(c) * p
               to == Room(h) * q
    <3>1. from <= 2049 * p /\ to >= 4096 * p /\ from \in Int /\ to \in Int
      BY <1>5, <1>6, <2>1, <2>5, SMT
    <3>2. Size(c) <= from - 1
      BY <1>7
    <3> HIDE DEF from, to
    <3>3. Size(h) <= to - 1
      BY <1>5, <1>9, <2>2, <2>3, <3>1, <3>2, SMT
    <3> QED
      BY <3>3 DEF to
  <2> QED
    BY <2>4, <2>5
<1>11. g <= x
  BY <1>3, <1>4, <1>8, <1>10
<1>12. 2^g <= q /\ q \in Nat /\ 2^g \in Nat
  BY <1>3, <1>4, <1>11, PowerOrder DEF q
<1> DEFINE r == 2^g
<1> HIDE DEF r
<1>13. r <= 2 * p
  BY <1>5, <1>6, <1>12, SMT DEF r
<1> QED
  BY <1>13 DEF r, p, e, g

(* A number that was made a float, and then cut to its mantissa, is less   *)
(* than two steps from what it was, and only a large one farther from      *)
(* zero, but still in the limits.                                          *)
LEMMA F16Arrives ==
  ASSUME NEW c, InLimits(c), NEW h \in D!Hundredths(c)
  PROVE  LET w == D!UnpackF16(D!PackF16(h))
             loss == IF c >= 0 THEN c - w ELSE w - c
         IN  /\ Len(D!PackF16(h)) = 3 /\ InLimits(w)
             /\ loss \in -D!FloatStep(Size(c))..2 * Resolution(c) - 1
             /\ c >= 0 => 0 <= w /\ (w <= c \/ c >= 13107200)
             /\ c < 0 => w <= 0 /\ (c <= w \/ c <= -13107200)
<1> DEFINE w == D!UnpackF16(D!PackF16(h))
           e == Exponent(c)
           g == Exponent(h)
           m == D!Halved(h, g)
           p == 2^e
           r == 2^g
           a == Size(c)
           s == D!FloatStep(a)
           b == Below(a)
<1>1. c \in Int /\ -67076000 <= c /\ c <= 67076000 /\ a = IF c >= 0 THEN c ELSE -c
  BY DEF InLimits, Size
<1>2. InF16(c) /\ InF16(h) /\ h \in Int
  BY FloatIs DEF InF16
<1>3. b \in Nat /\ b <= a /\ b <= p /\ s \in 0..5 /\ (s = 0 <=> a < 13107200)
  BY <1>2, StepBounds
<1>4. /\ c >= 0 => 0 <= h /\ c - b <= h /\ h <= c + s
      /\ c < 0 => h <= 0 /\ h <= c + b /\ c - s <= h
  BY FloatIs
<1>5. e \in 0..15 /\ g \in 0..15 /\ Fits(h, g)
  BY <1>2, ExponentIs
<1>6. w = m * r /\ Len(D!PackF16(h)) = 3
  BY <1>2, F16Octets
<1>7. /\ m \in Int /\ w \in Int /\ r \in Nat /\ r >= 1
      /\ h >= 0 => 0 <= w /\ w <= h /\ h <= w + r - 1
      /\ h < 0 => h <= w /\ w <= 0 /\ w - r + 1 <= h
  BY <1>2, <1>5, <1>6, HalvedBounds
<1>8. p \in Nat /\ p >= 1 /\ r <= 2 * p
  BY <1>5, PowerPositive, RoundedResolution
<1>9. (c >= 0 => h <= c) /\ (c < 0 => c <= h) => r <= p
  <2>1. c >= 0 => 0 <= h
    BY <1>4
  <2>2. c < 0 => h <= 0
    BY <1>4
  <2> QED
    BY <1>2, <1>5, <2>1, <2>2, ExponentOrder, PowerOrder, Zenon
<1>10. Resolution(c) = p
  BY <1>2, ResolutionIs
<1>11. -2048 <= m /\ m <= 2047 /\ PowerAt(g, r)
  <2>1. -2048 <= m /\ m <= 2047
    BY <1>5, SMT DEF Fits
  <2>2. PowerAt(g, r)
    BY <1>5, PowerCases, Zenon
  <2> QED
    BY <2>1, <2>2
<1> HIDE DEF w, p, r, e, g, a, s, b, m
<1>12. w <= 67076000 /\ -67076000 <= w
  <2>1. h <= 67076005 /\ -67076005 <= h
    BY <1>1, <1>2, <1>3, <1>4, SMT
  <2>2. CASE g = 15
    <3>1. w = m * 32768
      BY <1>6, <1>11, <2>2, SMT DEF PowerAt
    <3> QED
      BY <1>2, <1>7, <2>1, <3>1, SMT
  <2>3. CASE g # 15
    <3>1. r <= 16384
      BY <1>5, <1>11, <2>3, SMT DEF PowerAt
    <3>2. m * r <= 2047 * r /\ -2048 * r <= m * r
      BY <1>7, <1>11, SMT
    <3> QED
      BY <1>6, <1>7, <3>1, <3>2, SMT
  <2> QED
    BY <2>2, <2>3
<1>13. /\ c >= 0 => 0 <= w /\ w <= c + s /\ c - w <= 2 * p - 1
       /\ c < 0 => c - s <= w /\ w <= 0 /\ w - c <= 2 * p - 1
  BY <1>1, <1>2, <1>3, <1>4, <1>7, <1>8, <1>9, SMT
<1>14. (IF c >= 0 THEN c - w ELSE w - c) \in -s..2 * p - 1
  BY <1>1, <1>3, <1>7, <1>8, <1>13, SMT
<1>15. /\ c >= 0 => w <= c \/ c >= 13107200
       /\ c < 0 => c <= w \/ c <= -13107200
  BY <1>1, <1>3, <1>7, <1>13, SMT
<1> QED
  BY <1>6, <1>7, <1>10, <1>12, <1>13, <1>14, <1>15 DEF w, s, a, InLimits
-----------------------------------------------------------------------------
(* The limits of a type are numbers on both sides of zero.  A type whose   *)
(* limit is beyond what float32 has the hundredths of has the widest one.  *)
LEMMA LimitsAre ==
  ASSUME NEW id
  PROVE  LET l == D!Limits(id)
         IN  /\ l[1] \in Int /\ l[2] \in Int /\ l[1] <= 0 /\ 0 <= l[2]
             /\ -67076000 <= l[1] /\ l[2] = 67076000
             /\ l[1] >= -45960 \/ l[1] = -67076000
<1> DEFINE l == D!Limits(id)
<1>1. \/ l = <<-27300, 67076000>> \/ l = <<-45960, 67076000>>
      \/ l = <<0, 67076000>> \/ l = <<-67076000, 67076000>>
  BY SMT DEF D!Limits
<1> HIDE DEF l
<1>2. /\ l[1] \in Int /\ l[2] \in Int /\ l[1] <= 0 /\ 0 <= l[2]
      /\ -67076000 <= l[1] /\ l[2] = 67076000
      /\ l[1] >= -45960 \/ l[1] = -67076000
  BY <1>1, SMT
<1> QED
  BY <1>2, SMT DEF l

(* A value that was brought into the limits is in them, and can be held.   *)
LEMMA LimitedIs ==
  ASSUME NEW id, NEW v \in Int
  PROVE  LET l == D!Limits(id)
             c == D!Limited(v, l)
         IN  InLimits(c) /\ l[1] <= c /\ c <= l[2]
<1> DEFINE l == D!Limits(id)
           c == D!Limited(v, l)
<1>1. /\ l[1] \in Int /\ l[2] \in Int /\ l[1] <= 0 /\ 0 <= l[2]
      /\ -67076000 <= l[1] /\ l[2] = 67076000
  BY LimitsAre, SMT
<1>2. v # NaN
  BY FloatAssumption
<1>3. c = IF v <= l[1] THEN l[1] ELSE IF v >= l[2] THEN l[2] ELSE v
  BY <1>2, SMT DEF D!Limited
<1> HIDE DEF l, c
<1>4. c \in Int /\ -67076000 <= c /\ c <= 67076000 /\ l[1] <= c /\ c <= l[2]
  BY <1>1, <1>3, SMT
<1> QED
  BY <1>4, SMT DEF InLimits, l, c

(* Floats, which may be no number.                                         *)
Floats == {"Scaled", "F16"}

(* A value of a type that can be sent: an invalid date and time cannot,    *)
(* and what is no number is not sent as it is.                             *)
Sendable(id, v) ==
  /\ v \in D!ValuesOf(D!FormatOf(id))
  /\ D!FormatOf(id) = "DateTime" => D!DateTimeValid(v)
  /\ D!FormatOf(id) \in Floats => v \in Int

(* What Unpack makes of what Pack made: a value near the one that was      *)
(* meant, which can be sent again.                                         *)
ReadNear(id, v, data) ==
  LET r == D!Unpack(id, data)
  IN  r.res = "ok" /\ Near(id, v, r.value) /\ Sendable(id, r.value)

(* It is read near if it is read as a value that is near.                  *)
LEMMA NearRead ==
  ASSUME NEW id, NEW v, NEW data, NEW w, NEW n, D!Unpack(id, data) = D!Got(w, n),
         Near(id, v, w), Sendable(id, w)
  PROVE  ReadNear(id, v, data)
<1>1. D!Unpack(id, data).res = "ok" /\ D!Unpack(id, data).value = w
  BY DEF D!Got
<1> QED
  BY <1>1, Zenon DEF ReadNear

(* A bit, a number of one octet.                                           *)
LEMMA SmallArrives ==
  ASSUME NEW id, NEW v,
         \/ D!FormatOf(id) = "B1" /\ v \in {0, 1}
         \/ D!FormatOf(id) = "U8" /\ v \in K!Byte
         \/ D!FormatOf(id) = "V8" /\ v \in -128..127,
         NEW data \in D!Pack(id, v)
  PROVE  ReadNear(id, v, data)
<1>1. CASE D!FormatOf(id) = "B1" /\ v \in {0, 1}
  <2>1. data = <<v>>
    BY <1>1 DEF D!Pack, D!U8
  <2>2. D!Unpack(id, data) = D!Got(v, 1)
    BY <1>1, <2>1 DEF D!Unpack, D!Width
  <2> QED
    BY <1>1, <2>2, SameWords DEF ReadNear, Sendable, Floats, D!ValuesOf, D!Got, Near
<1>2. CASE D!FormatOf(id) = "U8" /\ v \in K!Byte
  <2>1. data = <<0, v>>
    BY <1>2 DEF D!Pack, D!U8, K!Byte
  <2>2. D!Unpack(id, data) = D!Got(v, 2)
    BY <1>2, <2>1 DEF D!Unpack, D!Width
  <2> QED
    BY <1>2, <2>2, SameWords DEF ReadNear, Sendable, Floats, D!ValuesOf, D!Got, Near
<1>3. CASE D!FormatOf(id) = "V8" /\ v \in -128..127
  <2>1. data = <<0, v % 256>>
    BY <1>3 DEF D!Pack, D!U8
  <2>2. D!S8(v % 256) = v
    BY <1>3 DEF D!S8
  <2>3. D!Unpack(id, data) = D!Got(v, 2)
    BY <1>3, <2>1, <2>2 DEF D!Unpack, D!Width
  <2> QED
    BY <1>3, <2>3, SameWords DEF ReadNear, Sendable, Floats, D!ValuesOf, D!Got, Near
<1> QED
  BY <1>1, <1>2, <1>3

(* A fraction is cut to 255ths, and may lose one.                          *)
LEMMA ScaledArrives ==
  ASSUME NEW id, D!FormatOf(id) = "Scaled", NEW v \in Int, NEW data \in D!Pack(id, v)
  PROVE  ReadNear(id, v, data)
<1>1. PICK n \in D!ScaledOctets(v) : data = <<0, n>>
  BY DEF D!Pack
<1>2. D!Unpack(id, data) = D!Got(n, 2)
  BY <1>1 DEF D!Unpack, D!Width
<1>3. v # NaN
  BY FloatAssumption
<1>4. D!ScaledOctets(v) = IF v <= 0 THEN {0} ELSE IF v >= 255 THEN {255} ELSE {v, v - 1}
  BY <1>3 DEF D!ScaledOctets
<1>5. Near(id, v, n)
  BY <1>1, <1>3, <1>4 DEF Near
<1>6. Sendable(id, n)
  BY <1>1, <1>4 DEF Sendable, Floats, D!ValuesOf
<1> QED
  BY <1>2, <1>5, <1>6, NearRead

(* A scene that is none is the last one.                                   *)
LEMMA SceneArrives ==
  ASSUME NEW id, D!FormatOf(id) \in {"Scene", "SceneControl"}, NEW v \in K!Byte,
         NEW data \in D!Pack(id, v)
  PROVE  ReadNear(id, v, data)
<1> DEFINE f == D!FormatOf(id)
           n == IF D!InScenes(v, f) THEN v ELSE 63
<1>1. data = <<0, n>>
  BY DEF D!Pack
<1>2. D!InScenes(n, f)
  BY DEF D!InScenes
<1>3. D!Unpack(id, data) = D!Got(n, 2)
  BY <1>1, <1>2 DEF D!Unpack, D!Width
<1>4. Near(id, v, n)
  BY DEF Near
<1>5. n \in D!Byte
  BY DEF K!Byte, D!Byte
<1> HIDE DEF n
<1>6. Sendable(id, n)
  BY <1>5 DEF Sendable, Floats, D!ValuesOf
<1> QED
  BY <1>3, <1>4, <1>6, NearRead

(* A number of two octets without an exponent.                             *)
LEMMA WordArrives ==
  ASSUME NEW id, D!FormatOf(id) = "U16", NEW v \in K!Word, NEW data \in D!Pack(id, v)
  PROVE  ReadNear(id, v, data)
<1> DEFINE x == (v \div 256) % 256
           y == v % 256
<1>1. data = <<0, x, y>>
  BY DEF D!Pack, D!U16
<1>2. x * 256 + y = v
  BY WordOctets
<1> HIDE DEF x, y
<1>3. D!Unpack(id, data) = D!Got(v, 3)
  BY <1>1, <1>2 DEF D!Unpack, D!Width, D!N16
<1>4. Near(id, v, v)
  BY DEF Near
<1>5. Sendable(id, v)
  <2>1. D!ValuesOf("U16") = K!Word
    BY SameWords DEF D!ValuesOf
  <2> QED
    BY <2>1, Zenon DEF Sendable, Floats
<1> QED
  BY <1>3, <1>4, <1>5, NearRead

(* A number without its last octet.                                        *)
LEMMA Quotient ==
  ASSUME NEW v \in Int
  PROVE  v \div 256 \in Int /\ v = (v \div 256) * 256 + (v % 256) /\ v % 256 \in 0..255
BY SMT

(* A number without its last two octets, and without its last three.       *)
LEMMA QuotientIs ==
  ASSUME NEW v \in Int, NEW q \in Int, NEW r \in Int, 0 <= r
  PROVE  /\ r < 65536 /\ v = q * 65536 + r => v \div 65536 = q
         /\ r < 16777216 /\ v = q * 16777216 + r => v \div 16777216 = q
<1>1. ASSUME r < 65536, v = q * 65536 + r PROVE v \div 65536 = q
  BY <1>1, SMT
<1>2. ASSUME r < 16777216, v = q * 16777216 + r PROVE v \div 16777216 = q
  BY <1>2, SMT
<1> QED
  BY <1>1, <1>2

(* The four octets of a number of 32 bits, highest first.                  *)
LEMMA LongOctets ==
  ASSUME NEW v \in D!Long
  PROVE  LET a == (v \div 16777216) % 256
             b == (v \div 65536) % 256
             c == (v \div 256) % 256
             d == v % 256
         IN  D!S8(a) * 16777216 + b * 65536 + c * 256 + d = v
<1> DEFINE q == v \div 256
           r == q \div 256
           s == r \div 256
           x == v % 256
           y == q % 256
           z == r % 256
<1>1. v \in Int /\ -2147483647 - 1 <= v /\ v <= 2147483647
  BY SMT DEF D!Long
<1>2. q \in Int /\ v = q * 256 + x /\ x \in 0..255
  BY <1>1, Quotient
<1> HIDE DEF x
<1>3. r \in Int /\ q = r * 256 + y /\ y \in 0..255
  BY <1>2, Quotient
<1> HIDE DEF q, y
<1>4. s \in Int /\ r = s * 256 + z /\ z \in 0..255
  BY <1>3, Quotient
<1> HIDE DEF r, z
<1> HIDE DEF s
<1>5. -8388608 <= q /\ q <= 8388607
  BY <1>1, <1>2, SMT
<1>6. -32768 <= r /\ r <= 32767
  BY <1>3, <1>5, SMT
<1>7. -128 <= s /\ s <= 127
  BY <1>4, <1>6, SMT
<1>8. D!S8(s % 256) = s
  BY <1>4, <1>7, SMT DEF D!S8
<1>9. v \div 65536 = r
  <2>1. v = r * 65536 + (y * 256 + x) /\ y * 256 + x \in Int
    BY <1>2, <1>3, SMT
  <2>2. 0 <= y * 256 + x /\ y * 256 + x < 65536
    BY <1>2, <1>3, SMT
  <2> QED
    BY <1>1, <1>3, <2>1, <2>2, QuotientIs, SMT
<1>10. v \div 16777216 = s
  <2>1. v = s * 16777216 + (z * 65536 + y * 256 + x) /\ z * 65536 + y * 256 + x \in Int
    BY <1>2, <1>3, <1>4, SMT
  <2>2. 0 <= z * 65536 + y * 256 + x /\ z * 65536 + y * 256 + x < 16777216
    BY <1>2, <1>3, <1>4, SMT
  <2> QED
    BY <1>1, <1>4, <2>1, <2>2, QuotientIs, SMT
<1>11. s * 16777216 + z * 65536 + y * 256 + x = v
  BY <1>2, <1>3, <1>4, SMT
<1>12. D!S8((v \div 16777216) % 256) = s /\ (v \div 65536) % 256 = z
  BY <1>8, <1>9, <1>10, SMT DEF z
<1>13. (v \div 256) % 256 = y /\ v % 256 = x
  BY SMT DEF x, y, q
<1> QED
  BY <1>11, <1>12, <1>13, SMT

(* A number of four octets, with a sign, without one or a float.           *)
LEMMA LongArrives ==
  ASSUME NEW id, D!FormatOf(id) \in {"U32", "V32", "F32"}, NEW v \in D!Long,
         NEW data \in D!Pack(id, v)
  PROVE  ReadNear(id, v, data)
<1> DEFINE a == (v \div 16777216) % 256
           b == (v \div 65536) % 256
           c == (v \div 256) % 256
           d == v % 256
<1>1. data = <<0, a, b, c, d>>
  BY SMT DEF D!Pack, D!U32
<1>2. D!S8(a) * 16777216 + b * 65536 + c * 256 + d = v
  BY LongOctets, SMT
<1> HIDE DEF a, b, c, d
<1>3. D!N32(data, 2) = v
  BY <1>1, <1>2, SMT DEF D!N32
<1>4. Len(data) = 5
  BY <1>1, SMT
<1>5. D!Unpack(id, data) = D!Got(v, 5)
  BY <1>3, <1>4, SMT DEF D!Unpack, D!Width
<1> QED
  BY <1>5, SMT DEF ReadNear, Sendable, Floats, D!ValuesOf, D!Got, Near

(* What is read of two octets is the number but for less than a step.      *)
LEMMA F16Bounds ==
  ASSUME NEW h, InF16(h)
  PROVE  LET w == D!UnpackF16(D!PackF16(h))
             e == Exponent(h)
             m == D!Halved(h, e)
             p == 2^e
         IN  /\ e \in 0..15 /\ PowerAt(e, p) /\ \A y \in 0..e - 1 : ~Fits(h, y)
             /\ w = m * p /\ m \in Int /\ w \in Int /\ Len(D!PackF16(h)) = 3
             /\ h >= 0 => 0 <= w /\ w <= h
             /\ h < 0 => h <= w /\ w <= 0 /\ w - p + 1 <= h
<1> DEFINE w == D!UnpackF16(D!PackF16(h))
           e == Exponent(h)
           m == D!Halved(h, e)
           p == 2^e
<1>1. h \in Int
  BY DEF InF16
<1>2. e \in 0..15
  BY ExponentIs
<1>3. PowerAt(e, p) /\ \A y \in 0..e - 1 : ~Fits(h, y)
  BY <1>2, ExponentIs, PowerCases
<1>4. w = m * p /\ Len(D!PackF16(h)) = 3
  BY F16Octets
<1>5. /\ m \in Int /\ w \in Int /\ p \in Nat /\ p >= 1
      /\ h >= 0 => 0 <= w /\ w <= h /\ h <= w + p - 1
      /\ h < 0 => h <= w /\ w <= 0 /\ w - p + 1 <= h
  BY <1>1, <1>2, <1>4, HalvedBounds
<1> HIDE DEF w, e, m, p
<1> QED
  BY <1>2, <1>3, <1>4, <1>5, Zenon DEF w, e, m, p

(* The octets that packF16 may make of no number are read as that number.  *)
LEMMA PackedNaN ==
  ASSUME NEW h \in Int
  PROVE  h = -32768 \/ h = 0 =>
           Len(D!PackF16(h)) = 3 /\ D!UnpackF16(D!PackF16(h)) = h
<1> DEFINE w == D!UnpackF16(D!PackF16(h))
           e == Exponent(h)
           m == D!Halved(h, e)
           p == 2^e
<1> SUFFICES ASSUME InF16(h)
             PROVE  h = -32768 \/ h = 0 => Len(D!PackF16(h)) = 3 /\ w = h
  BY SMT DEF InF16
<1>1. e \in 0..15 /\ PowerAt(e, p) /\ \A y \in 0..e - 1 : ~Fits(h, y)
  BY F16Bounds, Zenon
<1>2. /\ w = m * p /\ m \in Int /\ w \in Int /\ Len(D!PackF16(h)) = 3
      /\ h >= 0 => 0 <= w /\ w <= h
      /\ h < 0 => h <= w /\ w <= 0 /\ w - p + 1 <= h
  BY F16Bounds, Zenon
<1> HIDE DEF w, e, p, m
<1>3. ASSUME h = -32768 PROVE e <= 4
  <2>1. 2^4 = 16 /\ 4 \in 0..15
    BY PowersOf
  <2>2. Fits(h, 4) <=> Size(h) <= Room(h) * 16 - 1
    BY <2>1, FitsBounds
  <2>3. Fits(h, 4)
    BY <1>3, <2>2, SMT DEF Size, Room
  <2> QED
    BY <1>1, <2>3
<1>4. CASE h = -32768
  <2>1. p \in {1, 2, 4, 8, 16}
    BY <1>1, <1>3, <1>4, SMT DEF PowerAt
  <2> QED
    BY <1>2, <1>4, <2>1, SMT
<1>5. CASE h = 0
  BY <1>2, <1>5, SMT
<1> QED
  BY <1>4, <1>5

(* A number of two octets with an exponent, see F16Arrives.                *)
LEMMA FloatArrives ==
  ASSUME NEW id, D!FormatOf(id) = "F16", NEW v \in Int, NEW data \in D!Pack(id, v)
  PROVE  ReadNear(id, v, data)
<1> DEFINE l == D!Limits(id)
           c == D!Limited(v, l)
           w == D!UnpackF16(data)
           loss == IF c >= 0 THEN c - w ELSE w - c
<1>1. InLimits(c) /\ l[1] <= c /\ c <= l[2]
  BY LimitedIs
<1>2. /\ l[1] \in Int /\ l[2] = 67076000 /\ l[1] <= 0
      /\ l[1] >= -45960 \/ l[1] = -67076000
  BY LimitsAre
<1>3. PICK h \in D!Hundredths(c) : data = D!PackF16(h)
  BY SMT DEF D!Pack
<1>4. c \in Int /\ -67076000 <= c /\ c <= 67076000
  BY <1>1, SMT DEF InLimits
<1> HIDE DEF c
<1>5. /\ Len(data) = 3 /\ InLimits(w)
      /\ loss \in -D!FloatStep(Size(c))..2 * Resolution(c) - 1
      /\ c >= 0 => 0 <= w /\ (w <= c \/ c >= 13107200)
      /\ c < 0 => w <= 0 /\ (c <= w \/ c <= -13107200)
  BY <1>1, <1>3, F16Arrives, SMT
<1>6. w \in Int /\ -67076000 <= w /\ w <= 67076000
  BY <1>5, SMT DEF InLimits
<1> HIDE DEF w, l
<1>7. ~(w < l[1] \/ w > l[2])
  BY <1>1, <1>2, <1>4, <1>5, <1>6, SMT
<1>8. D!Unpack(id, data) = D!Got(w, 3)
  BY <1>5, <1>7, SMT DEF D!Unpack, D!Width, w, l
<1>9. w = 0 \/ (w > 0) = (c > 0)
  BY <1>4, <1>5, <1>6, SMT
<1>10. v # NaN
  BY FloatAssumption
<1>11. Near(id, v, w)
  <2> HIDE DEF loss
  <2> QED
    BY <1>5, <1>9, <1>10, SMT DEF Near, c, l, loss, Size
<1>12. Sendable(id, w)
  BY <1>6, SMT DEF Sendable, Floats, D!ValuesOf
<1> QED
  BY <1>8, <1>11, <1>12, NearRead

(* What is no number is read as zero or, of two octets on amd64, as        *)
(* -327.68, which a type that ends above that refuses.                     *)
LEMMA NaNArrives ==
  ASSUME NEW id, D!FormatOf(id) \in Floats, NEW data \in D!Pack(id, NaN)
  PROVE  LET r == D!Unpack(id, data)
         IN  Arrives(id, NaN, r) /\ (r.res = "ok" => Sendable(id, r.value))
<1> DEFINE r == D!Unpack(id, data)
           f == D!FormatOf(id)
           l == D!Limits(id)
<1>1. CASE f = "Scaled"
  <2>1. data = <<0, 0>>
    BY <1>1, SMT DEF D!Pack, D!ScaledOctets
  <2>2. r = D!Got(0, 2)
    BY <1>1, <2>1, SMT DEF D!Unpack, D!Width
  <2>3. r.res = "ok" /\ r.value = 0
    BY <2>2, SMT DEF D!Got
  <2>4. Near(id, NaN, 0) /\ Sendable(id, 0)
    BY <1>1, SMT DEF Near, Sendable, Floats, D!ValuesOf
  <2> HIDE DEF r
  <2>5. Arrives(id, NaN, r)
    BY <1>1, <2>3, <2>4, SMT DEF Arrives
  <2> QED
    BY <2>3, <2>4, <2>5 DEF r
<1>2. CASE f = "F16"
  <2> DEFINE w == D!UnpackF16(data)
  <2>1. PICK h \in {-32768, 0} : data = D!PackF16(h)
    BY <1>2, SMT DEF D!Pack, D!Limited, D!Hundredths
  <2>2. Len(data) = 3 /\ w = h
    BY <2>1, PackedNaN
  <2>3. r = IF w < l[1] \/ w > l[2] THEN D!Fails ELSE D!Got(w, 3)
    BY <1>2, <2>2, SMT DEF D!Unpack, D!Width
  <2>4. l[1] \in Int /\ l[1] <= 0 /\ l[2] = 67076000
    BY LimitsAre
  <2> HIDE DEF w, r, l
  <2>5. w \in {-32768, 0}
    BY <2>2
  <2>6. Near(id, NaN, w) /\ Sendable(id, w)
    BY <1>2, <2>5, SMT DEF Near, Sendable, Floats, D!ValuesOf
  <2>7. CASE w < l[1] \/ w > l[2]
    <3>1. r.res = "error" /\ l[1] > -32768
      BY <2>3, <2>4, <2>5, <2>7, SMT DEF D!Fails
    <3> QED
      BY <1>2, <3>1, SMT DEF Arrives, r, l
  <2>8. CASE ~(w < l[1] \/ w > l[2])
    <3>1. r.res = "ok" /\ r.value = w
      BY <2>3, <2>8, SMT DEF D!Got
    <3> QED
      BY <1>2, <2>6, <3>1, SMT DEF Arrives, r
  <2> QED
    BY <2>7, <2>8
<1> QED
  BY <1>1, <1>2 DEF Floats

(* A time that is none is midnight.                                        *)
LEMMA TimeArrives ==
  ASSUME NEW id, D!FormatOf(id) = "Time", NEW v \in D!ValuesOf("Time"), NEW data \in D!Pack(id, v)
  PROVE  ReadNear(id, v, data)
<1> DEFINE zero == [weekday |-> 0, hour |-> 0, minute |-> 0, second |-> 0]
           w == IF D!TimeValid(v) THEN v ELSE zero
<1>1. v \in [weekday : D!Byte, hour : D!Byte, minute : D!Byte, second : D!Byte]
  BY DEF D!ValuesOf
<1>2. /\ w \in [weekday : D!Byte, hour : D!Byte, minute : D!Byte, second : D!Byte]
      /\ D!TimeValid(w)
  BY <1>1 DEF D!TimeValid, D!IsTime, D!Byte
<1>3. data = <<0, 32 * w.weekday + w.hour, w.minute, w.second>>
  BY DEF D!Pack
<1> HIDE DEF w
<1>4. /\ w.weekday \in 0..7 /\ w.hour \in 0..23 /\ w.minute \in 0..59 /\ w.second \in 0..59
  BY <1>2 DEF D!TimeValid, D!IsTime, D!Byte
<1>5. w = [weekday |-> w.weekday, hour |-> w.hour, minute |-> w.minute, second |-> w.second]
  BY <1>2
<1>6. /\ Len(data) = 4 /\ data[2] \div 32 = w.weekday /\ data[2] % 32 = w.hour
      /\ data[3] % 64 = w.minute /\ data[4] % 64 = w.second
  BY <1>3, <1>4
<1>7. D!UnpackTime(data) = D!Got(w, 4)
  BY <1>2, <1>5, <1>6 DEF D!UnpackTime
<1>8. D!Unpack(id, data) = D!Got(w, 4)
  BY <1>6, <1>7 DEF D!Unpack, D!Width
<1>9. Near(id, v, w)
  BY DEF Near, w
<1>10. Sendable(id, w)
  BY <1>2 DEF Sendable, Floats, D!ValuesOf
<1> QED
  BY <1>8, <1>9, <1>10, NearRead

(* A date that is none is the first day there is.                          *)
LEMMA DateArrives ==
  ASSUME NEW id, D!FormatOf(id) = "Date", NEW v \in D!ValuesOf("Date"), NEW data \in D!Pack(id, v)
  PROVE  ReadNear(id, v, data)
<1> DEFINE first == [year |-> 1990, month |-> 1, day |-> 1]
<1>1. v \in [year : D!Word, month : D!Byte, day : D!Byte]
  BY DEF D!ValuesOf
<1>2. first \in [year : D!Word, month : D!Byte, day : D!Byte]
  BY DEF D!Word, D!Byte
<1>3. data = IF D!DateValid(v) THEN <<0, v.day, v.month, v.year % 100>> ELSE <<0, 0, 0, 0>>
  BY DEF D!Pack
<1>4. CASE D!DateValid(v)
  <2>1. v.year \in 1990..2089 /\ v.month \in 1..12 /\ v.day \in 1..31
    BY <1>1, <1>4 DEF D!DateValid, D!IsDate, D!DaysIn, D!Byte
  <2>2. data = <<0, v.day, v.month, v.year % 100>>
    BY <1>3, <1>4
  <2> DEFINE y == v.year % 100
  <2>3. y \in 0..99 /\ v.year = y + (IF y >= 90 THEN 1900 ELSE 2000)
    BY <2>1
  <2> HIDE DEF y
  <2>4. /\ Len(data) = 4 /\ data[2] % 32 = v.day /\ data[3] % 16 = v.month /\ data[4] % 128 = y
    BY <2>1, <2>2, <2>3 DEF y
  <2>5. v = [year |-> v.year, month |-> v.month, day |-> v.day]
    BY <1>1
  <2>6. <<v.day, v.month, y>> # <<0, 0, 0>>
    BY <2>1
  <2> DEFINE zero == <<data[2] % 32, data[3] % 16, data[4] % 128>> = <<0, 0, 0>>
             w == IF zero THEN first
                  ELSE [year |-> (data[4] % 128) + (IF data[4] % 128 >= 90 THEN 1900 ELSE 2000),
                        month |-> data[3] % 16, day |-> data[2] % 32]
  <2>7. D!UnpackDate(data) = IF data[4] % 128 <= 99 /\ D!DateValid(w) THEN D!Got(w, 4) ELSE D!Fails
    BY Zenon DEF D!UnpackDate
  <2>11. w = v
    <3>1. ~zero
      BY <2>4, <2>6
    <3>2. w = [year |-> y + (IF y >= 90 THEN 1900 ELSE 2000), month |-> v.month, day |-> v.day]
      BY <2>4, <3>1
    <3> HIDE DEF w
    <3> QED
      BY <2>3, <2>5, <3>2
  <2> HIDE DEF w
  <2>12. data[4] % 128 <= 99
    BY <2>3, <2>4
  <2>13. D!UnpackDate(data) = D!Got(v, 4)
    BY <1>4, <2>7, <2>11, <2>12, Zenon
  <2>8. D!Unpack(id, data) = D!Got(v, 4)
    BY <2>4, <2>13 DEF D!Unpack, D!Width
  <2>9. Near(id, v, v)
    BY <1>4 DEF Near
  <2>10. Sendable(id, v)
    BY <1>1 DEF Sendable, Floats, D!ValuesOf
  <2> QED
    BY <2>8, <2>9, <2>10, NearRead
<1>5. CASE ~D!DateValid(v)
  <2>1. Len(data) = 4 /\ data[2] % 32 = 0 /\ data[3] % 16 = 0 /\ data[4] % 128 = 0
    BY <1>3, <1>5
  <2>2. D!DateValid(first)
    BY DEF D!DateValid, D!IsDate, D!DaysIn
  <2>3. D!UnpackDate(data) = D!Got(first, 4)
    BY <2>1, <2>2 DEF D!UnpackDate
  <2>4. D!Unpack(id, data) = D!Got(first, 4)
    BY <2>1, <2>3 DEF D!Unpack, D!Width
  <2>5. Near(id, v, first)
    BY <1>5 DEF Near
  <2>6. Sendable(id, first)
    BY <1>2 DEF Sendable, Floats, D!ValuesOf
  <2> QED
    BY <2>4, <2>5, <2>6, NearRead
<1> QED
  BY <1>4, <1>5

(* Two texts of the same characters.                                       *)
LEMMA SameText ==
  ASSUME NEW s \in Seq(Nat), NEW t \in Seq(Nat), Len(s) = Len(t),
         \A i \in 1..Len(t) : s[i] = t[i]
  PROVE  s = t
OBVIOUS

(* A string of variable length is what lies between two octets.            *)
LEMMA VarStringArrives ==
  ASSUME NEW id, D!FormatOf(id) = "VarString", NEW v \in Seq(Nat), NEW data \in D!Pack(id, v)
  PROVE  ReadNear(id, v, data)
<1>1. data = <<0>> \o v \o <<0>>
  BY DEF D!Pack
<1>2. /\ data \in Seq(Nat) /\ Len(data) = Len(v) + 2
      /\ \A i \in 1..Len(v) : data[i + 1] = v[i]
  BY <1>1
<1>3. SubSeq(data, 2, Len(data) - 1) = v
  <2> DEFINE s == SubSeq(data, 2, Len(data) - 1)
  <2>1. s \in Seq(Nat) /\ Len(s) = Len(v)
    BY <1>2
  <2>2. \A i \in 1..Len(v) : s[i] = data[i + 1]
    BY <1>2
  <2> HIDE DEF s
  <2>3. s = v
    <3>1. \A i \in 1..Len(v) : s[i] = v[i]
      BY <1>2, <2>2
    <3> QED
      BY <2>1, <3>1, SameText
  <2> QED
    BY <2>3 DEF s
<1>4. D!Unpack(id, data) = D!Got(v, Len(data))
  <2>1. D!Unpack(id, data) = D!UnpackVarString(data)
    BY DEF D!Unpack
  <2>2. ~(Len(data) < 2)
    BY <1>2
  <2> QED
    BY <1>3, <2>1, <2>2, Zenon DEF D!UnpackVarString
<1>5. Near(id, v, v)
  BY DEF Near
<1>6. Sendable(id, v)
  BY DEF Sendable, Floats, D!ValuesOf
<1> QED
  BY <1>4, <1>5, <1>6, NearRead

(* The value of the first k bits of an octet.                              *)
Low(b) == b[1] + b[2] * 2 + b[3] * 4 + b[4] * 8
Value(b, k) ==
  CASE k = 0 -> 0
    [] k = 1 -> b[1]
    [] k = 2 -> b[1] + b[2] * 2
    [] k = 3 -> b[1] + b[2] * 2 + b[3] * 4
    [] k = 4 -> Low(b)
    [] k = 5 -> Low(b) + b[5] * 16
    [] k = 6 -> Low(b) + b[5] * 16 + b[6] * 32
    [] k = 7 -> Low(b) + b[5] * 16 + b[6] * 32 + b[7] * 64
    [] k = 8 -> Low(b) + b[5] * 16 + b[6] * 32 + b[7] * 64 + b[8] * 128

(* One bit more.                                                           *)
LEMMA OneBit ==
  ASSUME NEW k \in 1..8, NEW b, \A i \in 1..k : b[i] \in Int
  PROVE  Value(b, k) = Value(b, k - 1) + b[k] * 2^(k - 1)
<1>1. CASE k = 1
  <2>1. 2^(k - 1) = 1
    BY <1>1, PowersOf
  <2>2. Value(b, k) = b[1] /\ Value(b, k - 1) = 0 /\ b[1] \in Int
    BY <1>1 DEF Value
  <2> QED
    BY <1>1, <2>1, <2>2
<1>2. CASE k = 2
  <2>1. 2^(k - 1) = 2
    BY <1>2
  <2>2. Value(b, k - 1) = b[1]
    BY <1>2 DEF Value
  <2>3. Value(b, k) = b[1] + b[2] * 2
    BY <1>2 DEF Value
  <2> QED
    BY <1>2, <2>1, <2>2, <2>3
<1>3. CASE k = 3
  <2>1. 2^(k - 1) = 4
    BY <1>3
  <2>2. Value(b, k - 1) = b[1] + b[2] * 2
    BY <1>3 DEF Value
  <2>3. Value(b, k) = b[1] + b[2] * 2 + b[3] * 4
    BY <1>3 DEF Value
  <2> QED
    BY <1>3, <2>1, <2>2, <2>3
<1>4. CASE k = 4
  <2>1. 2^(k - 1) = 8
    BY <1>4
  <2>2. Value(b, k - 1) = b[1] + b[2] * 2 + b[3] * 4
    BY <1>4 DEF Value
  <2>3. Value(b, k) = b[1] + b[2] * 2 + b[3] * 4 + b[4] * 8
    BY <1>4 DEF Value, Low
  <2> QED
    BY <1>4, <2>1, <2>2, <2>3
<1>5. CASE k = 5
  <2>1. 2^(k - 1) = 16
    BY <1>5
  <2>2. Value(b, k - 1) = Low(b)
    BY <1>5 DEF Value
  <2>3. Value(b, k) = Low(b) + b[5] * 16
    BY <1>5 DEF Value
  <2> QED
    BY <1>5, <2>1, <2>2, <2>3
<1>6. CASE k = 6
  <2>1. 2^(k - 1) = 32
    BY <1>6
  <2>2. Value(b, k - 1) = Low(b) + b[5] * 16
    BY <1>6 DEF Value
  <2>3. Value(b, k) = Low(b) + b[5] * 16 + b[6] * 32
    BY <1>6 DEF Value
  <2> QED
    BY <1>6, <2>1, <2>2, <2>3
<1>7. CASE k = 7
  <2>1. 2^(k - 1) = 64
    BY <1>7
  <2>2. Value(b, k - 1) = Low(b) + b[5] * 16 + b[6] * 32
    BY <1>7 DEF Value
  <2>3. Value(b, k) = Low(b) + b[5] * 16 + b[6] * 32 + b[7] * 64
    BY <1>7 DEF Value
  <2> QED
    BY <1>7, <2>1, <2>2, <2>3
<1>8. CASE k = 8
  <2>1. 2^(k - 1) = 128
    BY <1>8
  <2>2. Value(b, k - 1) = Low(b) + b[5] * 16 + b[6] * 32 + b[7] * 64
    BY <1>8 DEF Value
  <2>3. Value(b, k) = Low(b) + b[5] * 16 + b[6] * 32 + b[7] * 64 + b[8] * 128
    BY <1>8 DEF Value
  <2> QED
    BY <1>8, <2>1, <2>2, <2>3
<1> QED
  BY <1>1, <1>2, <1>3, <1>4, <1>5, <1>6, <1>7, <1>8

(* The bits of an octet are summed up one after the other.                 *)
LEMMA BitsSum ==
  ASSUME NEW n \in 0..8, NEW bits \in [1..n -> {0, 1}]
  PROVE  D!PackBits(bits) = Value(bits, n) /\ Len(bits) = n
<1>1. \A i \in 1..n : bits[i] \in Int
  OBVIOUS
<1>2. bits \in Seq({0, 1}) /\ Len(bits) = n
  OBVIOUS
<1> DEFINE Term(f, k) == IF k = 0 THEN 0 ELSE f[k - 1] + bits[k] * 2^(k - 1)
           IsSum(f) == f = [k \in 0..n |-> Term(f, k)]
           f0 == [k \in 0..n |-> Value(bits, k)]
<1>3. \A k \in 1..n : Value(bits, k) = Value(bits, k - 1) + bits[k] * 2^(k - 1)
  <2> SUFFICES ASSUME NEW k \in 1..n
               PROVE  Value(bits, k) = Value(bits, k - 1) + bits[k] * 2^(k - 1)
    OBVIOUS
  <2>1. k \in 1..8 /\ \A i \in 1..k : bits[i] \in Int
    BY <1>1
  <2> QED
    BY <2>1, OneBit
<1>4. Value(bits, 0) = 0
  BY DEF Value
<1>5. IsSum(f0)
  <2> SUFFICES ASSUME NEW k \in 0..n PROVE f0[k] = Term(f0, k)
    OBVIOUS
  <2>1. CASE k = 0
    BY <1>4, <2>1
  <2>2. CASE k # 0
    <3>1. k \in 1..n /\ k - 1 \in 0..n
      BY <2>2
    <3> QED
      BY <1>3, <2>2, <3>1
  <2> QED
    BY <2>1, <2>2
<1>6. ASSUME NEW f, IsSum(f) PROVE \A k \in 0..n : f[k] = Value(bits, k)
  <2>1. \A k \in 0..n : f[k] = Term(f, k)
    BY <1>6, Zenon
  <2>2. f[0] = Value(bits, 0)
    BY <1>4, <2>1
  <2>3. \A k \in 1..n : f[k - 1] = Value(bits, k - 1) => f[k] = Value(bits, k)
    <3> TAKE k \in 1..n
    <3>1. k \in 0..n /\ k # 0
      OBVIOUS
    <3> QED
      BY <1>3, <2>1, <3>1
  <2> DEFINE P(k) == k <= n => f[k] = Value(bits, k)
  <2>4. \A k \in 0..7 : P(k) => P(k + 1)
    <3> SUFFICES ASSUME NEW k \in 0..7, P(k), k + 1 <= n PROVE f[k + 1] = Value(bits, k + 1)
      OBVIOUS
    <3>1. k + 1 \in 1..n /\ (k + 1) - 1 = k /\ k <= n
      OBVIOUS
    <3> QED
      BY <2>3, <3>1
  <2>5. P(0)
    BY <2>2
  <2> HIDE DEF P
  <2>6. P(0) /\ P(1) /\ P(2) /\ P(3) /\ P(4)
    BY <2>4, <2>5
  <2>7. P(5) /\ P(6) /\ P(7) /\ P(8)
    BY <2>4, <2>6
  <2>8. \A k \in 0..8 : P(k)
    BY <2>6, <2>7
  <2> QED
    BY <2>8 DEF P
<1> HIDE DEF IsSum
<1>7. (CHOOSE f : IsSum(f))[n] = Value(bits, n)
  <2>1. IsSum(CHOOSE f : IsSum(f))
    BY <1>5, Zenon
  <2> QED
    BY <1>6, <2>1
<1>8. D!PackBits(bits) = (CHOOSE f : IsSum(f))[n]
  BY <1>2 DEF D!PackBits, IsSum
<1> QED
  BY <1>2, <1>7, <1>8

(* A bit of an octet, the value of those before it and those after it.     *)
Splits(o, k, x, low, rest) ==
  /\ k \in 0..7 /\ low \in Nat /\ x \in {0, 1} /\ rest \in Nat /\ low < 2^k
  /\ o = low + x * 2^k + rest * (2 * 2^k)

(* A bit is found at its place.                                            *)
LEMMA BitAt ==
  ASSUME NEW o, NEW k, NEW x, NEW low, NEW rest, Splits(o, k, x, low, rest)
  PROVE  D!Bit(o, k) = x
<1> USE DEF Splits
<1>1. CASE k = 0
  <2>1. 2^k = 1
    BY <1>1, PowersOf
  <2>2. low < 1 /\ o = low + x * 1 + rest * 2
    BY <2>1
  <2>3. o \div 1 = x + rest * 2
    BY <2>2
  <2>4. (x + rest * 2) % 2 = x
    OBVIOUS
  <2> QED
    BY <2>1, <2>3, <2>4 DEF D!Bit
<1>2. CASE k = 1
  <2>1. 2^k = 2
    BY <1>2, PowersOf
  <2>2. low < 2 /\ o = low + x * 2 + rest * 4
    BY <2>1
  <2>3. o \div 2 = x + rest * 2
    BY <2>2
  <2>4. (x + rest * 2) % 2 = x
    OBVIOUS
  <2> QED
    BY <2>1, <2>3, <2>4 DEF D!Bit
<1>3. CASE k = 2
  <2>1. 2^k = 4
    BY <1>3, PowersOf
  <2>2. low < 4 /\ o = low + x * 4 + rest * 8
    BY <2>1
  <2>3. o \div 4 = x + rest * 2
    BY <2>2
  <2>4. (x + rest * 2) % 2 = x
    OBVIOUS
  <2> QED
    BY <2>1, <2>3, <2>4 DEF D!Bit
<1>4. CASE k = 3
  <2>1. 2^k = 8
    BY <1>4, PowersOf
  <2>2. low < 8 /\ o = low + x * 8 + rest * 16
    BY <2>1
  <2>3. o \div 8 = x + rest * 2
    BY <2>2
  <2>4. (x + rest * 2) % 2 = x
    OBVIOUS
  <2> QED
    BY <2>1, <2>3, <2>4 DEF D!Bit
<1>5. CASE k = 4
  <2>1. 2^k = 16
    BY <1>5, PowersOf
  <2>2. low < 16 /\ o = low + x * 16 + rest * 32
    BY <2>1
  <2>3. o \div 16 = x + rest * 2
    BY <2>2
  <2>4. (x + rest * 2) % 2 = x
    OBVIOUS
  <2> QED
    BY <2>1, <2>3, <2>4 DEF D!Bit
<1>6. CASE k = 5
  <2>1. 2^k = 32
    BY <1>6, PowersOf
  <2>2. low < 32 /\ o = low + x * 32 + rest * 64
    BY <2>1
  <2>3. o \div 32 = x + rest * 2
    BY <2>2
  <2>4. (x + rest * 2) % 2 = x
    OBVIOUS
  <2> QED
    BY <2>1, <2>3, <2>4 DEF D!Bit
<1>7. CASE k = 6
  <2>1. 2^k = 64
    BY <1>7, PowersOf
  <2>2. low < 64 /\ o = low + x * 64 + rest * 128
    BY <2>1
  <2>3. o \div 64 = x + rest * 2
    BY <2>2
  <2>4. (x + rest * 2) % 2 = x
    OBVIOUS
  <2> QED
    BY <2>1, <2>3, <2>4 DEF D!Bit
<1>8. CASE k = 7
  <2>1. 2^k = 128
    BY <1>8, PowersOf
  <2>2. low < 128 /\ o = low + x * 128 + rest * 256
    BY <2>1
  <2>3. o \div 128 = x + rest * 2
    BY <2>2
  <2>4. (x + rest * 2) % 2 = x
    OBVIOUS
  <2> QED
    BY <2>1, <2>3, <2>4 DEF D!Bit
<1> QED
  BY <1>1, <1>2, <1>3, <1>4, <1>5, <1>6, <1>7, <1>8

(* An octet and its bits.                                                  *)
IsOctet(o, x1, x2, x3, x4, x5, x6, x7, x8) ==
  /\ x1 \in 0..1 /\ x2 \in 0..1 /\ x3 \in 0..1 /\ x4 \in 0..1
  /\ x5 \in 0..1 /\ x6 \in 0..1 /\ x7 \in 0..1 /\ x8 \in 0..1
  /\ o = x1 + x2 * 2 + x3 * 4 + x4 * 8 + x5 * 16 + x6 * 32 + x7 * 64 + x8 * 128

HasBits(o, x1, x2, x3, x4, x5, x6, x7, x8) ==
  /\ o \in 0..255
  /\ x5 = 0 /\ x6 = 0 /\ x7 = 0 /\ x8 = 0 => o <= 15
  /\ D!Bit(o, 0) = x1 /\ D!Bit(o, 1) = x2 /\ D!Bit(o, 2) = x3 /\ D!Bit(o, 3) = x4
  /\ D!Bit(o, 4) = x5 /\ D!Bit(o, 5) = x6 /\ D!Bit(o, 6) = x7 /\ D!Bit(o, 7) = x8

(* Every bit of it.                                                        *)
LEMMA BitsOfSum ==
  ASSUME NEW x1, NEW x2, NEW x3, NEW x4, NEW x5, NEW x6, NEW x7, NEW x8, NEW o,
         IsOctet(o, x1, x2, x3, x4, x5, x6, x7, x8)
  PROVE  HasBits(o, x1, x2, x3, x4, x5, x6, x7, x8)
<1>1. o \in 0..255
  BY DEF IsOctet
<1>2. x5 = 0 /\ x6 = 0 /\ x7 = 0 /\ x8 = 0 => o <= 15
  BY DEF IsOctet
<1>3. /\ x1 \in {0, 1} /\ x2 \in {0, 1} /\ x3 \in {0, 1} /\ x4 \in {0, 1}
      /\ x5 \in {0, 1} /\ x6 \in {0, 1} /\ x7 \in {0, 1} /\ x8 \in {0, 1}
  BY DEF IsOctet
<1>4. D!Bit(o, 0) = x1
  <2> DEFINE low == 0
             rest == x2 + x3 * 2 + x4 * 4 + x5 * 8 + x6 * 16 + x7 * 32 + x8 * 64
  <2>1. low \in Nat /\ low < 1
    BY DEF IsOctet
  <2>2. rest \in Nat
    BY DEF IsOctet
  <2>3. o = low + x1 * 1 + rest * 2
    BY DEF IsOctet
  <2> HIDE DEF low, rest
  <2>4. 2^0 = 1
    BY PowersOf
  <2>5. Splits(o, 0, x1, low, rest)
    BY <1>3, <2>1, <2>2, <2>3, <2>4 DEF Splits
  <2> QED
    BY <2>5, BitAt, Zenon
<1>5. D!Bit(o, 1) = x2
  <2> DEFINE low == x1
             rest == x3 + x4 * 2 + x5 * 4 + x6 * 8 + x7 * 16 + x8 * 32
  <2>1. low \in Nat /\ low < 2
    BY DEF IsOctet
  <2>2. rest \in Nat
    BY DEF IsOctet
  <2>3. o = low + x2 * 2 + rest * 4
    BY DEF IsOctet
  <2> HIDE DEF low, rest
  <2>4. 2^1 = 2
    BY PowersOf
  <2>5. Splits(o, 1, x2, low, rest)
    BY <1>3, <2>1, <2>2, <2>3, <2>4 DEF Splits
  <2> QED
    BY <2>5, BitAt, Zenon
<1>6. D!Bit(o, 2) = x3
  <2> DEFINE low == x1 + x2 * 2
             rest == x4 + x5 * 2 + x6 * 4 + x7 * 8 + x8 * 16
  <2>1. low \in Nat /\ low < 4
    BY DEF IsOctet
  <2>2. rest \in Nat
    BY DEF IsOctet
  <2>3. o = low + x3 * 4 + rest * 8
    BY DEF IsOctet
  <2> HIDE DEF low, rest
  <2>4. 2^2 = 4
    BY PowersOf
  <2>5. Splits(o, 2, x3, low, rest)
    BY <1>3, <2>1, <2>2, <2>3, <2>4 DEF Splits
  <2> QED
    BY <2>5, BitAt, Zenon
<1>7. D!Bit(o, 3) = x4
  <2> DEFINE low == x1 + x2 * 2 + x3 * 4
             rest == x5 + x6 * 2 + x7 * 4 + x8 * 8
  <2>1. low \in Nat /\ low < 8
    BY DEF IsOctet
  <2>2. rest \in Nat
    BY DEF IsOctet
  <2>3. o = low + x4 * 8 + rest * 16
    BY DEF IsOctet
  <2> HIDE DEF low, rest
  <2>4. 2^3 = 8
    BY PowersOf
  <2>5. Splits(o, 3, x4, low, rest)
    BY <1>3, <2>1, <2>2, <2>3, <2>4 DEF Splits
  <2> QED
    BY <2>5, BitAt, Zenon
<1>8. D!Bit(o, 4) = x5
  <2> DEFINE low == x1 + x2 * 2 + x3 * 4 + x4 * 8
             rest == x6 + x7 * 2 + x8 * 4
  <2>1. low \in Nat /\ low < 16
    BY DEF IsOctet
  <2>2. rest \in Nat
    BY DEF IsOctet
  <2>3. o = low + x5 * 16 + rest * 32
    BY DEF IsOctet
  <2> HIDE DEF low, rest
  <2>4. 2^4 = 16
    BY PowersOf
  <2>5. Splits(o, 4, x5, low, rest)
    BY <1>3, <2>1, <2>2, <2>3, <2>4 DEF Splits
  <2> QED
    BY <2>5, BitAt, Zenon
<1>9. D!Bit(o, 5) = x6
  <2> DEFINE low == x1 + x2 * 2 + x3 * 4 + x4 * 8 + x5 * 16
             rest == x7 + x8 * 2
  <2>1. low \in Nat /\ low < 32
    BY DEF IsOctet
  <2>2. rest \in Nat
    BY DEF IsOctet
  <2>3. o = low + x6 * 32 + rest * 64
    BY DEF IsOctet
  <2> HIDE DEF low, rest
  <2>4. 2^5 = 32
    BY PowersOf
  <2>5. Splits(o, 5, x6, low, rest)
    BY <1>3, <2>1, <2>2, <2>3, <2>4 DEF Splits
  <2> QED
    BY <2>5, BitAt, Zenon
<1>10. D!Bit(o, 6) = x7
  <2> DEFINE low == x1 + x2 * 2 + x3 * 4 + x4 * 8 + x5 * 16 + x6 * 32
             rest == x8
  <2>1. low \in Nat /\ low < 64
    BY DEF IsOctet
  <2>2. rest \in Nat
    BY DEF IsOctet
  <2>3. o = low + x7 * 64 + rest * 128
    BY DEF IsOctet
  <2> HIDE DEF low, rest
  <2>4. 2^6 = 64
    BY PowersOf
  <2>5. Splits(o, 6, x7, low, rest)
    BY <1>3, <2>1, <2>2, <2>3, <2>4 DEF Splits
  <2> QED
    BY <2>5, BitAt, Zenon
<1>11. D!Bit(o, 7) = x8
  <2> DEFINE low == x1 + x2 * 2 + x3 * 4 + x4 * 8 + x5 * 16 + x6 * 32 + x7 * 64
             rest == 0
  <2>1. low \in Nat /\ low < 128
    BY DEF IsOctet
  <2>2. rest \in Nat
    BY DEF IsOctet
  <2>3. o = low + x8 * 128 + rest * 256
    BY DEF IsOctet
  <2> HIDE DEF low, rest
  <2>4. 2^7 = 128
    BY PowersOf
  <2>5. Splits(o, 7, x8, low, rest)
    BY <1>3, <2>1, <2>2, <2>3, <2>4 DEF Splits
  <2> QED
    BY <2>5, BitAt, Zenon
<1> QED
  BY <1>1, <1>2, <1>4, <1>5, <1>6, <1>7, <1>8, <1>9, <1>10, <1>11 DEF HasBits

(* Every bit of the value of eight.                                        *)
LEMMA EightBits ==
  ASSUME NEW b, \A i \in 1..8 : b[i] \in {0, 1}
  PROVE  /\ Value(b, 8) \in 0..255
         /\ (\A i \in 5..8 : b[i] = 0) => Value(b, 8) <= 15
         /\ \A i \in 1..8 : D!Bit(Value(b, 8), i - 1) = b[i]
<1> DEFINE o == Value(b, 8)
<1>1. /\ b[1] \in 0..1 /\ b[2] \in 0..1 /\ b[3] \in 0..1 /\ b[4] \in 0..1
      /\ b[5] \in 0..1 /\ b[6] \in 0..1 /\ b[7] \in 0..1 /\ b[8] \in 0..1
  OBVIOUS
<1>2. o = b[1] + b[2] * 2 + b[3] * 4 + b[4] * 8 + b[5] * 16 + b[6] * 32 + b[7] * 64 + b[8] * 128
  BY DEF Value, Low
<1> HIDE DEF o
<1>7. IsOctet(o, b[1], b[2], b[3], b[4], b[5], b[6], b[7], b[8])
  BY <1>1, <1>2, Zenon DEF IsOctet
<1>3. /\ o \in 0..255
      /\ b[5] = 0 /\ b[6] = 0 /\ b[7] = 0 /\ b[8] = 0 => o <= 15
      /\ D!Bit(o, 0) = b[1] /\ D!Bit(o, 1) = b[2] /\ D!Bit(o, 2) = b[3] /\ D!Bit(o, 3) = b[4]
      /\ D!Bit(o, 4) = b[5] /\ D!Bit(o, 5) = b[6] /\ D!Bit(o, 6) = b[7] /\ D!Bit(o, 7) = b[8]
  <2>1. HasBits(o, b[1], b[2], b[3], b[4], b[5], b[6], b[7], b[8])
    BY <1>7, BitsOfSum, Zenon
  <2> QED
    BY <2>1 DEF HasBits
<1>4. \A i \in 1..8 : D!Bit(o, i - 1) = b[i]
  <2> TAKE i \in 1..8
  <2>1. \/ (i = 1 /\ i - 1 = 0) \/ (i = 2 /\ i - 1 = 1) \/ (i = 3 /\ i - 1 = 2)
        \/ (i = 4 /\ i - 1 = 3) \/ (i = 5 /\ i - 1 = 4) \/ (i = 6 /\ i - 1 = 5)
        \/ (i = 7 /\ i - 1 = 6) \/ (i = 8 /\ i - 1 = 7)
    OBVIOUS
  <2> QED
    BY <1>3, <2>1, Zenon
<1>5. ASSUME \A i \in 5..8 : b[i] = 0 PROVE o <= 15
  <2>1. b[5] = 0 /\ b[6] = 0 /\ b[7] = 0 /\ b[8] = 0
    BY <1>5
  <2> QED
    BY <1>3, <2>1
<1>6. o \in 0..255
  BY <1>3
<1> QED
  BY <1>4, <1>5, <1>6, Zenon DEF o

(* The bits that are packed into an octet are those that are unpacked.     *)
LEMMA BitsReturn ==
  ASSUME NEW n \in {2, 4, 8}, NEW bits \in [1..n -> {0, 1}]
  PROVE  LET o == D!PackBits(bits)
         IN  /\ o \in 0..255 /\ (n < 8 => o <= 15)
             /\ \A i \in 1..n : D!Bit(o, i - 1) = bits[i]
             /\ D!UnpackBits(o, n) = bits
<1> DEFINE b == [i \in 1..8 |-> IF i <= n THEN bits[i] ELSE 0]
           o == D!PackBits(bits)
<1>1. /\ \A i \in 1..8 : b[i] \in {0, 1}
      /\ \A i \in 1..n : i \in 1..8 /\ b[i] = bits[i]
      /\ \A i \in 1..8 : i > n => b[i] = 0
  OBVIOUS
<1> HIDE DEF b
<1>2. o = Value(bits, n)
  <2>1. n \in 0..8
    OBVIOUS
  <2> QED
    BY <2>1, BitsSum
<1>3. Value(bits, n) = Value(b, 8)
  <2>1. CASE n = 2
    <3>1. b[3] = 0 /\ b[4] = 0 /\ b[5] = 0 /\ b[6] = 0 /\ b[7] = 0 /\ b[8] = 0
      BY <1>1, <2>1
    <3>2. b[1] = bits[1] /\ b[2] = bits[2] /\ b[1] \in {0, 1} /\ b[2] \in {0, 1}
      BY <1>1, <2>1
    <3> QED
      BY <2>1, <3>1, <3>2 DEF Value, Low
  <2>2. CASE n = 4
    <3>1. b[5] = 0 /\ b[6] = 0 /\ b[7] = 0 /\ b[8] = 0
      BY <1>1, <2>2
    <3>2. /\ b[1] = bits[1] /\ b[2] = bits[2] /\ b[3] = bits[3] /\ b[4] = bits[4]
          /\ b[1] \in {0, 1} /\ b[2] \in {0, 1} /\ b[3] \in {0, 1} /\ b[4] \in {0, 1}
      BY <1>1, <2>2
    <3> QED
      BY <2>2, <3>1, <3>2 DEF Value, Low
  <2>3. CASE n = 8
    <3>1. \A i \in 1..8 : b[i] = bits[i]
      BY <1>1, <2>3
    <3> QED
      BY <2>3, <3>1 DEF Value, Low
  <2> QED
    BY <2>1, <2>2, <2>3
<1> HIDE DEF o
<1>4. o \in 0..255 /\ \A i \in 1..8 : D!Bit(o, i - 1) = b[i]
  <2>1. /\ Value(b, 8) \in 0..255
        /\ \A i \in 1..8 : D!Bit(Value(b, 8), i - 1) = b[i]
    BY <1>1, EightBits, Zenon
  <2> QED
    BY <1>2, <1>3, <2>1, Zenon
<1>5. n < 8 => o <= 15
  <2> SUFFICES ASSUME n < 8 PROVE o <= 15
    OBVIOUS
  <2>1. \A i \in 5..8 : i \in 1..8 /\ i > n
    OBVIOUS
  <2>2. \A i \in 5..8 : b[i] = 0
    BY <1>1, <2>1
  <2> QED
    BY <1>1, <1>2, <1>3, <2>2, EightBits, Zenon
<1>6. \A i \in 1..n : D!Bit(o, i - 1) = bits[i]
  BY <1>1, <1>4
<1>7. D!UnpackBits(o, n) = bits
  BY <1>6 DEF D!UnpackBits
<1> QED
  BY <1>4, <1>5, <1>6, <1>7 DEF o

(* Four octets between others.                                             *)
LEMMA FourBetween ==
  ASSUME NEW s \in Seq(K!Byte), Len(s) = 4, NEW o \in K!Byte,
         NEW data, data = (<< 0 >> \o s) \o <<0, o>>
  PROVE  Len(data) = 7 /\ data[7] = o /\ SubSeq(data, 2, 5) = s
<1> DEFINE t == <<0>> \o s
<1>1. 0 \in K!Byte /\ <<0>> \in Seq(K!Byte) /\ Len(<<0>>) = 1
  BY DEF K!Byte
<1>2. t \in Seq(K!Byte) /\ Len(t) = 5 /\ \A i \in 1..4 : t[1 + i] = s[i]
  <2>1. /\ t \in Seq(K!Byte) /\ Len(t) = Len(<<0>>) + Len(s)
        /\ \A i \in 1..Len(s) : t[Len(<<0>>) + i] = s[i]
    BY <1>1, Put, Zenon
  <2> QED
    BY <1>1, <2>1
<1> HIDE DEF t
<1>3. /\ data \in Seq(K!Byte) /\ Len(data) = Len(t) + 2
      /\ (\A i \in 1..Len(t) : data[i] = t[i]) /\ data[Len(t) + 2] = o
  BY <1>1, <1>2, PutTwo DEF t
<1>4. Len(data) = 7 /\ data[7] = o /\ \A i \in 1..4 : data[1 + i] = s[i]
  <2>1. Len(data) = 7 /\ data[7] = o
    BY <1>2, <1>3
  <2>2. ASSUME NEW i \in 1..4 PROVE data[1 + i] = s[i]
    <3>1. 1 + i \in 1..5
      OBVIOUS
    <3>2. data[1 + i] = t[1 + i]
      BY <1>2, <1>3, <3>1
    <3> QED
      BY <1>2, <3>2
  <2> QED
    BY <2>1, <2>2
<1> DEFINE w == SubSeq(data, 2, 5)
<1>5. w \in Seq(K!Byte) /\ Len(w) = 4 /\ \A i \in 1..4 : w[i] = data[1 + i]
  BY <1>3, <1>4
<1> HIDE DEF w
<1>6. w = s
  <2>1. \A i \in 1..4 : w[i] = s[i]
    BY <1>4, <1>5
  <2> QED
    BY <1>5, <2>1, SameOctets
<1> QED
  BY <1>4, <1>6 DEF w

(* A colour and its brightness.                                            *)
LEMMA ColourArrives ==
  ASSUME NEW id, D!FormatOf(id) = "xyY", NEW v \in D!ValuesOf("xyY"), NEW data \in D!Pack(id, v)
  PROVE  ReadNear(id, v, data)
<1> DEFINE a == (v.x \div 256) % 256
           b == v.x % 256
           c == (v.y \div 256) % 256
           d == v.y % 256
           o == D!PackBits(v.valid)
<1>1. v \in [x : D!Word, y : D!Word, brightness : D!Byte, valid : [1..2 -> {0, 1}]]
  BY DEF D!ValuesOf
<1>2. data = <<0, a, b, c, d, v.brightness, o>>
  BY DEF D!Pack, D!U16
<1>3. v.x \in K!Word /\ v.y \in K!Word /\ v.valid \in [1..2 -> {0, 1}]
  BY <1>1, SameWords, Zenon
<1>4. a * 256 + b = v.x /\ c * 256 + d = v.y
  BY <1>3, WordOctets
<1>5. o \in 0..255 /\ o <= 15 /\ D!UnpackBits(o, 2) = v.valid
  BY <1>3, BitsReturn
<1> HIDE DEF a, b, c, d, o
<1>6. /\ Len(data) = 7 /\ data[6] = v.brightness /\ data[7] = o
      /\ data[2] = a /\ data[3] = b /\ data[4] = c /\ data[5] = d
  BY <1>2
<1>7. D!N16(data, 2) = v.x /\ D!N16(data, 4) = v.y
  BY <1>4, <1>6 DEF D!N16
<1>8. v = [x |-> v.x, y |-> v.y, brightness |-> v.brightness, valid |-> v.valid]
  BY <1>1
<1> DEFINE w == [x |-> D!N16(data, 2), y |-> D!N16(data, 4), brightness |-> data[6],
                 valid |-> D!UnpackBits(data[7], 2)]
<1>9. D!Unpack(id, data) = IF data[7] > 15 THEN D!Fails ELSE D!Got(w, Len(data))
  BY <1>6 DEF D!Unpack, D!Width
<1>10. w = v
  BY <1>5, <1>6, <1>7, <1>8
<1>11. ~(data[7] > 15)
  BY <1>5, <1>6
<1> HIDE DEF w
<1>12. D!Unpack(id, data) = D!Got(v, Len(data))
  BY <1>9, <1>10, <1>11, Zenon
<1>13. Near(id, v, v)
  BY DEF Near
<1>14. Sendable(id, v)
  BY <1>1 DEF Sendable, Floats, D!ValuesOf
<1> QED
  BY <1>12, <1>13, <1>14, NearRead

(* A colour of four parts.                                                 *)
LEMMA PartsArrive ==
  ASSUME NEW id, D!FormatOf(id) = "RGBW", NEW v \in D!ValuesOf("RGBW"), NEW data \in D!Pack(id, v)
  PROVE  ReadNear(id, v, data)
<1> DEFINE o == D!PackBits(v.valid)
           s == v.colours
<1>1. v \in [colours : D!Bytes(4), valid : [1..4 -> {0, 1}]]
  BY DEF D!ValuesOf
<1>2. s \in Seq(D!Byte) /\ Len(s) = 4 /\ v.valid \in [1..4 -> {0, 1}]
  BY <1>1 DEF D!Bytes
<1>3. data = <<0>> \o s \o <<0, o>>
  BY DEF D!Pack
<1>4. o \in 0..255 /\ o <= 15 /\ D!UnpackBits(o, 4) = v.valid
  BY <1>2, BitsReturn
<1> HIDE DEF s, o
<1>6. s \in Seq(K!Byte) /\ o \in K!Byte
  BY <1>2, <1>4, SameWords, Zenon DEF K!Byte
<1>8. Len(data) = 7 /\ data[7] = o /\ SubSeq(data, 2, 5) = s
  BY <1>2, <1>3, <1>6, FourBetween, Zenon
<1>9. v = [colours |-> s, valid |-> v.valid]
  BY <1>1 DEF s
<1> DEFINE w == [colours |-> SubSeq(data, 2, 5), valid |-> D!UnpackBits(data[7], 4)]
<1>10. D!Unpack(id, data) = IF data[7] > 15 THEN D!Fails ELSE D!Got(w, Len(data))
  BY <1>8 DEF D!Unpack, D!Width
<1>11. w = v
  BY <1>4, <1>8, <1>9, Zenon
<1>12. ~(data[7] > 15)
  BY <1>4, <1>8
<1> HIDE DEF w
<1>13. D!Unpack(id, data) = D!Got(v, Len(data))
  BY <1>10, <1>11, <1>12, Zenon
<1>14. Near(id, v, v)
  BY DEF Near
<1>15. Sendable(id, v)
  BY <1>1 DEF Sendable, Floats, D!ValuesOf
<1> QED
  BY <1>13, <1>14, <1>15, NearRead

(* How much of a text is shown: it ends with the text, before a zero or    *)
(* after fourteen characters.                                              *)
ShownEnd(text, n) ==
  /\ n \in 0..14 /\ n <= Len(text) /\ \A i \in 1..n : text[i] # 0
  /\ n = 14 \/ n = Len(text) \/ text[n + 1] = 0

(* A character that the string can hold, or a space.                       *)
Held(c, last) == IF c > last THEN 32 ELSE c

(* The last characters that the strings can hold.                          *)
Lasts == {127, 255}

(* The octet it becomes.                                                   *)
HeldWell(c, last) ==
  /\ Held(c, last) \in K!Byte
  /\ c # 0 => Held(c, last) \in 1..last
  /\ c = 0 => Held(c, last) = 0

(* It is an octet, and zero for zero only.                                 *)
LEMMA HeldIs ==
  ASSUME NEW c \in Nat, NEW last \in Lasts
  PROVE  HeldWell(c, last)
BY DEF HeldWell, Held, K!Byte, Lasts

(* The characters of a text, then zeros.                                   *)
Filled(text, i, last) == IF i > Len(text) THEN 0 ELSE Held(text[i], last)

(* What a place of the text becomes.                                       *)
FilledWell(text, i, last) ==
  /\ Filled(text, i, last) \in K!Byte
  /\ i <= Len(text) /\ text[i] # 0 =>
       Filled(text, i, last) = Held(text[i], last) /\ Held(text[i], last) \in 1..last
  /\ i > Len(text) \/ text[i] = 0 => Filled(text, i, last) = 0

(* It is an octet, and zero for what is not shown.                         *)
LEMMA FilledIs ==
  ASSUME NEW text \in Seq(Nat), NEW last \in Lasts, NEW i \in 1..14
  PROVE  FilledWell(text, i, last)
<1>1. CASE i > Len(text)
  <2>1. Filled(text, i, last) = 0 /\ ~(i <= Len(text))
    BY <1>1 DEF Filled
  <2>2. 0 \in K!Byte
    BY DEF K!Byte
  <2> QED
    BY <2>1, <2>2, Zenon DEF FilledWell
<1>2. CASE ~(i > Len(text))
  <2>1. Filled(text, i, last) = Held(text[i], last)
    BY <1>2 DEF Filled
  <2>2. text[i] \in Nat
    BY <1>2
  <2>3. HeldWell(text[i], last)
    BY <2>2, HeldIs, Zenon
  <2> QED
    BY <1>2, <2>1, <2>3, Zenon DEF HeldWell, FilledWell
<1> QED
  BY <1>1, <1>2

(* The least of a set of numbers.                                          *)
LEMMA LeastIs ==
  ASSUME NEW T, T \subseteq Nat, T # {}
  PROVE  LET m == CHOOSE i \in T : \A j \in T : i <= j
         IN  m \in T /\ \A j \in T : m <= j
<1>1. PICK x \in T : \A y \in 0..x - 1 : y \notin T
  BY LeastOf
<1>2. \A j \in T : x <= j
  <2> SUFFICES ASSUME NEW j \in T, j < x PROVE FALSE
    BY <1>1
  <2>1. j \in 0..x - 1
    BY <1>1
  <2> QED
    BY <1>1, <2>1
<1> QED
  BY <1>1, <1>2, Zenon

(* A number up to fourteen.                                                *)
LEMMA UpToFourteen ==
  ASSUME NEW n \in Nat, n <= 14
  PROVE  n \in 0..14 /\ n <= n
OBVIOUS

(* What is shown of a text.                                                *)
LEMMA ShownIs ==
  ASSUME NEW text \in Seq(Nat), NEW last
  PROVE  \E n : ShownEnd(text, n) /\ Shown(text, last) = [i \in 1..n |-> Held(text[i], last)]
<1> DEFINE stops == {i \in 1..Len(text) : text[i] = 0 \/ i = 15}
           m == CHOOSE i \in stops : \A j \in stops : i <= j
           n == IF stops = {} THEN Len(text) ELSE m - 1
<1>1. Shown(text, last) = [i \in 1..n |-> Held(text[i], last)]
  BY Zenon DEF Shown, Held
<1>2. Len(text) \in Nat
  OBVIOUS
<1>3. CASE stops = {}
  <2>1. n = Len(text)
    BY <1>3
  <2>2. \A i \in 1..Len(text) : text[i] # 0 /\ i # 15
    BY <1>3
  <2>3. Len(text) <= 14
    <3> SUFFICES ASSUME Len(text) > 14 PROVE FALSE
      BY <1>2
    <3>1. 15 \in 1..Len(text)
      BY <1>2
    <3> QED
      BY <2>2, <3>1
  <2> HIDE DEF n
  <2>4. n \in 0..14 /\ n <= Len(text)
    BY <1>2, <2>1, <2>3, UpToFourteen, Zenon
  <2>6. \A i \in 1..n : text[i] # 0
    BY <2>1, <2>2, Zenon
  <2>5. ShownEnd(text, n)
    BY <2>1, <2>4, <2>6, Zenon DEF ShownEnd
  <2> QED
    BY <1>1, <2>5
<1>4. CASE stops # {}
  <2>1. n = m - 1
    BY <1>4
  <2>2. stops \subseteq Nat
    OBVIOUS
  <2>3. m \in stops /\ \A j \in stops : m <= j
    BY <1>4, <2>2, LeastIs, Zenon
  <2> HIDE DEF n, m
  <2>4. m \in 1..Len(text) /\ (text[m] = 0 \/ m = 15)
    BY <2>3
  <2>5. \A i \in 1..m - 1 : text[i] # 0 /\ i # 15
    <3> SUFFICES ASSUME NEW i \in 1..m - 1, text[i] = 0 \/ i = 15 PROVE FALSE
      OBVIOUS
    <3>1. i \in stops /\ i < m
      BY <1>2, <2>4
    <3> QED
      BY <2>3, <2>4, <3>1
  <2>6. m <= 15
    <3> SUFFICES ASSUME m > 15 PROVE FALSE
      BY <2>4
    <3>1. 15 \in 1..m - 1
      BY <2>4
    <3> QED
      BY <2>5, <3>1
  <2>7. n \in 0..14 /\ n <= Len(text) /\ n + 1 = m
    BY <1>2, <2>1, <2>4, <2>6
  <2>8. \A i \in 1..n : text[i] # 0
    BY <2>1, <2>5
  <2>9. ShownEnd(text, n)
    BY <2>4, <2>7, <2>8 DEF ShownEnd
  <2> QED
    BY <1>1, <2>9
<1> QED
  BY <1>3, <1>4

(* What a text is packed into.                                             *)
TextData(data, text, last) ==
  /\ data \in Seq(K!Byte) /\ Len(data) = 15
  /\ \A i \in 1..14 : data[1 + i] = Filled(text, i, last)

(* How long a sequence is that is given for each place.                    *)
LEMMA LengthOfFunction ==
  ASSUME NEW n \in Nat, NEW f \in [1..n -> K!Byte]
  PROVE  Len(f) = n
OBVIOUS

(* A zero and fourteen octets.                                             *)
ZeroAnd(f, data) ==
  /\ data \in Seq(K!Byte) /\ Len(data) = 15
  /\ \A i \in 1..14 : data[1 + i] = f[i]

(* Where they are.                                                         *)
LEMMA ZeroBefore ==
  ASSUME NEW f \in [1..14 -> K!Byte]
  PROVE  ZeroAnd(f, <<0>> \o f)
<1>4. 14 \in Nat
  OBVIOUS
<1>1. f \in Seq(K!Byte) /\ Len(f) = 14
  BY <1>4, OctetsOfFunction, LengthOfFunction, Zenon
<1>2. 0 \in K!Byte /\ <<0>> \in Seq(K!Byte) /\ Len(<<0>>) = 1
  BY DEF K!Byte
<1>3. /\ <<0>> \o f \in Seq(K!Byte) /\ Len(<<0>> \o f) = Len(<<0>>) + Len(f)
      /\ \A i \in 1..Len(f) : (<<0>> \o f)[Len(<<0>>) + i] = f[i]
  BY <1>1, <1>2, Put, Zenon
<1> QED
  BY <1>1, <1>2, <1>3 DEF ZeroAnd

(* Its octets.                                                             *)
LEMMA TextOctets ==
  ASSUME NEW text \in Seq(Nat), NEW last \in Lasts
  PROVE  TextData(D!PackText(text, last), text, last)
<1> DEFINE f == [i \in 1..14 |-> Filled(text, i, last)]
           data == D!PackText(text, last)
<1>1. data = <<0>> \o f
  BY DEF D!PackText, Filled, Held
<1>2. \A i \in 1..14 : f[i] = Filled(text, i, last)
  OBVIOUS
<1>3. ASSUME NEW i \in 1..14 PROVE Filled(text, i, last) \in K!Byte
  <2>1. FilledWell(text, i, last)
    BY FilledIs, Zenon
  <2> QED
    BY <2>1, Zenon DEF FilledWell
<1>4. f \in [1..14 -> K!Byte]
  BY <1>3
<1> HIDE DEF f, data
<1>5. ZeroAnd(f, data)
  BY <1>1, <1>4, ZeroBefore, Zenon
<1>6. ASSUME NEW i \in 1..14 PROVE data[1 + i] = Filled(text, i, last)
  <2>1. data[1 + i] = f[i]
    BY <1>5, Zenon DEF ZeroAnd
  <2> QED
    BY <1>2, <2>1, Zenon
<1>7. TextData(data, text, last)
  BY <1>5, <1>6, Zenon DEF TextData, ZeroAnd
<1> QED
  BY <1>7 DEF data

(* A text is read as what is shown of it.                                  *)
LEMMA TextRead ==
  ASSUME NEW text \in Seq(Nat), NEW last \in Lasts, NEW n, ShownEnd(text, n),
         NEW data, data = D!PackText(text, last)
  PROVE  D!UnpackText(data, last) = [i \in 1..n |-> Held(text[i], last)]
<1> DEFINE ends == {i \in 2..Len(data) : data[i] = 0}
           stop == CHOOSE i \in ends \cup {Len(data) + 1} : \A j \in ends : i <= j
<1>9. TextData(data, text, last)
  BY TextOctets, Zenon
<1>1. /\ Len(data) = 15
      /\ \A i \in 1..14 : data[1 + i] = Filled(text, i, last)
  BY <1>9, Zenon DEF TextData
<1>2. D!UnpackText(data, last) = [i \in 1..stop - 2 |-> data[i + 1] % (last + 1)]
  BY Zenon DEF D!UnpackText
<1>3. /\ n \in 0..14 /\ n <= Len(text) /\ \A i \in 1..n : text[i] # 0
      /\ n = 14 \/ n = Len(text) \/ text[n + 1] = 0
  BY DEF ShownEnd
<1>4. \A i \in 1..n : data[1 + i] = Held(text[i], last) /\ Held(text[i], last) \in 1..last
  <2> SUFFICES ASSUME NEW i \in 1..n
               PROVE  data[1 + i] = Held(text[i], last) /\ Held(text[i], last) \in 1..last
    OBVIOUS
  <2>1. i \in 1..14 /\ ~(i > Len(text)) /\ i \in 1..Len(text)
    BY <1>3
  <2>2. text[i] \in Nat /\ text[i] # 0
    BY <1>3, <2>1
  <2>3. data[1 + i] = Filled(text, i, last)
    BY <1>1, <2>1
  <2>4. FilledWell(text, i, last)
    BY <2>1, FilledIs, Zenon
  <2>5. i <= Len(text)
    BY <2>1
  <2> QED
    BY <2>2, <2>3, <2>4, <2>5, Zenon DEF FilledWell
<1>5. n < 14 => data[n + 2] = 0
  <2> SUFFICES ASSUME n < 14 PROVE data[n + 2] = 0
    OBVIOUS
  <2>1. n + 1 \in 1..14 /\ 1 + (n + 1) = n + 2
    BY <1>3
  <2>2. n + 1 > Len(text) \/ text[n + 1] = 0
    BY <1>3
  <2>3. data[n + 2] = Filled(text, n + 1, last)
    BY <1>1, <2>1
  <2>4. FilledWell(text, n + 1, last)
    BY <2>1, FilledIs, Zenon
  <2> QED
    BY <2>2, <2>3, <2>4, Zenon DEF FilledWell
<1>6. stop = n + 2
  <2>1. \A j \in ends : j \in Int /\ n + 2 <= j
    <3> SUFFICES ASSUME NEW j \in ends PROVE j \in Int /\ n + 2 <= j
      OBVIOUS
    <3>9. j \in 2..15 /\ data[j] = 0
      BY <1>1
    <3> SUFFICES ASSUME j < n + 2 PROVE FALSE
      BY <1>3, <3>9
    <3>1. j \in 2..15 /\ data[j] = 0
      BY <1>1
    <3>2. j - 1 \in 1..n /\ 1 + (j - 1) = j
      BY <1>3, <3>1
    <3> QED
      BY <1>4, <3>1, <3>2
  <2>2. n + 2 \in ends \cup {Len(data) + 1}
    <3>1. CASE n = 14
      BY <1>1, <3>1
    <3>2. CASE n # 14
      <4>1. n + 2 \in 2..15 /\ data[n + 2] = 0
        BY <1>3, <1>5, <3>2
      <4> QED
        BY <1>1, <4>1
    <3> QED
      BY <3>1, <3>2
  <2>3. ASSUME NEW i \in ends \cup {Len(data) + 1}, \A j \in ends : i <= j PROVE i = n + 2
    <3>1. CASE n = 14
      <4>1. ends = {}
        <5> SUFFICES ASSUME NEW j \in ends PROVE FALSE
          OBVIOUS
        <5>1. j \in 2..15 /\ 16 <= j
          BY <1>1, <2>1, <3>1
        <5> QED
          BY <5>1
      <4> QED
        BY <1>1, <2>3, <3>1, <4>1
    <3>2. CASE n # 14
      <4>1. n + 2 \in ends
        BY <1>1, <1>3, <2>2, <3>2
      <4>2. i <= n + 2 /\ n + 2 < 16 /\ Len(data) + 1 = 16
        <5>1. i <= n + 2
          BY <2>3, <4>1, Zenon
        <5>2. n + 2 < 16
          BY <1>3, <3>2
        <5> QED
          BY <1>1, <5>1, <5>2
      <4>3. i \in ends
        BY <1>1, <1>3, <2>3, <4>2
      <4>4. i \in Int /\ n + 2 <= i
        BY <2>1, <4>3
      <4> QED
        BY <1>3, <4>2, <4>4
    <3> QED
      BY <3>1, <3>2
  <2> HIDE DEF ends
  <2>4. stop \in ends \cup {Len(data) + 1} /\ \A j \in ends : stop <= j
    BY <2>1, <2>2, Zenon
  <2> HIDE DEF stop
  <2> QED
    BY <2>3, <2>4
<1> HIDE DEF stop
<1>7. stop - 2 = n
  BY <1>3, <1>6
<1>8. \A i \in 1..n : data[i + 1] % (last + 1) = Held(text[i], last)
  <2> SUFFICES ASSUME NEW i \in 1..n PROVE data[i + 1] % (last + 1) = Held(text[i], last)
    OBVIOUS
  <2>1. data[i + 1] = Held(text[i], last) /\ Held(text[i], last) \in 1..last
    <3>1. 1 + i = i + 1
      OBVIOUS
    <3> QED
      BY <1>4, <3>1
  <2> DEFINE h == Held(text[i], last)
  <2> HIDE DEF h
  <2>2. h \in 1..last
    BY <2>1 DEF h
  <2>3. h % (last + 1) = h
    <3>1. CASE last = 127
      BY <2>2, <3>1
    <3>2. CASE last = 255
      BY <2>2, <3>2
    <3> QED
      BY <3>1, <3>2 DEF Lasts
  <2> QED
    BY <2>1, <2>3 DEF h
<1> QED
  BY <1>2, <1>7, <1>8

(* A text of fourteen characters.                                          *)
LEMMA TextArrives ==
  ASSUME NEW id, D!FormatOf(id) \in {"ASCII", "Latin1"}, NEW v \in Seq(Nat),
         NEW data \in D!Pack(id, v)
  PROVE  ReadNear(id, v, data)
<1> DEFINE last == IF D!FormatOf(id) = "ASCII" THEN 127 ELSE 255
<1>1. data = D!PackText(v, last) /\ last \in Lasts
  BY DEF D!Pack, Lasts
<1>2. Len(data) = 15
  <2> HIDE DEF last
  <2>1. TextData(data, v, last)
    BY <1>1, TextOctets, Zenon
  <2> QED
    BY <2>1, Zenon DEF TextData
<1>3. D!Unpack(id, data) = D!Got(D!UnpackText(data, last), 15)
  BY <1>2 DEF D!Unpack, D!Width
<1>4. Near(id, v, Shown(v, last))
  BY DEF Near
<1> HIDE DEF last
<1>5. PICK n : ShownEnd(v, n) /\ Shown(v, last) = [i \in 1..n |-> Held(v[i], last)]
  BY ShownIs
<1>6. D!UnpackText(data, last) = Shown(v, last)
  BY <1>1, <1>5, TextRead
<1>7. Shown(v, last) \in Seq(Nat)
  <2>1. n \in Nat /\ \A i \in 1..n : Held(v[i], last) \in Nat
    BY <1>5 DEF ShownEnd, Held
  <2> QED
    BY <1>5, <2>1
<1>8. Sendable(id, Shown(v, last))
  BY <1>7 DEF Sendable, Floats, D!ValuesOf
<1> QED
  BY <1>3, <1>4, <1>6, <1>8, NearRead

(* The flags of a date and time are the bits of two octets.                *)
LEMMA FlagsReturn ==
  ASSUME NEW flags \in SUBSET {D!Flags[k] : k \in 1..10}, NEW high, NEW low,
         D!FlagOctets(flags) = <<high, low>>
  PROVE  D!FlagsOf(high, low) = flags /\ low % 64 = 0
<1> DEFINE On(k) == IF D!Flags[k] \in flags THEN 1 ELSE 0
           b == [k \in 1..8 |-> On(k + 2)]
<1>1. high = D!PackBits(b) /\ low = 64 * On(1) + 128 * On(2)
  BY DEF D!FlagOctets
<1>2. \A k : On(k) \in {0, 1} /\ (On(k) = 1 <=> D!Flags[k] \in flags)
  OBVIOUS
<1> HIDE DEF On
<1>3. b \in [1..8 -> {0, 1}] /\ \A k \in 1..8 : b[k] = On(k + 2)
  BY <1>2
<1> HIDE DEF b
<1>4. \A i \in 1..8 : D!Bit(high, i - 1) = b[i]
  <2>1. 8 \in {2, 4, 8}
    OBVIOUS
  <2> QED
    BY <1>1, <1>3, <2>1, BitsReturn
<1>5. ASSUME NEW x \in 3..10 PROVE D!Bit(high, x - 3) = 1 <=> D!Flags[x] \in flags
  <2>1. x - 2 \in 1..8 /\ (x - 2) - 1 = x - 3 /\ (x - 2) + 2 = x
    OBVIOUS
  <2>2. D!Bit(high, x - 3) = b[x - 2] /\ b[x - 2] = On(x)
    BY <1>3, <1>4, <2>1
  <2> QED
    BY <1>2, <2>2, Zenon
<1>6. On(1) \in {0, 1} /\ On(2) \in {0, 1}
  BY <1>2, Zenon
<1>7. low % 64 = 0 /\ D!Bit(low, 6) = On(1) /\ D!Bit(low, 7) = On(2)
  <2>1. 2^6 = 64 /\ 2^7 = 128
    BY PowersOf
  <2> QED
    BY <1>1, <1>6, <2>1 DEF D!Bit
<1>8. ASSUME NEW x \in 1..2 PROVE D!Bit(low, x + 5) = 1 <=> D!Flags[x] \in flags
  <2>1. (x = 1 /\ x + 5 = 6) \/ (x = 2 /\ x + 5 = 7)
    OBVIOUS
  <2> QED
    BY <1>2, <1>7, <2>1, Zenon
<1> DEFINE on == {x \in 3..10 : D!Bit(high, x - 3) = 1} \cup {x \in 1..2 : D!Bit(low, x + 5) = 1}
<1>9. D!FlagsOf(high, low) = {D!Flags[k] : k \in on}
  BY Zenon DEF D!FlagsOf
<1>10. on = {x \in 1..10 : D!Flags[x] \in flags}
  <2>1. ASSUME NEW x PROVE x \in on <=> x \in {y \in 1..10 : D!Flags[y] \in flags}
    <3>1. CASE x \in 3..10
      <4>1. x \in 1..10 /\ x \notin 1..2
        BY <3>1
      <4> QED
        BY <1>5, <3>1, <4>1, Zenon
    <3>2. CASE x \in 1..2
      <4>1. x \in 1..10 /\ x \notin 3..10
        BY <3>2
      <4> QED
        BY <1>8, <3>2, <4>1, Zenon
    <3>3. CASE x \notin 3..10 /\ x \notin 1..2
      <4>1. x \notin 1..10
        BY <3>3
      <4> QED
        BY <3>3, <4>1, Zenon
    <3> QED
      BY <3>1, <3>2, <3>3
  <2> HIDE DEF on
  <2> QED
    BY <2>1
<1> HIDE DEF on
<1>11. {D!Flags[k] : k \in on} = flags
  BY <1>10
<1> QED
  BY <1>7, <1>9, <1>11

(* The flags of a date are flags.                                          *)
LEMMA DerivedAreFlags ==
  ASSUME NEW v, v.flags \in SUBSET {D!Flags[k] : k \in 1..10}
  PROVE  D!Derived(v) \in SUBSET {D!Flags[k] : k \in 1..10}
<1>1. D!Flags[9] = "workingDay" /\ 9 \in 1..10
  BY DEF D!Flags
<1>2. D!Flags[3] = "summerTime" /\ 3 \in 1..10
  BY DEF D!Flags
<1>3. {"workingDay", "summerTime"} \subseteq {D!Flags[k] : k \in 1..10}
  BY <1>1, <1>2
<1> QED
  BY <1>3 DEF D!Derived

(* How many days a month has.                                              *)
LEMMA DaysAreNumber ==
  ASSUME NEW y, NEW m
  PROVE  D!DaysIn(y, m) \in 28..31
BY DEF D!DaysIn

(* The sum of the days of the months before one is a number.               *)
LEMMA BeforeIsNumber ==
  ASSUME NEW y, NEW m \in 1..12
  PROVE  LET Before[k \in 1..12] == IF k = 1 THEN 0 ELSE Before[k - 1] + D!DaysIn(y, k - 1)
         IN  Before[m] \in Int
<1> DEFINE Term(f, k) == IF k = 1 THEN 0 ELSE f[k - 1] + D!DaysIn(y, k - 1)
           IsSum(f) == f = [k \in 1..12 |-> Term(f, k)]
           feb == D!DaysIn(y, 2)
           Sum(k) == CASE k = 1 -> 0 [] k = 2 -> 31 [] k = 3 -> 31 + feb [] k = 4 -> 62 + feb
                       [] k = 5 -> 92 + feb [] k = 6 -> 123 + feb [] k = 7 -> 153 + feb
                       [] k = 8 -> 184 + feb [] k = 9 -> 215 + feb [] k = 10 -> 245 + feb
                       [] k = 11 -> 276 + feb [] k = 12 -> 306 + feb
           f0 == [k \in 1..12 |-> Sum(k)]
<1>1. feb \in Int
  BY DaysAreNumber
<1>2. ASSUME NEW k \in 2..12 PROVE Sum(k) = Sum(k - 1) + D!DaysIn(y, k - 1)
  <2> HIDE DEF feb
  <2>1. D!DaysIn(y, k - 1) = IF k - 1 = 2 THEN feb ELSE IF k - 1 \in {4, 6, 9, 11} THEN 30 ELSE 31
    BY DEF feb, D!DaysIn
  <2> QED
    BY <1>1, <2>1
<1>3. IsSum(f0)
  <2> HIDE DEF Sum
  <2>1. ASSUME NEW k \in 1..12 PROVE f0[k] = Term(f0, k)
    <3>1. CASE k = 1
      BY <3>1 DEF Sum
    <3>2. CASE k # 1
      <4>1. k \in 2..12 /\ k - 1 \in 1..12
        BY <3>2
      <4> QED
        BY <1>2, <3>2, <4>1
    <3> QED
      BY <3>1, <3>2
  <2> QED
    BY <2>1
<1>4. ASSUME NEW f, IsSum(f) PROVE f[m] \in Int
  <2>1. \A k \in 1..12 : f[k] = Term(f, k)
    BY <1>4, Zenon
  <2>2. f[1] \in Int
    BY <2>1
  <2>3. \A k \in 2..12 : f[k - 1] \in Int => f[k] \in Int
    BY <2>1, DaysAreNumber
  <2> DEFINE P(k) == f[k] \in Int
  <2>4. \A k \in 1..11 : P(k) => P(k + 1)
    <3> TAKE k \in 1..11
    <3>1. k + 1 \in 2..12 /\ (k + 1) - 1 = k
      OBVIOUS
    <3> QED
      BY <2>3, <3>1
  <2>5. P(1)
    BY <2>2
  <2> HIDE DEF P
  <2>6. P(1) /\ P(2) /\ P(3) /\ P(4) /\ P(5) /\ P(6)
    BY <2>4, <2>5
  <2>7. P(7) /\ P(8) /\ P(9) /\ P(10) /\ P(11) /\ P(12)
    BY <2>4, <2>6
  <2>8. \A k \in 1..12 : P(k)
    BY <2>6, <2>7
  <2> QED
    BY <2>8 DEF P
<1> HIDE DEF IsSum
<1>5. (CHOOSE f : IsSum(f))[m] \in Int
  <2>1. IsSum(CHOOSE f : IsSum(f))
    BY <1>3, Zenon
  <2> QED
    BY <1>4, <2>1
<1> QED
  BY <1>5 DEF IsSum

(* A weekday is a number from Monday to Sunday.                            *)
LEMMA WeekdayIs ==
  ASSUME NEW y \in Int, NEW m \in 1..12, NEW d \in Nat
  PROVE  D!Weekday(y, m, d) \in 1..7
<1> DEFINE leaps == {x \in 1900..y - 1 : D!Leap(x)}
<1>1. Cardinality(leaps) \in Nat
  <2>1. IsFiniteSet(1900..y - 1)
    BY FS_Interval
  <2>2. IsFiniteSet(leaps)
    BY <2>1, FS_Subset
  <2> QED
    BY <2>2, FS_CardinalityType
<1>2. D!Cardinality(leaps) \in Nat
  BY <1>1, Zenon DEF D!Cardinality, Cardinality
<1> DEFINE c == D!Cardinality(leaps)
           before == CHOOSE f : f = [k \in 1..12 |-> IF k = 1 THEN 0 ELSE f[k - 1] + D!DaysIn(y, k - 1)]
<1>3. before[m] \in Int
  BY BeforeIsNumber
<1>4. D!Weekday(y, m, d) = 1 + ((365 * (y - 1900) + c + before[m] + d - 1) % 7)
  BY DEF D!Weekday
<1> HIDE DEF c, before
<1>5. 365 * (y - 1900) + c + before[m] + d - 1 \in Int
  BY <1>2, <1>3 DEF c
<1> DEFINE n == 365 * (y - 1900) + c + before[m] + d - 1
<1> HIDE DEF n
<1>6. n % 7 \in 0..6
  BY <1>5 DEF n
<1> QED
  BY <1>4, <1>6 DEF n

(* Nine octets, of which the first is not read.                            *)
IsNine(data, b, c, d, e, f, g, h, l) ==
  /\ Len(data) = 9 /\ data[2] = b /\ data[3] = c /\ data[4] = d /\ data[5] = e
  /\ data[6] = f /\ data[7] = g /\ data[8] = h /\ data[9] = l

(* They are seven and two.                                                 *)
LEMMA NineOctets ==
  ASSUME NEW a, NEW b, NEW c, NEW d, NEW e, NEW f, NEW g, NEW h, NEW l,
         NEW data, data = <<a, b, c, d, e, f, g>> \o <<h, l>>
  PROVE  IsNine(data, b, c, d, e, f, g, h, l)
BY DEF IsNine

(* A date and time that is one arrives, with the flags of its date.        *)
LEMMA DateTimeArrives ==
  ASSUME NEW id, D!FormatOf(id) = "DateTime", NEW v \in D!ValuesOf("DateTime"),
         D!DateTimeValid(v), NEW data \in D!Pack(id, v)
  PROVE  ReadNear(id, v, data)
<1> DEFINE All == {D!Flags[k] : k \in 1..10}
<1>1. v \in [date : D!Moments \cup {D!Midnight}, dst : BOOLEAN, flags : SUBSET All]
  BY DEF D!ValuesOf
<1>2. v.flags \in SUBSET All /\ v = [date |-> v.date, dst |-> v.dst, flags |-> v.flags]
  BY <1>1
<1>3. data = D!PackDateTime(v)
  BY DEF D!Pack
<1>4. Len(data) = 9 => D!Unpack(id, data) = D!UnpackDateTime(data)
  BY DEF D!Unpack, D!Width
<1> HIDE DEF All
<1>5. CASE v.date = D!Midnight
  <2>1. PICK high, low : D!FlagOctets(v.flags) = <<high, low>>
    BY DEF D!FlagOctets
  <2>2. D!FlagsOf(high, low) = v.flags /\ low % 64 = 0
    BY <1>2, <2>1, FlagsReturn DEF All
  <2>3. data = <<0, 0, 0, 0, 24, 0, 0>> \o D!FlagOctets(v.flags)
    BY <1>3, <1>5 DEF D!PackDateTime
  <2>4. IsNine(data, 0, 0, 0, 24, 0, 0, high, low)
    BY <2>1, <2>3, NineOctets, Zenon
  <2>5. /\ Len(data) = 9 /\ data[5] = 24 /\ data[6] = 0 /\ data[7] = 0
        /\ data[8] = high /\ data[9] = low
    BY <2>4, Zenon DEF IsNine
  <2> DEFINE w == [flags |-> D!FlagsOf(data[8], data[9]), date |-> D!Midnight, dst |-> FALSE]
  <2>6. w = [flags |-> v.flags, date |-> v.date, dst |-> FALSE]
    BY <1>5, <2>2, <2>5
  <2>7. D!DateTimeValid(w)
    BY <2>6 DEF D!DateTimeValid
  <2>8. D!UnpackDateTime(data) = D!Got(w, 9)
    <3> DEFINE date == <<data[2] + 1900, data[3] % 16, data[4] % 32, data[5] % 32,
                         data[6] % 64, data[7] % 64>>
               u == [flags |-> D!FlagsOf(data[8], data[9]),
                     date |-> IF data[5] % 32 = 24 THEN D!Midnight ELSE date, dst |-> FALSE]
               InDate == /\ D!IsTime(data[5] % 32, data[6] % 64, data[7] % 64)
                         /\ D!IsDate(date[1], date[2], date[3])
    <3>1. D!UnpackDateTime(data)
            = IF \/ data[9] % 64 # 0
                 \/ data[5] % 32 = 24 /\ (data[6] % 64 # 0 \/ data[7] % 64 # 0)
                 \/ data[5] % 32 # 24 /\ ~InDate
                 \/ ~D!DateTimeValid(u)
                THEN D!Fails ELSE D!Got(u, 9)
      BY Zenon DEF D!UnpackDateTime
    <3>2. data[5] % 32 = 24 /\ data[6] % 64 = 0 /\ data[7] % 64 = 0 /\ data[9] % 64 = 0
      BY <2>2, <2>5
    <3>3. u = w
      <4>1. (IF data[5] % 32 = 24 THEN D!Midnight ELSE date) = D!Midnight
        BY <3>2
      <4> HIDE DEF date
      <4> QED
        BY <4>1, Zenon
    <3> HIDE DEF InDate, u, w
    <3> QED
      BY <2>7, <3>1, <3>2, <3>3, Zenon
  <2> HIDE DEF w
  <2>9. D!Unpack(id, data) = D!Got(w, 9)
    BY <1>4, <2>5, <2>8, Zenon
  <2>10. Near(id, v, w)
    BY <1>5, <2>6 DEF Near
  <2>11. w \in D!ValuesOf("DateTime")
    BY <1>1, <1>2, <2>6 DEF D!ValuesOf, All
  <2>12. Sendable(id, w)
    BY <2>7, <2>11 DEF Sendable, Floats
  <2> QED
    BY <2>9, <2>10, <2>12, NearRead
<1>6. CASE v.date # D!Midnight
  <2> DEFINE d == v.date
             W == D!Weekday(d[1], d[2], d[3])
             F == D!Derived(v)
             u == [flags |-> F, date |-> d, dst |-> FALSE]
  <2>1. d \in D!Moments
    BY <1>1, <1>6
  <2>2. /\ d \in Int \X Nat \X Nat \X Nat \X Nat \X Nat
        /\ D!IsDate(d[1], d[2], d[3]) /\ D!IsTime(d[4], d[5], d[6])
    BY <2>1 DEF D!Moments
  <2> HIDE DEF d
  <2>3. /\ d[1] \in Int /\ d[2] \in 1..12 /\ d[3] \in 1..31 /\ d[4] \in 0..23
        /\ d[5] \in 0..59 /\ d[6] \in 0..59
    <3>1. /\ d[1] \in Int /\ d[2] \in Nat /\ d[3] \in Nat /\ d[4] \in Nat
          /\ d[5] \in Nat /\ d[6] \in Nat
      BY <2>2
    <3>2. D!DaysIn(d[1], d[2]) \in 28..31
      BY DaysAreNumber
    <3> QED
      BY <2>2, <3>1, <3>2 DEF D!IsDate, D!IsTime
  <2>4. d = <<d[1], d[2], d[3], d[4], d[5], d[6]>>
    BY <2>2
  <2>5. W \in 1..7
    <3>1. d[3] \in Nat
      BY <2>3
    <3> QED
      BY <2>3, <3>1, WeekdayIs, Zenon
  <2>6. F \in SUBSET All
    BY <1>2, DerivedAreFlags DEF All
  <2>7. PICK high, low : D!FlagOctets(F) = <<high, low>>
    BY DEF D!FlagOctets
  <2>8. D!FlagsOf(high, low) = F /\ low % 64 = 0
    BY <2>6, <2>7, FlagsReturn DEF All
  <2>9. data = <<0, d[1] - 1900, d[2], d[3], 32 * W + d[4], d[5], d[6]>> \o D!FlagOctets(F)
    BY <1>3, <1>6 DEF D!PackDateTime, d
  <2> HIDE DEF W, F
  <2>10. IsNine(data, d[1] - 1900, d[2], d[3], 32 * W + d[4], d[5], d[6], high, low)
    <3> DEFINE x == d[1] - 1900
               z == 32 * W + d[4]
    <3>1. data = <<0, x, d[2], d[3], z, d[5], d[6]>> \o D!FlagOctets(F)
      BY <2>9
    <3> HIDE DEF x, z
    <3>2. data = <<0, x, d[2], d[3], z, d[5], d[6]>> \o <<high, low>>
      BY <2>7, <3>1, Zenon
    <3>3. IsNine(data, x, d[2], d[3], z, d[5], d[6], high, low)
      BY <3>2, NineOctets, Zenon
    <3> QED
      BY <3>3 DEF x, z
  <2>11. /\ Len(data) = 9 /\ data[2] = d[1] - 1900 /\ data[3] = d[2] /\ data[4] = d[3]
         /\ data[5] = 32 * W + d[4] /\ data[6] = d[5] /\ data[7] = d[6]
         /\ data[8] = high /\ data[9] = low
    BY <2>10, SMT DEF IsNine
  <2>12. /\ data[2] + 1900 = d[1] /\ data[3] % 16 = d[2] /\ data[4] % 32 = d[3]
         /\ data[5] % 32 = d[4] /\ data[6] % 64 = d[5] /\ data[7] % 64 = d[6]
    BY <2>3, <2>5, <2>11
  <2>13. u = [flags |-> F, date |-> d, dst |-> FALSE] /\ u.date = d
    OBVIOUS
  <2>14. D!DateTimeValid(u)
    BY <1>6, <2>13 DEF D!DateTimeValid, d
  <2> HIDE DEF u
  <2>15. D!UnpackDateTime(data) = D!Got(u, 9)
    <3> DEFINE date == <<data[2] + 1900, data[3] % 16, data[4] % 32, data[5] % 32,
                         data[6] % 64, data[7] % 64>>
               w == [flags |-> D!FlagsOf(data[8], data[9]),
                     date |-> IF data[5] % 32 = 24 THEN D!Midnight ELSE date, dst |-> FALSE]
               InDate == /\ D!IsTime(data[5] % 32, data[6] % 64, data[7] % 64)
                         /\ D!IsDate(date[1], date[2], date[3])
    <3>1. D!UnpackDateTime(data)
            = IF \/ data[9] % 64 # 0
                 \/ data[5] % 32 = 24 /\ (data[6] % 64 # 0 \/ data[7] % 64 # 0)
                 \/ data[5] % 32 # 24 /\ ~InDate
                 \/ ~D!DateTimeValid(w)
                THEN D!Fails ELSE D!Got(w, 9)
      BY Zenon DEF D!UnpackDateTime
    <3>2. data[5] % 32 # 24
      BY <2>3, <2>12
    <3>3. date = <<d[1], d[2], d[3], d[4], d[5], d[6]>>
      BY <2>12
    <3>4. date = d
      BY <2>4, <3>3
    <3>5. InDate
      BY <2>2, <2>12, <3>4
    <3>6. w = u
      <4>1. (IF data[5] % 32 = 24 THEN D!Midnight ELSE date) = d
        BY <3>2, <3>4
      <4>2. D!FlagsOf(data[8], data[9]) = F
        BY <2>8, <2>11
      <4> HIDE DEF date
      <4> QED
        BY <2>13, <4>1, <4>2, Zenon
    <3>7. data[9] % 64 = 0
      BY <2>8, <2>11
    <3> HIDE DEF InDate, w
    <3> QED
      BY <2>14, <3>1, <3>2, <3>5, <3>6, <3>7, Zenon
  <2>20. Len(data) = 9
    BY <2>11
  <2>16. D!Unpack(id, data) = D!Got(u, 9)
    BY <1>4, <2>15, <2>20
  <2>17. Near(id, v, u)
    BY <1>6 DEF Near, u, F, d
  <2>18. u \in D!ValuesOf("DateTime")
    BY <2>1, <2>6, <2>13 DEF D!ValuesOf, All
  <2>19. Sendable(id, u)
    BY <2>14, <2>18 DEF Sendable, Floats
  <2> QED
    BY <2>16, <2>17, <2>19, NearRead
<1> QED
  BY <1>5, <1>6

(* A date and time that is none is refused.                                *)
LEMMA NoDateTimeFails ==
  ASSUME NEW id, D!FormatOf(id) = "DateTime", NEW v, ~D!DateTimeValid(v), NEW data \in D!Pack(id, v)
  PROVE  D!Unpack(id, data).res = "error"
<1>1. data = [i \in 1..9 |-> 0]
  BY DEF D!Pack, D!PackDateTime
<1>2. Len(data) = 9 /\ data[3] = 0 /\ data[5] = 0
  BY <1>1
<1>3. D!Unpack(id, data) = D!UnpackDateTime(data)
  BY <1>2 DEF D!Unpack, D!Width
<1>4. ~D!IsDate(data[2] + 1900, data[3] % 16, data[4] % 32)
  BY <1>2 DEF D!IsDate
<1>5. data[5] % 32 # 24
  BY <1>2
<1>6. D!UnpackDateTime(data) = D!Fails
  BY <1>4, <1>5 DEF D!UnpackDateTime
<1> QED
  BY <1>3, <1>6 DEF D!Fails
-----------------------------------------------------------------------------
(* The formats there are.                                                  *)
FormatNames == {"B1", "Scaled", "U8", "V8", "U16", "F16", "Time", "Date", "U32", "V32", "F32",
                "ASCII", "Latin1", "Scene", "SceneControl", "DateTime", "VarString", "xyY", "RGBW"}

(* A registered type has one of them, and only one type has strings of     *)
(* variable length.                                                        *)
LEMMA FormatIs ==
  ASSUME NEW id \in D!Registered
  PROVE  /\ D!FormatOf(id) \in FormatNames
         /\ D!FormatOf(id) = "VarString" => id = <<28, 1>>
<1>1. D!Formats = FormatNames
  BY DEF D!Formats, D!Types, FormatNames
<1>2. \E f \in D!Formats : id \in D!Types[f]
  BY Zenon DEF D!Registered
<1>3. D!FormatOf(id) \in D!Formats /\ id \in D!Types[D!FormatOf(id)]
  BY <1>2, Zenon DEF D!FormatOf
<1>4. D!Types["VarString"] = {<<28, 1>>}
  BY DEF D!Types
<1> QED
  BY <1>1, <1>3, <1>4, Zenon

(* The values of each format.                                              *)
LEMMA ValuesAre ==
  /\ D!ValuesOf("B1") = {0, 1}
  /\ \A f \in {"U8", "Scene", "SceneControl"} : D!ValuesOf(f) = K!Byte
  /\ D!ValuesOf("V8") = -128..127
  /\ D!ValuesOf("U16") = K!Word
  /\ \A f \in {"U32", "V32", "F32"} : D!ValuesOf(f) = D!Long
  /\ \A f \in {"Scaled", "F16"} : D!ValuesOf(f) = {NaN} \cup Int
  /\ \A f \in {"ASCII", "Latin1", "VarString"} : D!ValuesOf(f) = Seq(Nat)
<1>1. D!ValuesOf("B1") = {0, 1}
  BY SMT DEF D!ValuesOf
<1>2. \A f \in {"U8", "Scene", "SceneControl"} : D!ValuesOf(f) = K!Byte
  BY SameWords, SMT DEF D!ValuesOf
<1>3. D!ValuesOf("V8") = -128..127
  BY SMT DEF D!ValuesOf
<1>4. D!ValuesOf("U16") = K!Word
  BY SameWords, SMT DEF D!ValuesOf
<1>5. \A f \in {"U32", "V32", "F32"} : D!ValuesOf(f) = D!Long
  BY SMT DEF D!ValuesOf
<1>6. \A f \in {"Scaled", "F16"} : D!ValuesOf(f) = {NaN} \cup Int
  BY SMT DEF D!ValuesOf
<1>7. \A f \in {"ASCII", "Latin1", "VarString"} : D!ValuesOf(f) = Seq(Nat)
  BY SMT DEF D!ValuesOf
<1> QED
  BY <1>1, <1>2, <1>3, <1>4, <1>5, <1>6, <1>7, Zenon

(* What Pack makes of any value that can be sent, Unpack accepts.          *)
LEMMA SendableArrives ==
  ASSUME NEW id \in D!Registered, NEW v, Sendable(id, v), NEW data \in D!Pack(id, v)
  PROVE  ReadNear(id, v, data)
<1>1. D!FormatOf(id) \in FormatNames
  BY FormatIs
<1>2. /\ v \in D!ValuesOf(D!FormatOf(id))
      /\ D!FormatOf(id) = "DateTime" => D!DateTimeValid(v)
      /\ D!FormatOf(id) \in Floats => v \in Int
  BY Zenon DEF Sendable
<1>3. CASE D!FormatOf(id) \in {"B1", "U8", "V8"}
  <2>1. \/ D!FormatOf(id) = "B1" /\ v \in {0, 1}
        \/ D!FormatOf(id) = "U8" /\ v \in K!Byte
        \/ D!FormatOf(id) = "V8" /\ v \in -128..127
    BY <1>2, <1>3, ValuesAre, Zenon
  <2> QED
    BY <2>1, SmallArrives, Zenon
<1>4. CASE D!FormatOf(id) = "Scaled"
  <2>1. v \in Int
    BY <1>2, <1>4, Zenon DEF Floats
  <2> QED
    BY <1>4, <2>1, ScaledArrives, Zenon
<1>5. CASE D!FormatOf(id) = "U16"
  <2>1. v \in K!Word
    BY <1>2, <1>5, ValuesAre, SMT
  <2> QED
    BY <1>5, <2>1, WordArrives, Zenon
<1>6. CASE D!FormatOf(id) = "F16"
  <2>1. v \in Int
    BY <1>2, <1>6, Zenon DEF Floats
  <2> QED
    BY <1>6, <2>1, FloatArrives, Zenon
<1>7. CASE D!FormatOf(id) = "Time"
  BY <1>2, <1>7, TimeArrives, Zenon
<1>8. CASE D!FormatOf(id) = "Date"
  BY <1>2, <1>8, DateArrives, Zenon
<1>9. CASE D!FormatOf(id) \in {"U32", "V32", "F32"}
  <2>1. v \in D!Long
    BY <1>2, <1>9, ValuesAre, SMT
  <2> QED
    BY <1>9, <2>1, LongArrives, SMT
<1>10. CASE D!FormatOf(id) \in {"ASCII", "Latin1"}
  <2>1. v \in Seq(Nat)
    BY <1>2, <1>10, ValuesAre, SMT
  <2> QED
    BY <1>10, <2>1, TextArrives, SMT
<1>11. CASE D!FormatOf(id) \in {"Scene", "SceneControl"}
  <2>1. v \in K!Byte
    BY <1>2, <1>11, ValuesAre, SMT
  <2> QED
    BY <1>11, <2>1, SceneArrives, SMT
<1>12. CASE D!FormatOf(id) = "DateTime"
  BY <1>2, <1>12, DateTimeArrives, Zenon
<1>13. CASE D!FormatOf(id) = "VarString"
  <2>1. v \in Seq(Nat)
    BY <1>2, <1>13, ValuesAre, SMT
  <2> QED
    BY <1>13, <2>1, VarStringArrives, Zenon
<1>14. CASE D!FormatOf(id) = "xyY"
  BY <1>2, <1>14, ColourArrives, Zenon
<1>15. CASE D!FormatOf(id) = "RGBW"
  BY <1>2, <1>15, PartsArrive, Zenon
<1> QED
  BY <1>1, <1>3, <1>4, <1>5, <1>6, <1>7, <1>8, <1>9, <1>10, <1>11, <1>12, <1>13, <1>14, <1>15
     DEF FormatNames

(* What Pack makes of any value of the type's Go type, Unpack accepts as   *)
(* the value that was meant, and it can be sent again.  Only an invalid    *)
(* date and time is refused, and so may be what Pack makes of NaN.         *)
THEOREM ValueArrives ==
  ASSUME NEW id \in D!Registered, NEW v \in D!ValuesOf(D!FormatOf(id)),
         NEW data \in D!Pack(id, v)
  PROVE  LET r == D!Unpack(id, data)
         IN  Arrives(id, v, r) /\ (r.res = "ok" => Sendable(id, r.value))
<1> DEFINE r == D!Unpack(id, data)
           f == D!FormatOf(id)
<1>1. CASE Sendable(id, v)
  <2>1. ReadNear(id, v, data)
    BY <1>1, SendableArrives
  <2> QED
    BY <1>1, <2>1 DEF ReadNear, Arrives, Sendable
<1>2. CASE f \in Floats /\ v \notin Int
  <2>1. v = NaN
    BY <1>2, ValuesAre, Zenon DEF Floats
  <2> QED
    BY <1>2, <2>1, NaNArrives, Zenon
<1>3. CASE f = "DateTime" /\ ~D!DateTimeValid(v)
  <2>1. r.res = "error"
    BY <1>3, NoDateTimeFails
  <2> HIDE DEF r
  <2> QED
    BY <1>3, <2>1 DEF Arrives, r
<1> QED
  BY <1>1, <1>2, <1>3, Zenon DEF Sendable

(* What is read is in the range of a value that can be sent.               *)
CanSend(id, r) ==
  /\ r.res = "ok" => Sendable(id, r.value)
  /\ r.res # "outside"

(* It is, if it is a value.                                                *)
LEMMA ReadValue ==
  ASSUME NEW id, NEW r, NEW w, NEW n,
         \/ r = D!Fails
         \/ /\ r = D!Got(w, n) /\ w \in D!ValuesOf(D!FormatOf(id)) /\ D!FormatOf(id) # "DateTime"
            /\ D!FormatOf(id) \in Floats => w \in Int
  PROVE  CanSend(id, r)
<1>1. CASE r = D!Fails
  BY <1>1 DEF D!Fails, CanSend
<1>2. CASE /\ r = D!Got(w, n) /\ w \in D!ValuesOf(D!FormatOf(id)) /\ D!FormatOf(id) # "DateTime"
           /\ D!FormatOf(id) \in Floats => w \in Int
  <2>1. r.res = "ok" /\ r.value = w
    BY <1>2 DEF D!Got
  <2>2. Sendable(id, w)
    BY <1>2, Zenon DEF Sendable, Floats
  <2>3. r.res # "outside"
    BY <2>1
  <2> QED
    BY <2>1, <2>2, <2>3, Zenon DEF CanSend
<1> QED
  BY <1>1, <1>2

(* Octets of a telegram.                                                   *)
LEMMA OctetAt ==
  ASSUME NEW data \in Seq(K!Byte), NEW i \in 1..Len(data)
  PROVE  data[i] \in K!Byte
OBVIOUS

(* An octet as a number, as a bit and with a sign.                         *)
LEMMA OctetNumbers ==
  ASSUME NEW b \in K!Byte
  PROVE  b \in Nat /\ b \in Int /\ b % 2 \in {0, 1} /\ D!S8(b) \in -128..127
BY SMT DEF K!Byte, D!S8

(* Four octets are a number of 32 bits.                                    *)
FourAre(a, b, c, d) == a * 16777216 + b * 65536 + c * 256 + d

LEMMA FourOctets ==
  ASSUME NEW a \in -128..127, NEW b \in K!Byte, NEW c \in K!Byte, NEW d \in K!Byte
  PROVE  FourAre(a, b, c, d) \in D!Long
BY SMT DEF K!Byte, D!Long, FourAre

(* Numbers that are read are numbers.                                      *)
LEMMA NumbersRead ==
  ASSUME NEW id, NEW data \in Seq(K!Byte),
         D!FormatOf(id) \in {"B1", "U8", "Scaled", "V8", "U16", "U32", "V32", "F32",
                             "Scene", "SceneControl"}
  PROVE  CanSend(id, D!Unpack(id, data))
<1> DEFINE f == D!FormatOf(id)
           r == D!Unpack(id, data)
<1>1. CASE Len(data) # D!Width[f]
  <2>1. r = D!Fails
    BY <1>1 DEF D!Unpack
  <2> QED
    BY <2>1, ReadValue, Zenon
<1>2. CASE Len(data) = D!Width[f] /\ f = "B1"
  <2>1. Len(data) = 1
    BY <1>2 DEF D!Width
  <2>2. data[1] \in K!Byte
    BY <2>1, OctetAt
  <2>3. data[1] % 2 \in {0, 1}
    BY <2>2, OctetNumbers, Zenon
  <2>4. r = D!Got(data[1] % 2, Len(data))
    BY <1>2 DEF D!Unpack
  <2>5. data[1] % 2 \in D!ValuesOf(f) /\ f # "DateTime" /\ f \notin Floats
    BY <1>2, <2>3, ValuesAre, SMT DEF Floats
  <2> QED
    BY <2>4, <2>5, ReadValue, Zenon
<1>3. CASE Len(data) = D!Width[f] /\ f \in {"U8", "Scaled", "V8", "Scene", "SceneControl"}
  <2>1. Len(data) = 2
    BY <1>3 DEF D!Width
  <2>2. data[2] \in K!Byte
    BY <2>1, OctetAt
  <2>3. 63 \in K!Byte
    BY DEF K!Byte
  <2>4. CASE f = "U8"
    <3>1. r = D!Got(data[2], Len(data))
      BY <1>3, <2>4 DEF D!Unpack
    <3>2. data[2] \in D!ValuesOf(f) /\ f # "DateTime" /\ f \notin Floats
      BY <2>2, <2>4, ValuesAre, SMT DEF Floats
    <3> QED
      BY <3>1, <3>2, ReadValue, Zenon
  <2>5. CASE f = "Scaled"
    <3>1. r = D!Got(data[2], Len(data))
      BY <1>3, <2>5 DEF D!Unpack
    <3>2. data[2] \in Int
      BY <2>2, OctetNumbers, Zenon
    <3>3. data[2] \in D!ValuesOf(f) /\ f # "DateTime"
      BY <2>5, <3>2, ValuesAre, SMT
    <3> QED
      BY <3>1, <3>2, <3>3, ReadValue, Zenon
  <2>6. CASE f = "V8"
    <3>1. r = D!Got(D!S8(data[2]), Len(data))
      BY <1>3, <2>6 DEF D!Unpack
    <3>2. D!S8(data[2]) \in -128..127
      BY <2>2, OctetNumbers, Zenon
    <3>3. D!S8(data[2]) \in D!ValuesOf(f) /\ f # "DateTime" /\ f \notin Floats
      BY <2>6, <3>2, ValuesAre, SMT DEF Floats
    <3> QED
      BY <3>1, <3>3, ReadValue, Zenon
  <2>7. CASE f \in {"Scene", "SceneControl"}
    <3> DEFINE n == IF D!InScenes(data[2], f) THEN data[2] ELSE 63
    <3>1. r = D!Got(n, Len(data))
      BY <1>3, <2>7 DEF D!Unpack
    <3>2. n \in K!Byte
      BY <2>2, <2>3
    <3> HIDE DEF n
    <3>3. n \in D!ValuesOf(f) /\ f # "DateTime" /\ f \notin Floats
      BY <2>7, <3>2, ValuesAre, SMT DEF Floats
    <3> QED
      BY <3>1, <3>3, ReadValue, Zenon
  <2> QED
    BY <1>3, <2>4, <2>5, <2>6, <2>7
<1>4. CASE Len(data) = D!Width[f] /\ f = "U16"
  <2>1. Len(data) = 3
    BY <1>4 DEF D!Width
  <2> 2 \in 1..Len(data) /\ 3 \in 1..Len(data)
    BY <2>1
  <2>2. data[2] \in K!Byte /\ data[3] \in K!Byte
    BY OctetAt, Zenon
  <2>3. D!N16(data, 2) = data[2] * 256 + data[3]
    BY DEF D!N16
  <2>4. D!N16(data, 2) \in K!Word
    BY <2>2, <2>3, OctetsWord
  <2>5. r = D!Got(D!N16(data, 2), Len(data))
    BY <1>4 DEF D!Unpack
  <2>6. D!N16(data, 2) \in D!ValuesOf(f) /\ f # "DateTime" /\ f \notin Floats
    BY <1>4, <2>4, ValuesAre, SMT DEF Floats
  <2> QED
    BY <2>5, <2>6, ReadValue, Zenon
<1>5. CASE Len(data) = D!Width[f] /\ f \in {"U32", "V32", "F32"}
  <2>1. Len(data) = 5
    BY <1>5 DEF D!Width
  <2>2. data[2] \in K!Byte /\ data[3] \in K!Byte /\ data[4] \in K!Byte /\ data[5] \in K!Byte
    BY <2>1, OctetAt
  <2> DEFINE n == D!N32(data, 2)
  <2>3. n = FourAre(D!S8(data[2]), data[3], data[4], data[5])
    BY SMT DEF D!N32, FourAre
  <2>4. D!S8(data[2]) \in -128..127
    BY <2>2, OctetNumbers, Zenon
  <2>5. r = D!Got(n, Len(data))
    BY <1>5 DEF D!Unpack
  <2> HIDE DEF n
  <2>6. n \in D!Long
    BY <2>2, <2>3, <2>4, FourOctets, Zenon
  <2>7. n \in D!ValuesOf(f) /\ f # "DateTime" /\ f \notin Floats
    BY <1>5, <2>6, ValuesAre, SMT DEF Floats
  <2> QED
    BY <2>5, <2>7, ReadValue, Zenon
<1> QED
  BY <1>1, <1>2, <1>3, <1>4, <1>5
-----------------------------------------------------------------------------
(* What is read from parts of an octet.                                    *)
OctetReads(b) ==
  /\ b % 16 \in K!Byte /\ b % 32 \in K!Byte /\ b % 64 \in K!Byte /\ b % 128 \in K!Byte
  /\ b \div 32 \in K!Byte /\ b % 8 \in Nat /\ (b \div 8) % 16 \in 0..15 /\ b + 1900 \in Int
  /\ b \in Nat
OctetBits(b) == \A k \in 1..4 : D!Bit(b, k - 1) \in {0, 1}
OctetBelow(b, last) == b % (last + 1) \in Nat

(* It is an octet, a number, bits.                                         *)
LEMMA OctetParts ==
  ASSUME NEW b \in K!Byte
  PROVE  /\ OctetReads(b)
         /\ OctetBits(b)
         /\ \A last \in Lasts : OctetBelow(b, last)
<1>1. /\ b % 16 \in K!Byte /\ b % 32 \in K!Byte /\ b % 64 \in K!Byte /\ b % 128 \in K!Byte
      /\ b \div 32 \in K!Byte /\ b % 8 \in Nat /\ (b \div 8) % 16 \in 0..15 /\ b + 1900 \in Int
      /\ b \in Nat
  BY DEF K!Byte
<1>2. ASSUME NEW k \in 1..4 PROVE D!Bit(b, k - 1) \in {0, 1}
  <2>1. 2^0 = 1 /\ 2^1 = 2 /\ 2^2 = 4 /\ 2^3 = 8
    BY PowersOf
  <2>2. b \div 1 \in Nat /\ b \div 2 \in Nat /\ b \div 4 \in Nat /\ b \div 8 \in Nat
    BY DEF K!Byte
  <2>3. \/ k - 1 = 0 \/ k - 1 = 1 \/ k - 1 = 2 \/ k - 1 = 3
    OBVIOUS
  <2>4. b \div (2^(k - 1)) \in Nat
    BY <2>1, <2>2, <2>3
  <2> DEFINE q == b \div (2^(k - 1))
  <2> HIDE DEF q
  <2>5. q % 2 \in {0, 1}
    BY <2>4 DEF q
  <2> QED
    BY <2>5 DEF D!Bit, q
<1>3. \A last \in Lasts : b % (last + 1) \in Nat
  BY DEF K!Byte, Lasts
<1>4. OctetReads(b)
  BY <1>1, Zenon DEF OctetReads
<1>5. OctetBits(b)
  BY <1>2, Zenon DEF OctetBits
<1>6. \A last \in Lasts : OctetBelow(b, last)
  BY <1>3, Zenon DEF OctetBelow
<1> QED
  BY <1>4, <1>5, <1>6, Zenon

(* A number of two octets that is read is a number.                        *)
LEMMA FloatRead ==
  ASSUME NEW id, NEW data \in Seq(K!Byte), D!FormatOf(id) = "F16"
  PROVE  CanSend(id, D!Unpack(id, data))
<1>1. CASE Len(data) # D!Width["F16"]
  <2>1. D!Unpack(id, data) = D!Fails
    BY <1>1 DEF D!Unpack
  <2> QED
    BY <2>1, ReadValue, Zenon
<1>2. CASE Len(data) = D!Width["F16"]
  <2>1. Len(data) = 3
    BY <1>2 DEF D!Width
  <2> 2 \in 1..Len(data) /\ 3 \in 1..Len(data)
    BY <2>1
  <2>2. data[2] \in K!Byte /\ data[3] \in K!Byte
    BY OctetAt, Zenon
  <2> DEFINE m == (data[2] % 8) * 256 + data[3] - (IF data[2] >= 128 THEN 2048 ELSE 0)
             p == 2^((data[2] \div 8) % 16)
             w == D!UnpackF16(data)
             l == D!Limits(id)
  <2>3. data[2] % 8 \in Nat /\ (data[2] \div 8) % 16 \in 0..15 /\ data[3] \in Nat /\ data[2] \in Nat
    <3>1. OctetReads(data[2]) /\ OctetReads(data[3])
      BY <2>2, OctetParts, Zenon
    <3> QED
      BY <3>1, SMT DEF OctetReads
  <2>4. m \in Int
    BY <2>3
  <2>5. p \in Powers
    BY <2>3, PowerIn, Zenon
  <2>6. w = m * p
    BY SMT DEF D!UnpackF16
  <2> HIDE DEF m, p, w
  <2>7. p \in Int
    BY <2>5, SMT DEF Powers
  <2>8. w \in Int
    BY <2>4, <2>6, <2>7
  <2>9. D!Unpack(id, data) = D!Fails \/ D!Unpack(id, data) = D!Got(w, Len(data))
    BY <1>2 DEF D!Unpack, w
  <2>10. w \in D!ValuesOf("F16")
    BY <2>8, ValuesAre, SMT
  <2> QED
    BY <2>8, <2>9, <2>10, ReadValue, Zenon
<1> QED
  BY <1>1, <1>2

(* A time that is read is a time.                                          *)
LEMMA TimeRead ==
  ASSUME NEW id, NEW data \in Seq(K!Byte), D!FormatOf(id) = "Time"
  PROVE  CanSend(id, D!Unpack(id, data))
<1>1. CASE Len(data) # D!Width["Time"]
  <2>1. D!Unpack(id, data) = D!Fails
    BY <1>1 DEF D!Unpack
  <2> QED
    BY <2>1, ReadValue, Zenon
<1>2. CASE Len(data) = D!Width["Time"]
  <2>1. Len(data) = 4
    BY <1>2 DEF D!Width
  <2> 2 \in 1..Len(data) /\ 3 \in 1..Len(data) /\ 4 \in 1..Len(data)
    BY <2>1
  <2>2. data[2] \in K!Byte /\ data[3] \in K!Byte /\ data[4] \in K!Byte
    BY OctetAt, Zenon
  <2> DEFINE w == [weekday |-> data[2] \div 32, hour |-> data[2] % 32,
                   minute |-> data[3] % 64, second |-> data[4] % 64]
  <2>3. /\ data[2] \div 32 \in D!Byte /\ data[2] % 32 \in D!Byte
        /\ data[3] % 64 \in D!Byte /\ data[4] % 64 \in D!Byte
    <3>1. OctetReads(data[2]) /\ OctetReads(data[3]) /\ OctetReads(data[4])
      BY <2>2, OctetParts, Zenon
    <3> QED
      BY <3>1, SameWords, SMT DEF OctetReads
  <2>4. w \in [weekday : D!Byte, hour : D!Byte, minute : D!Byte, second : D!Byte]
    BY <2>3, Zenon
  <2>5. D!UnpackTime(data) = D!Fails \/ D!UnpackTime(data) = D!Got(w, 4)
    BY Zenon DEF D!UnpackTime
  <2> HIDE DEF w
  <2>6. D!Unpack(id, data) = D!Fails \/ D!Unpack(id, data) = D!Got(w, 4)
    BY <1>2, <2>5 DEF D!Unpack
  <2>7. w \in D!ValuesOf("Time")
    BY <2>4 DEF D!ValuesOf
  <2> QED
    BY <2>6, <2>7, ReadValue, Zenon DEF Floats
<1> QED
  BY <1>1, <1>2

(* The year of two digits.                                                 *)
YearOf(y) == y + (IF y >= 90 THEN 1900 ELSE 2000)

LEMMA YearIs ==
  ASSUME NEW y \in 0..255
  PROVE  YearOf(y) \in D!Word
<1>1. PICK h \in K!Byte, l \in K!Byte : YearOf(y) = h * 256 + l
  <2>1. YearOf(y) \in Int /\ 1900 <= YearOf(y) /\ YearOf(y) <= 2255
    BY DEF YearOf
  <2> HIDE DEF YearOf
  <2>2. CASE YearOf(y) < 2048
    <3>1. 7 \in K!Byte /\ YearOf(y) - 1792 \in K!Byte
      BY <2>1, <2>2 DEF K!Byte
    <3>2. YearOf(y) = 7 * 256 + (YearOf(y) - 1792)
      BY <2>1
    <3> QED
      BY <3>1, <3>2
  <2>3. CASE ~(YearOf(y) < 2048)
    <3>1. 8 \in K!Byte /\ YearOf(y) - 2048 \in K!Byte
      BY <2>1, <2>3 DEF K!Byte
    <3>2. YearOf(y) = 8 * 256 + (YearOf(y) - 2048)
      BY <2>1
    <3> QED
      BY <3>1, <3>2
  <2> QED
    BY <2>2, <2>3
<1>2. h * 256 + l \in K!Word
  BY OctetsWord
<1> QED
  BY <1>1, <1>2, SameWords, Zenon

(* A date that is read is a date.                                          *)
LEMMA DateRead ==
  ASSUME NEW id, NEW data \in Seq(K!Byte), D!FormatOf(id) = "Date"
  PROVE  CanSend(id, D!Unpack(id, data))
<1>1. CASE Len(data) # D!Width["Date"]
  <2>1. D!Unpack(id, data) = D!Fails
    BY <1>1 DEF D!Unpack
  <2> QED
    BY <2>1, ReadValue, Zenon
<1>2. CASE Len(data) = D!Width["Date"]
  <2>1. Len(data) = 4
    BY <1>2 DEF D!Width
  <2> 2 \in 1..Len(data) /\ 3 \in 1..Len(data) /\ 4 \in 1..Len(data)
    BY <2>1
  <2>2. data[2] \in K!Byte /\ data[3] \in K!Byte /\ data[4] \in K!Byte
    BY OctetAt, Zenon
  <2> DEFINE y == data[4] % 128
             m == data[3] % 16
             d == data[2] % 32
             year == y + (IF y >= 90 THEN 1900 ELSE 2000)
             w == IF <<d, m, y>> = <<0, 0, 0>> THEN [year |-> 1990, month |-> 1, day |-> 1]
                  ELSE [year |-> year, month |-> m, day |-> d]
  <2>3. y \in D!Byte /\ m \in D!Byte /\ d \in D!Byte
    <3>1. OctetReads(data[2]) /\ OctetReads(data[3]) /\ OctetReads(data[4])
      BY <2>2, OctetParts, Zenon
    <3> QED
      BY <3>1, SameWords, SMT DEF OctetReads
  <2>5. D!UnpackDate(data) = D!Fails \/ D!UnpackDate(data) = D!Got(w, 4)
    <3> DEFINE ok == y <= 99 /\ D!DateValid(w)
    <3>1. D!UnpackDate(data) = IF ok THEN D!Got(w, 4) ELSE D!Fails
      BY Zenon DEF D!UnpackDate
    <3> HIDE DEF ok, w
    <3> QED
      BY <3>1
  <2> HIDE DEF y, m, d
  <2>8. year \in D!Word /\ 1990 \in D!Word /\ 1 \in D!Byte
    <3>1. y \in 0..255
      BY <2>3, Zenon DEF D!Byte
    <3>2. YearOf(y) \in D!Word
      BY <3>1, YearIs, Zenon
    <3>3. year = YearOf(y)
      BY DEF YearOf
    <3>4. 1990 \in D!Word /\ 1 \in D!Byte
      BY DEF D!Word, D!Byte
    <3> HIDE DEF year
    <3> QED
      BY <3>2, <3>3, <3>4
  <2> HIDE DEF year
  <2>4. w \in [year : D!Word, month : D!Byte, day : D!Byte]
    BY <2>3, <2>8
  <2> HIDE DEF w
  <2>6. D!Unpack(id, data) = D!Fails \/ D!Unpack(id, data) = D!Got(w, 4)
    BY <1>2, <2>5 DEF D!Unpack
  <2>7. w \in D!ValuesOf("Date")
    BY <2>4 DEF D!ValuesOf
  <2> QED
    BY <2>6, <2>7, ReadValue, Zenon DEF Floats
<1> QED
  BY <1>1, <1>2

(* A value for each place is a sequence.                                   *)
LEMMA IsASequence ==
  ASSUME NEW n \in Nat, NEW S, NEW f \in [1..n -> S]
  PROVE  f \in Seq(S)
OBVIOUS

(* The characters of a text that is read are characters.                   *)
LEMMA UnpackTextIs ==
  ASSUME NEW data \in Seq(K!Byte), NEW last \in Lasts, Len(data) = 15
  PROVE  D!UnpackText(data, last) \in Seq(Nat)
<1> DEFINE ends == {i \in 2..Len(data) : data[i] = 0}
           T == ends \cup {Len(data) + 1}
           stop == CHOOSE i \in T : \A j \in ends : i <= j
           m == CHOOSE i \in T : \A j \in T : i <= j
           w == [i \in 1..stop - 2 |-> data[i + 1] % (last + 1)]
<1>1. T \subseteq 2..16 /\ T # {}
  OBVIOUS
<1>2. m \in T /\ \A j \in T : m <= j
  <2>1. T \subseteq Nat
    BY <1>1
  <2> HIDE DEF T
  <2> QED
    BY <1>1, <2>1, LeastIs
<1>3. \E i \in T : \A j \in ends : i <= j
  <2> HIDE DEF m
  <2> QED
    BY <1>2
<1>4. stop \in T
  BY <1>3, Zenon
<1> HIDE DEF stop, m
<1>5. stop - 2 \in 0..14 /\ stop \in Int
  BY <1>1, <1>4
<1>6. ASSUME NEW i \in 1..stop - 2 PROVE data[i + 1] % (last + 1) \in Nat
  <2>1. i + 1 \in 1..Len(data)
    BY <1>5
  <2>2. data[i + 1] \in K!Byte
    BY <2>1, OctetAt, Zenon
  <2>3. OctetBelow(data[i + 1], last)
    BY <2>2, OctetParts, Zenon
  <2> QED
    BY <2>3, Zenon DEF OctetBelow
<1>7. w \in [1..stop - 2 -> Nat]
  BY <1>6, Zenon
<1>8. w \in Seq(Nat)
  <2> HIDE DEF w
  <2> QED
    <3>1. stop - 2 \in Nat
      BY <1>5
    <3> QED
      BY <3>1, <1>7, IsASequence, Zenon
<1> QED
  BY <1>8, Zenon DEF D!UnpackText, stop

(* A text that is read is a text.                                          *)
LEMMA TextIsRead ==
  ASSUME NEW id, NEW data \in Seq(K!Byte), D!FormatOf(id) \in {"ASCII", "Latin1"}
  PROVE  CanSend(id, D!Unpack(id, data))
<1> DEFINE f == D!FormatOf(id)
<1>4. D!Width[f] = 15 /\ f # "VarString" /\ f # "DateTime"
  BY SMT DEF D!Width
<1>1. CASE Len(data) # 15
  <2>1. D!Unpack(id, data) = D!Fails
    BY <1>1, <1>4, Zenon DEF D!Unpack
  <2> QED
    BY <2>1, ReadValue, Zenon
<1>2. CASE Len(data) = 15
  <2>1. PICK last \in Lasts : D!Unpack(id, data) = D!Got(D!UnpackText(data, last), Len(data))
    <3>1. CASE f = "ASCII"
      <4>1. D!Unpack(id, data) = D!Got(D!UnpackText(data, 127), Len(data))
        BY <1>2, <1>4, <3>1 DEF D!Unpack
      <4> QED
        BY <4>1 DEF Lasts
    <3>2. CASE f = "Latin1"
      <4>1. D!Unpack(id, data) = D!Got(D!UnpackText(data, 255), Len(data))
        BY <1>2, <1>4, <3>2 DEF D!Unpack
      <4> QED
        BY <4>1 DEF Lasts
    <3> QED
      BY <3>1, <3>2
  <2>2. D!UnpackText(data, last) \in Seq(Nat)
    BY <1>2, UnpackTextIs, Zenon
  <2>3. D!ValuesOf(f) = Seq(Nat)
    BY ValuesAre, SMT
  <2> QED
    BY <1>4, <2>1, <2>2, <2>3, ReadValue, Zenon DEF Floats
<1> QED
  BY <1>1, <1>2
-----------------------------------------------------------------------------
(* Parts of a date.                                                        *)
LEMMA OctetMoments ==
  ASSUME NEW b \in K!Byte
  PROVE  b + 1900 \in Int /\ b % 16 \in Nat /\ b % 32 \in Nat /\ b % 64 \in Nat
BY DEF K!Byte

(* Bits of an octet.                                                       *)
LEMMA BitsRead ==
  ASSUME NEW b \in K!Byte, NEW n \in {2, 4}
  PROVE  D!UnpackBits(b, n) \in [1..n -> {0, 1}]
<1>1. ASSUME NEW k \in 1..n PROVE D!Bit(b, k - 1) \in {0, 1}
  <2>1. k \in 1..4
    OBVIOUS
  <2>2. OctetBits(b)
    BY OctetParts, Zenon
  <2> QED
    BY <2>1, <2>2, Zenon DEF OctetBits
<1> QED
  BY <1>1, Zenon DEF D!UnpackBits

(* A sequence of octets is one of numbers.                                 *)
LEMMA BytesAreNumbers ==
  ASSUME NEW s \in Seq(K!Byte)
  PROVE  s \in Seq(Nat)
<1>1. \A i \in 1..Len(s) : s[i] \in Nat
  <2>1. \A i \in 1..Len(s) : s[i] \in K!Byte
    OBVIOUS
  <2>2. \A b \in K!Byte : b \in Nat
    BY DEF K!Byte
  <2> QED
    BY <2>1, <2>2, Zenon
<1>2. s \in [1..Len(s) -> Nat]
  <2>1. s \in [1..Len(s) -> K!Byte]
    OBVIOUS
  <2> QED
    BY <1>1, <2>1, Zenon
<1>3. Len(s) \in Nat
  OBVIOUS
<1> QED
  BY <1>2, <1>3, IsASequence, Zenon

(* What stands in a date and time.                                         *)
DateTimes ==
  [flags : SUBSET {D!Flags[k] : k \in 1..10}, date : D!Moments \cup {D!Midnight}, dst : {FALSE}]

(* A date and time that is read is one, and can be sent.                   *)
LEMMA UnpackDateTimeIs ==
  ASSUME NEW data \in Seq(K!Byte), Len(data) = 9
  PROVE  LET r == D!UnpackDateTime(data)
         IN  \/ r = D!Fails
             \/ \E w \in DateTimes : r = D!Got(w, 9) /\ D!DateTimeValid(w)
<1> DEFINE h == data[5] % 32
           m == data[6] % 64
           s == data[7] % 64
           date == <<data[2] + 1900, data[3] % 16, data[4] % 32, h, m, s>>
           w == [flags |-> D!FlagsOf(data[8], data[9]),
                 date |-> IF h = 24 THEN D!Midnight ELSE date, dst |-> FALSE]
           In == D!IsTime(h, m, s) /\ D!IsDate(date[1], date[2], date[3])
           bad == \/ data[9] % 64 # 0
                  \/ h = 24 /\ (m # 0 \/ s # 0)
                  \/ h # 24 /\ ~In
                  \/ ~D!DateTimeValid(w)
<1>1. D!UnpackDateTime(data) = IF bad THEN D!Fails ELSE D!Got(w, 9)
  BY Zenon DEF D!UnpackDateTime
<1>2. D!FlagsOf(data[8], data[9]) \in SUBSET {D!Flags[k] : k \in 1..10}
  <2> DEFINE on == {x \in 3..10 : D!Bit(data[8], x - 3) = 1}
                   \cup {x \in 1..2 : D!Bit(data[9], x + 5) = 1}
  <2>1. D!FlagsOf(data[8], data[9]) = {D!Flags[k] : k \in on}
    BY Zenon DEF D!FlagsOf
  <2>2. on \subseteq 1..10
    <3>1. 3..10 \subseteq 1..10 /\ 1..2 \subseteq 1..10
      OBVIOUS
    <3> QED
      BY <3>1, Zenon
  <2> HIDE DEF on
  <2> QED
    BY <2>1, <2>2, Zenon
<1>3. /\ data[2] \in K!Byte /\ data[3] \in K!Byte /\ data[4] \in K!Byte /\ data[5] \in K!Byte
      /\ data[6] \in K!Byte /\ data[7] \in K!Byte
  <2>1. 2 \in 1..Len(data) /\ 3 \in 1..Len(data) /\ 4 \in 1..Len(data) /\ 5 \in 1..Len(data)
    OBVIOUS
  <2>2. 6 \in 1..Len(data) /\ 7 \in 1..Len(data)
    OBVIOUS
  <2> QED
    BY <2>1, <2>2, OctetAt, Zenon
<1>4. /\ data[2] + 1900 \in Int /\ data[3] % 16 \in Nat /\ data[4] % 32 \in Nat
      /\ h \in Nat /\ m \in Nat /\ s \in Nat
  <2>1. data[2] + 1900 \in Int /\ data[3] % 16 \in Nat
    BY <1>3, OctetMoments, SMT
  <2>2. data[4] % 32 \in Nat /\ h \in Nat
    BY <1>3, OctetMoments, SMT
  <2>3. m \in Nat /\ s \in Nat
    BY <1>3, OctetMoments, SMT
  <2> QED
    BY <2>1, <2>2, <2>3
<1>5. SUFFICES ASSUME ~bad PROVE w \in DateTimes /\ D!DateTimeValid(w)
  <2> HIDE DEF bad, w
  <2> QED
    BY <1>1, Zenon
<1>6. D!DateTimeValid(w)
  BY <1>5, Zenon
<1>7. CASE h = 24
  <2>1. w = [flags |-> D!FlagsOf(data[8], data[9]), date |-> D!Midnight, dst |-> FALSE]
    <3>1. (IF h = 24 THEN D!Midnight ELSE date) = D!Midnight
      BY <1>7
    <3> HIDE DEF date
    <3> QED
      BY <3>1, Zenon
  <2>2. D!Midnight \in D!Moments \cup {D!Midnight}
    OBVIOUS
  <2> HIDE DEF w
  <2>3. w \in DateTimes
    BY <1>2, <2>1, <2>2, Zenon DEF DateTimes
  <2> QED
    BY <1>6, <2>3
<1>8. CASE h # 24
  <2>1. w = [flags |-> D!FlagsOf(data[8], data[9]), date |-> date, dst |-> FALSE]
    BY <1>8, SMT
  <2>2. In
    BY <1>5, <1>8, Zenon
  <2>3. date \in D!Moments
    <3> DEFINE y == data[2] + 1900
               mo == data[3] % 16
               d == data[4] % 32
    <3>1. D!IsDate(y, mo, d) /\ D!IsTime(h, m, s)
      BY <2>2, SMT
    <3> HIDE DEF y, mo, d, h, m, s
    <3>2. y \in Int /\ mo \in Nat /\ d \in Nat /\ h \in Nat /\ m \in Nat /\ s \in Nat
      BY <1>4, SMT DEF y, mo, d, h, m, s
    <3>3. <<y, mo, d, h, m, s>> \in D!Moments
      BY <3>1, <3>2 DEF D!Moments
    <3> QED
      BY <3>3 DEF y, mo, d
  <2> HIDE DEF w, date
  <2>4. w \in DateTimes
    BY <1>2, <2>1, <2>3, Zenon DEF DateTimes
  <2> QED
    BY <1>6, <2>4
<1> QED
  BY <1>7, <1>8

(* It can be sent.                                                         *)
LEMMA DateTimeRead ==
  ASSUME NEW id, NEW data \in Seq(K!Byte), D!FormatOf(id) = "DateTime"
  PROVE  CanSend(id, D!Unpack(id, data))
<1>0. D!Width["DateTime"] = 9
  BY DEF D!Width
<1>1. CASE Len(data) # 9
  <2>1. D!Unpack(id, data) = D!Fails
    BY <1>0, <1>1 DEF D!Unpack
  <2> QED
    BY <2>1, ReadValue, Zenon
<1>2. CASE Len(data) = 9
  <2>1. D!Unpack(id, data) = D!UnpackDateTime(data)
    BY <1>0, <1>2 DEF D!Unpack
  <2>2. CASE D!UnpackDateTime(data) = D!Fails
    BY <2>1, <2>2, ReadValue, Zenon
  <2>3. CASE \E w \in DateTimes : D!UnpackDateTime(data) = D!Got(w, 9) /\ D!DateTimeValid(w)
    <3>1. PICK w \in DateTimes : D!UnpackDateTime(data) = D!Got(w, 9) /\ D!DateTimeValid(w)
      BY <2>3, Zenon
    <3>2. w \in D!ValuesOf("DateTime")
      BY DEF DateTimes, D!ValuesOf
    <3>3. Sendable(id, w)
      BY <3>1, <3>2, Zenon DEF Sendable, Floats
    <3>4. D!Unpack(id, data).res = "ok" /\ D!Unpack(id, data).value = w
      BY <2>1, <3>1 DEF D!Got
    <3> QED
      BY <3>3, <3>4 DEF CanSend
  <2> QED
    BY <1>2, <2>2, <2>3, UnpackDateTimeIs, Zenon
<1> QED
  BY <1>1, <1>2

(* A colour that is read is a colour.                                      *)
LEMMA ColourRead ==
  ASSUME NEW id, NEW data \in Seq(K!Byte), D!FormatOf(id) = "xyY"
  PROVE  CanSend(id, D!Unpack(id, data))
<1>0. D!Width["xyY"] = 7
  BY DEF D!Width
<1>1. CASE Len(data) # 7
  <2>1. D!Unpack(id, data) = D!Fails
    BY <1>0, <1>1 DEF D!Unpack
  <2> QED
    BY <2>1, ReadValue, Zenon
<1>2. CASE Len(data) = 7
  <2> DEFINE w == [x |-> D!N16(data, 2), y |-> D!N16(data, 4), brightness |-> data[6],
                   valid |-> D!UnpackBits(data[7], 2)]
  <2>1. D!Unpack(id, data) = D!Fails \/ D!Unpack(id, data) = D!Got(w, Len(data))
    <3>1. D!Unpack(id, data) = IF data[7] > 15 THEN D!Fails ELSE D!Got(w, Len(data))
      BY <1>0, <1>2 DEF D!Unpack
    <3> HIDE DEF w
    <3> QED
      BY <3>1
  <2>2. /\ data[2] \in K!Byte /\ data[3] \in K!Byte /\ data[4] \in K!Byte /\ data[5] \in K!Byte
        /\ data[6] \in K!Byte /\ data[7] \in K!Byte
    <3>1. 2 \in 1..Len(data) /\ 3 \in 1..Len(data) /\ 4 \in 1..Len(data) /\ 5 \in 1..Len(data)
      BY <1>2
    <3>2. 6 \in 1..Len(data) /\ 7 \in 1..Len(data)
      BY <1>2
    <3> QED
      BY <3>1, <3>2, OctetAt, Zenon
  <2>3. D!N16(data, 2) = data[2] * 256 + data[3] /\ D!N16(data, 4) = data[4] * 256 + data[5]
    BY DEF D!N16
  <2>4. D!N16(data, 2) \in K!Word /\ D!N16(data, 4) \in K!Word
    BY <2>2, <2>3, OctetsWord
  <2>5. D!UnpackBits(data[7], 2) \in [1..2 -> {0, 1}]
    BY <2>2, BitsRead, Zenon
  <2>6. w \in [x : D!Word, y : D!Word, brightness : D!Byte, valid : [1..2 -> {0, 1}]]
    BY <2>2, <2>4, <2>5, SameWords, Zenon
  <2> HIDE DEF w
  <2>7. w \in D!ValuesOf("xyY")
    BY <2>6 DEF D!ValuesOf
  <2> QED
    BY <2>1, <2>7, ReadValue, Zenon DEF Floats
<1> QED
  BY <1>1, <1>2

(* So is one of four parts.                                                *)
LEMMA PartsRead ==
  ASSUME NEW id, NEW data \in Seq(K!Byte), D!FormatOf(id) = "RGBW"
  PROVE  CanSend(id, D!Unpack(id, data))
<1>0. D!Width["RGBW"] = 7
  BY DEF D!Width
<1>1. CASE Len(data) # 7
  <2>1. D!Unpack(id, data) = D!Fails
    BY <1>0, <1>1 DEF D!Unpack
  <2> QED
    BY <2>1, ReadValue, Zenon
<1>2. CASE Len(data) = 7
  <2> DEFINE w == [colours |-> SubSeq(data, 2, 5), valid |-> D!UnpackBits(data[7], 4)]
  <2>1. D!Unpack(id, data) = D!Fails \/ D!Unpack(id, data) = D!Got(w, Len(data))
    <3>1. D!Unpack(id, data) = IF data[7] > 15 THEN D!Fails ELSE D!Got(w, Len(data))
      BY <1>0, <1>2 DEF D!Unpack
    <3> HIDE DEF w
    <3> QED
      BY <3>1
  <2>2. data[7] \in K!Byte
    <3>1. 7 \in 1..Len(data)
      BY <1>2
    <3> QED
      BY <3>1, OctetAt, Zenon
  <2>3. SubSeq(data, 2, 5) \in Seq(K!Byte) /\ Len(SubSeq(data, 2, 5)) = 4
    BY <1>2
  <2>4. SubSeq(data, 2, 5) \in D!Bytes(4)
    BY <2>3, SameWords DEF D!Bytes
  <2>5. D!UnpackBits(data[7], 4) \in [1..4 -> {0, 1}]
    BY <2>2, BitsRead, Zenon
  <2>6. w \in [colours : D!Bytes(4), valid : [1..4 -> {0, 1}]]
    BY <2>4, <2>5, Zenon
  <2> HIDE DEF w
  <2>7. w \in D!ValuesOf("RGBW")
    BY <2>6 DEF D!ValuesOf
  <2> QED
    BY <2>1, <2>7, ReadValue, Zenon DEF Floats
<1> QED
  BY <1>1, <1>2

(* Whatever data a telegram has, it is refused or read as a value that can *)
(* be sent; only a string of variable length has data that is too short to *)
(* be sliced.                                                              *)
THEOREM AnyDataRead ==
  ASSUME NEW id \in D!Registered, NEW data \in Seq(K!Byte)
  PROVE  /\ D!Unpack(id, data).res = "ok" => Sendable(id, D!Unpack(id, data).value)
         /\ D!Unpack(id, data).res = "outside" => id = <<28, 1>> /\ Len(data) < 2
<1>1. CASE D!FormatOf(id) = "VarString"
  <2>1. D!Unpack(id, data) = D!UnpackVarString(data)
    BY <1>1 DEF D!Unpack
  <2>2. CASE Len(data) < 2
    <3>1. D!Unpack(id, data) = [res |-> "outside"]
      BY <2>1, <2>2 DEF D!UnpackVarString, D!Outside
    <3> QED
      BY <1>1, <2>2, <3>1, FormatIs
  <2>3. CASE ~(Len(data) < 2)
    <3> DEFINE s == SubSeq(data, 2, Len(data) - 1)
    <3>1. D!Unpack(id, data) = D!Got(s, Len(data))
      BY <2>1, <2>3 DEF D!UnpackVarString
    <3>2. s \in Seq(K!Byte)
      BY <2>3
    <3> HIDE DEF s
    <3>3. s \in Seq(Nat)
      BY <3>2, BytesAreNumbers, Zenon
    <3>4. s \in D!ValuesOf(D!FormatOf(id))
      BY <1>1, <3>3, ValuesAre, SMT
    <3>5. CanSend(id, D!Unpack(id, data))
      BY <1>1, <3>1, <3>4, ReadValue, SMT DEF Floats
    <3> QED
      BY <3>5, Zenon DEF CanSend
  <2> QED
    BY <2>2, <2>3
<1>2. CASE D!FormatOf(id) # "VarString"
  <2>1. CanSend(id, D!Unpack(id, data))
    <3>1. D!FormatOf(id) \in FormatNames
      BY FormatIs
    <3>2. \/ D!FormatOf(id) \in {"B1", "U8", "Scaled", "V8", "U16", "U32", "V32", "F32",
                                 "Scene", "SceneControl"}
          \/ D!FormatOf(id) = "F16" \/ D!FormatOf(id) = "Time" \/ D!FormatOf(id) = "Date"
          \/ D!FormatOf(id) \in {"ASCII", "Latin1"} \/ D!FormatOf(id) = "DateTime"
          \/ D!FormatOf(id) = "xyY" \/ D!FormatOf(id) = "RGBW"
      BY <1>2, <3>1 DEF FormatNames
    <3> QED
      BY <3>2, NumbersRead, FloatRead, TimeRead, DateRead, TextIsRead, DateTimeRead, ColourRead,
         PartsRead
  <2> QED
    BY <2>1, Zenon DEF CanSend
<1> QED
  BY <1>1, <1>2
-----------------------------------------------------------------------------
(* The types of the two modules are the same.                              *)
LEMMA SameFormats ==
  /\ G!D!Registered = D!Registered
  /\ \A id : G!D!FormatOf(id) = D!FormatOf(id)
<1>1. G!D!Types = D!Types
  BY Zenon DEF G!D!Types, D!Types, G!D!Switches, D!Switches, G!D!Fractions, D!Fractions,
     G!D!Octets, D!Octets, G!D!Signed, D!Signed, G!D!Counters, D!Counters,
     G!D!Measured, D!Measured, G!D!Meters, D!Meters, G!D!Physical, D!Physical,
     G!D!Modes, D!Modes
<1>2. G!D!Formats = D!Formats
  BY <1>1, Zenon DEF G!D!Formats, D!Formats
<1> QED
  BY <1>1, <1>2, Zenon DEF G!D!Registered, D!Registered, G!D!FormatOf, D!FormatOf

(* Numbers are packed alike.                                               *)
LEMMA SameNumbers ==
  ASSUME NEW v
  PROVE  /\ G!D!U8(v) = D!U8(v) /\ G!D!U16(v) = D!U16(v) /\ G!D!U32(v) = D!U32(v)
         /\ G!D!ScaledOctets(v) = D!ScaledOctets(v)
<1>1. G!D!U8(v) = D!U8(v) /\ G!D!U16(v) = D!U16(v)
  BY Zenon DEF G!D!U8, D!U8, G!D!U16, D!U16
<1>2. G!D!U32(v) = D!U32(v)
  BY SMT DEF G!D!U32, D!U32
<1>3. G!D!ScaledOctets(v) = D!ScaledOctets(v)
  BY Zenon DEF G!D!ScaledOctets, D!ScaledOctets
<1> QED
  BY <1>1, <1>2, <1>3, Zenon

(* So are numbers of two octets.                                           *)
LEMMA SameFloats ==
  ASSUME NEW v, NEW id
  PROVE  {G!D!PackF16(h) : h \in G!D!Hundredths(G!D!Limited(v, G!D!Limits(id)))}
           = {D!PackF16(h) : h \in D!Hundredths(D!Limited(v, D!Limits(id)))}
<1>1. G!D!Limits(id) = D!Limits(id)
  BY SMT DEF G!D!Limits, D!Limits
<1>2. ASSUME NEW l PROVE G!D!Limited(v, l) = D!Limited(v, l)
  BY SMT DEF G!D!Limited, D!Limited
<1>3. ASSUME NEW a PROVE G!D!FloatStep(a) = D!FloatStep(a)
  BY SMT DEF G!D!FloatStep, D!FloatStep
<1>4. ASSUME NEW h PROVE G!D!Hundredths(h) = D!Hundredths(h)
  <2>1. \A a : G!D!FloatCut(a) = D!FloatCut(a)
    BY <1>3, Zenon DEF G!D!FloatCut, D!FloatCut
  <2> DEFINE Made(above, below) == IF h = NaN THEN {-32768, 0}
                                   ELSE IF h >= 0 THEN above ELSE {-x : x \in below}
  <2>2. G!D!Hundredths(h) = Made(G!D!FloatCut(h), G!D!FloatCut(-h))
    BY SMT DEF G!D!Hundredths
  <2>3. D!Hundredths(h) = Made(D!FloatCut(h), D!FloatCut(-h))
    BY SMT DEF D!Hundredths
  <2> HIDE DEF Made
  <2> QED
    BY <2>1, <2>2, <2>3, Zenon
<1>5. ASSUME NEW x, NEW e PROVE G!D!Halved(x, e) = D!Halved(x, e)
  BY Zenon DEF G!D!Halved, D!Halved
<1>6. G!D!Largest = D!Largest /\ G!D!Smallest = D!Smallest
  BY SMT DEF G!D!Largest, D!Largest, G!D!Smallest, D!Smallest
<1>7. ASSUME NEW h PROVE G!D!PackF16(h) = D!PackF16(h)
  <2> DEFINE c == IF h > D!Largest THEN D!Largest ELSE IF h < D!Smallest THEN D!Smallest ELSE h
             FitsD(e) == -2048 <= D!Halved(c, e) /\ D!Halved(c, e) <= 2047
             FitsG(e) == -2048 <= G!D!Halved(c, e) /\ G!D!Halved(c, e) <= 2047
             e1 == CHOOSE x \in 0..16 : FitsD(x) /\ \A y \in 0..x - 1 : ~FitsD(y)
             e2 == CHOOSE x \in 0..16 : FitsG(x) /\ \A y \in 0..x - 1 : ~FitsG(y)
             Octets(m, e) == <<0, (IF m < 0 THEN 128 ELSE 0) + 8 * (e % 16)
                                    + ((IF m < 0 THEN m + 2048 ELSE m) \div 256),
                               (IF m < 0 THEN m + 2048 ELSE m) % 256>>
  <2>1. D!PackF16(h) = Octets(D!Halved(c, e1), e1)
    BY SMT DEF D!PackF16
  <2>2. G!D!PackF16(h) = Octets(G!D!Halved(c, e2), e2)
    BY <1>6, SMT DEF G!D!PackF16
  <2>3. e1 = e2
    <3> HIDE DEF c
    <3>1. \A e : FitsD(e) <=> FitsG(e)
      BY <1>5, SMT
    <3> HIDE DEF FitsD, FitsG
    <3> QED
      BY <3>1, SMT
  <2> HIDE DEF e1, e2, Octets, c
  <2> QED
    BY <1>5, <2>1, <2>2, <2>3, Zenon
<1> QED
  BY <1>1, <1>2, <1>4, <1>7, Zenon

(* So are times, dates, texts and scenes.                                  *)
LEMMA SameStructures ==
  ASSUME NEW v
  PROVE  /\ G!D!TimeValid(v) = D!TimeValid(v) /\ G!D!DateValid(v) = D!DateValid(v)
         /\ \A last : G!D!PackText(v, last) = D!PackText(v, last)
         /\ \A f : G!D!InScenes(v, f) = D!InScenes(v, f)
         /\ G!D!PackBits(v) = D!PackBits(v)
<1>1. G!D!TimeValid(v) = D!TimeValid(v)
  BY Zenon DEF G!D!TimeValid, D!TimeValid, G!D!IsTime, D!IsTime
<1>2. G!D!DateValid(v) = D!DateValid(v)
  BY Zenon DEF G!D!DateValid, D!DateValid, G!D!IsDate, D!IsDate, G!D!DaysIn, D!DaysIn,
     G!D!Leap, D!Leap
<1>3. \A last : G!D!PackText(v, last) = D!PackText(v, last)
  BY Zenon DEF G!D!PackText, D!PackText
<1>4. \A f : G!D!InScenes(v, f) = D!InScenes(v, f)
  BY Zenon DEF G!D!InScenes, D!InScenes
<1>5. G!D!PackBits(v) = D!PackBits(v)
  BY Zenon DEF G!D!PackBits, D!PackBits
<1> QED
  BY <1>1, <1>2, <1>3, <1>4, <1>5, Zenon

(* So is a date and time.                                                  *)
LEMMA SameDateTimes ==
  ASSUME NEW v
  PROVE  G!D!PackDateTime(v) = D!PackDateTime(v)
<1>1. G!D!Flags = D!Flags /\ G!D!Midnight = D!Midnight
  BY Zenon DEF G!D!Flags, D!Flags, G!D!Midnight, D!Midnight
<1>2. ASSUME NEW flags PROVE G!D!FlagOctets(flags) = D!FlagOctets(flags)
  <2> DEFINE On(k) == IF D!Flags[k] \in flags THEN 1 ELSE 0
             b == [k \in 1..8 |-> On(k + 2)]
             low == 64 * On(1) + 128 * On(2)
  <2>1. D!FlagOctets(flags) = <<D!PackBits(b), low>>
    BY Zenon DEF D!FlagOctets
  <2>2. G!D!FlagOctets(flags) = <<G!D!PackBits(b), low>>
    BY <1>1, Zenon DEF G!D!FlagOctets
  <2> HIDE DEF b, low
  <2> QED
    BY <2>1, <2>2, SameStructures, Zenon
<1>3. ASSUME NEW y, NEW m, NEW d PROVE G!D!Weekday(y, m, d) = D!Weekday(y, m, d)
  <2>1. \A k : G!D!DaysIn(y, k) = D!DaysIn(y, k)
    BY Zenon DEF G!D!DaysIn, D!DaysIn, G!D!Leap, D!Leap
  <2> DEFINE L == {x \in 1900..y - 1 : D!Leap(x)}
             LG == {x \in 1900..y - 1 : G!D!Leap(x)}
             B == CHOOSE f : f = [k \in 1..12 |-> IF k = 1 THEN 0 ELSE f[k - 1] + D!DaysIn(y, k - 1)]
             BG == CHOOSE f : f = [k \in 1..12 |-> IF k = 1 THEN 0 ELSE f[k - 1] + G!D!DaysIn(y, k - 1)]
             W(c, b) == 1 + ((365 * (y - 1900) + c + b + d - 1) % 7)
  <2>2. L = LG
    BY SMT DEF G!D!Leap, D!Leap
  <2>3. B = BG
    <3> DEFINE Sum(f) == [k \in 1..12 |-> IF k = 1 THEN 0 ELSE f[k - 1] + D!DaysIn(y, k - 1)]
               SumG(f) == [k \in 1..12 |-> IF k = 1 THEN 0 ELSE f[k - 1] + G!D!DaysIn(y, k - 1)]
    <3>1. \A f : Sum(f) = SumG(f)
      BY <2>1, SMT
    <3>2. B = CHOOSE f : f = Sum(f)
      BY Zenon
    <3>3. BG = CHOOSE f : f = SumG(f)
      BY Zenon
    <3> HIDE DEF Sum, SumG, B, BG
    <3> QED
      BY <3>1, <3>2, <3>3, SMT
  <2> HIDE DEF W, L, LG, B, BG
  <2>4. G!D!Cardinality(L) = D!Cardinality(L)
    BY Zenon DEF G!D!Cardinality, D!Cardinality
  <2>5. D!Weekday(y, m, d) = W(D!Cardinality(L), B[m])
    BY SMT DEF D!Weekday, W, L, B
  <2>6. G!D!Weekday(y, m, d) = W(G!D!Cardinality(LG), BG[m])
    BY SMT DEF G!D!Weekday, W, LG, BG
  <2> QED
    BY <2>2, <2>3, <2>4, <2>5, <2>6, Zenon
<1>4. G!D!DateTimeValid(v) = D!DateTimeValid(v)
  BY <1>1, SMT DEF G!D!DateTimeValid, D!DateTimeValid
<1>5. G!D!Derived(v) = D!Derived(v)
  BY <1>3, Zenon DEF G!D!Derived, D!Derived
<1> DEFINE W == D!Weekday(v.date[1], v.date[2], v.date[3])
           F == D!FlagOctets(v.flags)
           T == D!FlagOctets(D!Derived(v))
<1>6. /\ G!D!Weekday(v.date[1], v.date[2], v.date[3]) = W
      /\ G!D!FlagOctets(v.flags) = F /\ G!D!FlagOctets(G!D!Derived(v)) = T
  BY <1>2, <1>3, <1>5, Zenon
<1> HIDE DEF W, F, T
<1> DEFINE Octets(valid) ==
             IF ~valid THEN [i \in 1..9 |-> 0]
             ELSE IF v.date = D!Midnight THEN <<0, 0, 0, 0, 24, 0, 0>> \o F
             ELSE <<0, v.date[1] - 1900, v.date[2], v.date[3], 32 * W + v.date[4],
                    v.date[5], v.date[6]>> \o T
<1>7. D!PackDateTime(v) = Octets(D!DateTimeValid(v))
  BY SMT DEF D!PackDateTime, W, F, T
<1>8. G!D!PackDateTime(v) = Octets(G!D!DateTimeValid(v))
  BY <1>1, <1>6, SMT DEF G!D!PackDateTime
<1> HIDE DEF Octets
<1> QED
  BY <1>4, <1>7, <1>8, Zenon

(* So is what Pack makes.                                                  *)
LEMMA SamePack ==
  ASSUME NEW id, NEW v
  PROVE  G!D!Pack(id, v) = D!Pack(id, v)
<1> DEFINE f == D!FormatOf(id)
           Packed == {D!PackF16(h) : h \in D!Hundredths(D!Limited(v, D!Limits(id)))}
<1>1. G!D!FormatOf(id) = f
  BY SameFormats
<1>2. {G!D!PackF16(h) : h \in G!D!Hundredths(G!D!Limited(v, G!D!Limits(id)))} = Packed
  BY SameFloats, Zenon
<1>3. /\ G!D!U8(v) = D!U8(v) /\ G!D!U16(v) = D!U16(v) /\ G!D!U32(v) = D!U32(v)
      /\ G!D!ScaledOctets(v) = D!ScaledOctets(v)
      /\ G!D!U16(v.x) = D!U16(v.x) /\ G!D!U16(v.y) = D!U16(v.y)
  BY SameNumbers, Zenon
<1>4. /\ G!D!TimeValid(v) = D!TimeValid(v) /\ G!D!DateValid(v) = D!DateValid(v)
      /\ G!D!PackText(v, 127) = D!PackText(v, 127) /\ G!D!PackText(v, 255) = D!PackText(v, 255)
      /\ G!D!InScenes(v, f) = D!InScenes(v, f)
      /\ G!D!PackBits(v.valid) = D!PackBits(v.valid)
  BY SameStructures, SMT
<1>5. G!D!PackDateTime(v) = D!PackDateTime(v)
  BY SameDateTimes
<1> HIDE DEF f, Packed
<1> QED
  BY <1>1, <1>2, <1>3, <1>4, <1>5, SMT DEF G!D!Pack, D!Pack, Packed, f
-----------------------------------------------------------------------------
(* Results are the same in every module.                                   *)
LEMMA SameResults ==
  /\ D!Fails = K!Fails
  /\ \A v, n : D!Got(v, n) = K!Got(v, n)
  /\ \A v, n : K!Got(v, n).res = "ok" /\ K!Got(v, n).value = v
BY DEF D!Fails, K!Fails, D!Got, K!Got

(* What a value is written as.                                             *)
LEMMA ValueWritten ==
  ASSUME NEW id, NEW v, NEW w \in Written("value", id, v)
  PROVE  w.res = "ok" /\ w.value \in D!Pack(id, v)
<1>1. Written("value", id, v) = {K!Got(data, Len(data)) : data \in D!Pack(id, v)}
  BY DEF Written
<1>2. PICK data \in D!Pack(id, v) : w = K!Got(data, Len(data))
  BY <1>1
<1>3. w.res = "ok" /\ w.value = data
  BY <1>2, SameResults, Zenon
<1> QED
  BY <1>3

(* And read as.                                                            *)
LEMMA ValueRead ==
  ASSUME NEW kind \in {"value", "text", "argument"}, NEW id, NEW w
  PROVE  Read(kind, id, w) = D!Unpack(id, w)
BY DEF Read

(* A value on its way: made or from a telegram, it is what Pack makes of   *)
(* it or the data that came, read by Unpack, and packed and read again.    *)
ValueInv ==
  item.kind = "value" =>
    /\ item.form \in D!Registered
    /\ stage \in {"made", "sent", "read", "relayed"}
    /\ item.made => item.value \in D!ValuesOf(D!FormatOf(item.form))
    /\ stage = "made" => item.made
    /\ stage # "made" =>
         /\ wire.res = "ok"
         /\ IF item.made THEN wire.value \in D!Pack(item.form, item.value)
            ELSE wire.value \in Seq(K!Byte)
    /\ IF stage \in {"read", "relayed"} THEN got = D!Unpack(item.form, wire.value)
       ELSE got = K!Fails
    /\ stage = "relayed" =>
         /\ got.res = "ok"
         /\ \E data \in D!Pack(item.form, got.value) : again = D!Unpack(item.form, data)

(* A value that was made and data that came satisfy the invariant.         *)
LEMMA ValueInvInit == Init => ValueInv
<1> SUFFICES ASSUME Init, item.kind = "value" PROVE ValueInv
  BY DEF ValueInv
<1>1. got = K!Fails
  BY DEF Init, Nothing
<1>2. CASE \E id \in D!Registered : \E v \in Values(id) : Item("value", id, v)
  <2>0. PICK id \in D!Registered : \E v \in Values(id) : Item("value", id, v)
    BY <1>2
  <2>1. PICK v \in Values(id) : Item("value", id, v)
    BY <2>0
  <2>2. v \in D!ValuesOf(D!FormatOf(id))
    BY ValueAssumption
  <2>3. item.form = id /\ item.value = v /\ item.made = TRUE /\ stage = "made"
    BY <2>1 DEF Item
  <2> QED
    BY <1>1, <2>2, <2>3 DEF ValueInv
<1>3. CASE \E id \in D!Registered : \E data \in Payloads(id) : FromPeer("value", id, <<>>, data)
  <2>0. PICK id \in D!Registered : \E data \in Payloads(id) : FromPeer("value", id, <<>>, data)
    BY <1>3
  <2>1. PICK data \in Payloads(id) : FromPeer("value", id, <<>>, data)
    BY <2>0
  <2>2. data \in Seq(K!Byte)
    BY ValueAssumption
  <2>3. /\ item.form = id /\ item.made = FALSE /\ stage = "sent"
        /\ wire.res = "ok" /\ wire.value = data
    BY <2>1 DEF FromPeer, K!Got
  <2> QED
    BY <1>1, <2>2, <2>3 DEF ValueInv
<1> QED
  <2>1. \A kind, form, v, w : kind # "value" => ~Item(kind, form, v) /\ ~FromPeer(kind, form, v, w)
    BY DEF Item, FromPeer
  <2> QED
    BY <1>2, <1>3, <2>1 DEF Init

(* Every step keeps it.                                                    *)
LEMMA ValueInvNext == ValueInv /\ [Next]_vars => ValueInv'
<1> SUFFICES ASSUME ValueInv, [Next]_vars, item'.kind = "value" PROVE ValueInv'
  BY DEF ValueInv
<1>1. item' = item
  BY DEF Next, Write, Cut, Change, Receive, Relay, vars
<1>2. item.kind = "value"
  BY <1>1
<1>3. CASE Write
  <2>1. /\ stage = "made" /\ stage' = "sent" /\ got' = got /\ item.made
    BY <1>2, <1>3 DEF Write, ValueInv
  <2>2. wire' \in Written("value", item.form, item.value)
    BY <1>2, <1>3 DEF Write
  <2>3. wire'.res = "ok" /\ wire'.value \in D!Pack(item.form, item.value)
    BY <2>2, ValueWritten
  <2> QED
    BY <1>1, <1>2, <2>1, <2>3 DEF ValueInv
<1>4. CASE Cut \/ Change
  BY <1>2, <1>4 DEF Cut, Change, OnTheWay
<1>5. CASE Receive
  <2>1. /\ stage = "sent" /\ stage' = "read" /\ wire' = wire
        /\ got' = Read("value", item.form, wire.value)
    BY <1>2, <1>5 DEF Receive
  <2>2. got' = D!Unpack(item.form, wire.value)
    BY <2>1, ValueRead
  <2> QED
    BY <1>1, <1>2, <2>1, <2>2 DEF ValueInv
<1>6. CASE Relay
  <2>1. PICK w \in Written("value", item.form, got.value) :
          again' = IF w.res = "ok" THEN Read("value", item.form, w.value) ELSE w
    BY <1>2, <1>6 DEF Relay, Onward
  <2>2. /\ stage = "read" /\ stage' = "relayed" /\ wire' = wire /\ got' = got /\ got.res = "ok"
    BY <1>6 DEF Relay
  <2>3. w.res = "ok" /\ w.value \in D!Pack(item.form, got.value)
    BY ValueWritten
  <2>4. again' = D!Unpack(item.form, w.value)
    BY <2>1, <2>3, ValueRead
  <2> QED
    BY <1>1, <1>2, <2>2, <2>3, <2>4 DEF ValueInv
<1>7. CASE UNCHANGED vars
  BY <1>7 DEF vars, ValueInv
<1> QED
  BY <1>3, <1>4, <1>5, <1>6, <1>7 DEF Next

(* What was read, of a value that was made and of data that came.          *)
LEMMA ValueGot ==
  ASSUME ValueInv, item.kind = "value", stage \in {"read", "relayed"}
  PROVE  /\ item.made => Arrives(item.form, item.value, got)
         /\ got.res = "ok" => Sendable(item.form, got.value)
         /\ got.res = "outside" => item.form = <<28, 1>> /\ Len(wire.value) < 2
<1> DEFINE id == item.form
           v == item.value
           data == wire.value
<1>1. id \in D!Registered /\ got = D!Unpack(id, data)
  BY DEF ValueInv
<1>2. CASE ~item.made
  <2>1. data \in Seq(K!Byte)
    BY <1>2 DEF ValueInv
  <2> QED
    BY <1>1, <1>2, <2>1, AnyDataRead, Zenon
<1>3. CASE item.made
  <2>1. data \in D!Pack(id, v) /\ v \in D!ValuesOf(D!FormatOf(id))
    BY <1>3 DEF ValueInv
  <2>2. Arrives(id, v, got) /\ (got.res = "ok" => Sendable(id, got.value))
    BY <1>1, <2>1, ValueArrives, Zenon
  <2>3. got.res # "outside"
    BY <2>2 DEF Arrives
  <2> QED
    BY <2>2, <2>3, Zenon
<1> QED
  BY <1>2, <1>3

(* The invariant is strong enough for the property the run checks.         *)
LEMMA ValueInvImplies == ValueInv => ValuesArrive
<1> SUFFICES ASSUME ValueInv, item.kind = "value" PROVE ValuesArrive
  BY DEF ValuesArrive
<1>1. CASE stage \in {"read", "relayed"}
  <2>1. /\ item.made => Arrives(item.form, item.value, got)
        /\ got.res = "ok" => Sendable(item.form, got.value)
        /\ got.res = "outside" => item.form = <<28, 1>> /\ Len(wire.value) < 2
    BY <1>1, ValueGot
  <2>2. ASSUME stage = "relayed"
        PROVE  again.res = "ok" /\ Near(item.form, got.value, again.value)
    <3>1. PICK data \in D!Pack(item.form, got.value) : again = D!Unpack(item.form, data)
      BY <2>2 DEF ValueInv
    <3>2. item.form \in D!Registered /\ got.res = "ok"
      BY <2>2 DEF ValueInv
    <3>3. ReadNear(item.form, got.value, data)
      BY <2>1, <3>2, SendableArrives, Zenon
    <3> QED
      BY <3>1, <3>3, Zenon DEF ReadNear
  <2> QED
    BY <2>1, <2>2, Zenon DEF ValuesArrive
<1>2. CASE stage \notin {"read", "relayed"}
  <2>1. got.res = "error"
    BY <1>2 DEF ValueInv, K!Fails
  <2> QED
    BY <1>2, <2>1 DEF ValuesArrive
<1> QED
  BY <1>1, <1>2

(* ValuesArrive, for every value of every type and whatever data telegrams *)
(* have.                                                                   *)
THEOREM ValuesArriveCorrect == Spec => []ValuesArrive
<1>1. Spec => []ValueInv
  BY ValueInvInit, ValueInvNext, PTL DEF Spec
<1> QED
  BY <1>1, ValueInvImplies, PTL
-----------------------------------------------------------------------------
(* The texts of the two modules stand for the same.                        *)
LEMMA SameParsed ==
  ASSUME NEW id, NEW text
  PROVE  G!D!Parsed(id, text) = D!Parsed(id, text)
<1> DEFINE f == D!FormatOf(id)
<1>1. G!D!FormatOf(id) = f
  BY SameFormats
<1>2. G!D!Bounds(f) = D!Bounds(f)
  BY SMT DEF G!D!Bounds, D!Bounds
<1>3. G!D!Whole(id) = D!Whole(id) /\ \A h, w : G!D!In255ths(h, w) = D!In255ths(h, w)
  <2>1. G!D!Whole(id) = D!Whole(id)
    BY SMT DEF G!D!Whole, D!Whole
  <2>2. ASSUME NEW h, NEW w
        PROVE  G!D!In255ths(h, w) = D!In255ths(h, w)
    BY SMT DEF G!D!In255ths, D!In255ths
  <2> QED
    BY <2>1, <2>2, Zenon
<1> DEFINE Scaled(w) == {IF h = NaN THEN h ELSE D!In255ths(h, w) : h \in text.hundredths}
           Within(b) == {n \in text.int : n \in b}
<1>4. Scaled(G!D!Whole(id)) = Scaled(D!Whole(id)) /\ Within(G!D!Bounds(f)) = Within(D!Bounds(f))
  BY <1>2, <1>3, Zenon
<1> DEFINE Meaning(scaled, within) ==
             CASE f = "B1" -> text.bool
               [] f \in {"U8", "Scene", "SceneControl", "V8", "U16", "U32", "V32"} -> within
               [] f = "Scaled" -> scaled
               [] f = "F16" -> text.hundredths
               [] f = "F32" -> text.bits
               [] f \in {"ASCII", "Latin1", "VarString"} -> {text.chars}
               [] OTHER -> {}
<1>5. D!Parsed(id, text) = Meaning(Scaled(D!Whole(id)), Within(D!Bounds(f)))
  BY Zenon DEF D!Parsed
<1>6. G!D!Parsed(id, text) = Meaning(Scaled(G!D!Whole(id)), Within(G!D!Bounds(f)))
  <2>1. Scaled(G!D!Whole(id))
          = {IF h = NaN THEN h ELSE G!D!In255ths(h, G!D!Whole(id)) : h \in text.hundredths}
    BY <1>3, Zenon
  <2> HIDE DEF f, Scaled
  <2> QED
    BY <1>1, <2>1, Zenon DEF G!D!Parsed
<1> HIDE DEF Meaning, Scaled, Within
<1> QED
  BY <1>4, <1>5, <1>6, Zenon

(* What a text is parsed as is a value; it is no number only if the text   *)
(* is none.                                                                *)
LEMMA ParsedIs ==
  ASSUME NEW id \in D!Registered, NEW text \in Texts, NEW v \in D!Parsed(id, text)
  PROVE  /\ D!FormatOf(id) \notin Structures /\ v \in D!ValuesOf(D!FormatOf(id))
         /\ D!FormatOf(id) \in Floats => v \in Int \/ NaN \in text.hundredths
<1> DEFINE f == D!FormatOf(id)
<1>1. /\ text.bool \subseteq {0, 1} /\ text.int \cup text.bits \subseteq D!Long
      /\ text.hundredths \subseteq {NaN} \cup Int /\ text.chars \in Seq(Nat)
  BY ValueAssumption
<1>2. f \in FormatNames
  BY FormatIs
<1> HIDE DEF f
<1>3. CASE f = "B1"
  <2>1. D!Parsed(id, text) = text.bool
    BY <1>3 DEF D!Parsed, f
  <2>2. D!ValuesOf(f) = {0, 1}
    BY <1>3, ValuesAre, Zenon
  <2> QED
    BY <1>1, <1>3, <2>1, <2>2 DEF Structures, Floats, f
<1>4. CASE f \in {"U8", "Scene", "SceneControl"}
  <2>1. D!Parsed(id, text) = {n \in text.int : n \in D!Bounds(f)}
    BY <1>4, SMTT(30) DEF D!Parsed, f
  <2>2. D!Bounds(f) = K!Byte
    BY <1>4, SMT DEF D!Bounds, K!Byte
  <2>3. D!ValuesOf(f) = K!Byte
    BY <1>4, ValuesAre, SMT
  <2> QED
    BY <1>4, <2>1, <2>2, <2>3 DEF Structures, Floats, f
<1>5. CASE f = "V8"
  <2>1. D!Parsed(id, text) = {n \in text.int : n \in D!Bounds(f)}
    BY <1>5, SMTT(30) DEF D!Parsed, f
  <2>2. D!Bounds(f) = D!ValuesOf(f)
    <3>1. D!Bounds("V8") = -128..127
      BY DEF D!Bounds
    <3> QED
      BY <1>5, <3>1, ValuesAre, Zenon
  <2> QED
    BY <1>5, <2>1, <2>2 DEF Structures, Floats, f
<1>6. CASE f = "U16"
  <2>1. D!Parsed(id, text) = {n \in text.int : n \in D!Bounds(f)}
    BY <1>6, SMTT(30) DEF D!Parsed, f
  <2>2. D!Bounds(f) = D!ValuesOf(f)
    <3>1. D!Bounds("U16") = K!Word
      BY SMT DEF D!Bounds, K!Word
    <3> QED
      BY <1>6, <3>1, ValuesAre, Zenon
  <2> QED
    BY <1>6, <2>1, <2>2 DEF Structures, Floats, f
<1>7. CASE f \in {"U32", "V32", "F32"}
  <2>1. D!Parsed(id, text) \subseteq text.int \cup text.bits
    BY <1>7, SMTT(30) DEF D!Parsed, f
  <2>2. D!ValuesOf(f) = D!Long
    BY <1>7, ValuesAre, SMT
  <2> QED
    BY <1>1, <1>7, <2>1, <2>2 DEF Structures, Floats, f
<1>8. CASE f = "Scaled"
  <2>1. D!Parsed(id, text) = {IF h = NaN THEN h ELSE D!In255ths(h, D!Whole(id)) : h \in text.hundredths}
    BY <1>8 DEF D!Parsed, f
  <2>2. D!Whole(id) \in {10000, 36000}
    BY DEF D!Whole
  <2>3. PICK h \in text.hundredths : v = IF h = NaN THEN h ELSE D!In255ths(h, D!Whole(id))
    BY <2>1
  <2>4. h \in {NaN} \cup Int
    BY <1>1
  <2>5. CASE h = NaN
    <3>1. v = NaN
      BY <2>3, <2>5
    <3> QED
      BY <1>8, <2>5, <3>1, ValuesAre DEF Structures, Floats, f
  <2>6. CASE h # NaN
    <3>1. v = D!In255ths(h, D!Whole(id)) /\ h \in Int
      BY <2>3, <2>4, <2>6
    <3>2. v \in Int
      BY <2>2, <3>1 DEF D!In255ths
    <3> QED
      BY <1>8, <3>2, ValuesAre DEF Structures, Floats, f
  <2> QED
    BY <2>5, <2>6
<1>9. CASE f = "F16"
  <2>1. v \in text.hundredths
    BY <1>9 DEF D!Parsed, f
  <2>2. D!ValuesOf(f) = {NaN} \cup Int
    BY <1>9, ValuesAre, SMT
  <2>3. v \in Int \/ NaN \in text.hundredths
    BY <1>1, <2>1
  <2>4. v \in {NaN} \cup Int
    BY <1>1, <2>1
  <2> QED
    BY <1>9, <2>2, <2>3, <2>4 DEF Structures, Floats, f
<1>10. CASE f \in {"ASCII", "Latin1", "VarString"}
  <2>1. D!Parsed(id, text) = {text.chars}
    BY <1>10 DEF D!Parsed, f
  <2>2. D!ValuesOf(f) = Seq(Nat)
    BY <1>10, ValuesAre, SMT
  <2> QED
    BY <1>1, <1>10, <2>1, <2>2 DEF Structures, Floats, f
<1>11. CASE f \in Structures
  <2>1. D!Parsed(id, text) = {}
    BY <1>11 DEF D!Parsed, Structures, f
  <2> QED
    BY <2>1
<1> QED
  BY <1>2, <1>3, <1>4, <1>5, <1>6, <1>7, <1>8, <1>9, <1>10, <1>11 DEF FormatNames, Structures, Floats
-----------------------------------------------------------------------------
(* The zeros of numbers and texts.                                         *)
LEMMA ZeroIs ==
  ASSUME NEW f \in FormatNames \ {"DateTime"}
  PROVE  G!Zero(f) \in D!ValuesOf(f) /\ (f \in Floats => G!Zero(f) \in Int)
<1>1. CASE f \in {"B1", "Scaled", "U8", "V8", "U16", "F16", "U32", "V32", "F32", "Scene",
                  "SceneControl"}
  <2>1. G!Zero(f) = 0
    BY <1>1 DEF G!Zero
  <2>2. 0 \in K!Byte /\ 0 \in -128..127 /\ 0 \in K!Word /\ 0 \in Int
    BY WordIs, SMT DEF K!Byte
  <2>3. 0 \in D!Long
    BY SMT DEF D!Long
  <2>4. CASE f = "B1" \/ f = "V8" \/ f = "U16"
    BY <2>1, <2>2, <2>4, ValuesAre, SMT DEF Floats
  <2>5. CASE f \in {"U8", "Scene", "SceneControl"}
    BY <2>1, <2>2, <2>5, ValuesAre, SMT DEF Floats
  <2>6. CASE f \in {"U32", "V32", "F32"}
    BY <2>1, <2>3, <2>6, ValuesAre, SMT DEF Floats
  <2>7. CASE f \in {"Scaled", "F16"}
    BY <2>1, <2>2, <2>7, ValuesAre, SMT DEF Floats
  <2> QED
    BY <1>1, <2>4, <2>5, <2>6, <2>7
<1>2. CASE f \in {"ASCII", "Latin1", "VarString"}
  <2>1. G!Zero(f) = <<>>
    BY <1>2 DEF G!Zero
  <2>2. D!ValuesOf(f) = Seq(Nat)
    BY <1>2, ValuesAre, SMT
  <2> QED
    BY <1>2, <2>1, <2>2 DEF Floats
<1>3. 0 \in D!Byte /\ 0 \in D!Word
  BY DEF D!Byte, D!Word
<1>4. CASE f = "Time"
  BY <1>3, <1>4 DEF G!Zero, D!ValuesOf, Floats
<1>5. CASE f = "Date"
  BY <1>3, <1>5 DEF G!Zero, D!ValuesOf, Floats
<1>6. CASE f = "xyY"
  <2>1. <<0, 0>> \in [1..2 -> {0, 1}]
    OBVIOUS
  <2> QED
    BY <1>3, <1>6, <2>1 DEF G!Zero, D!ValuesOf, Floats
<1>7. CASE f = "RGBW"
  <2>1. <<0, 0, 0, 0>> \in [1..4 -> {0, 1}]
    OBVIOUS
  <2>2. <<0, 0, 0, 0>> \in D!Bytes(4)
    BY <1>3 DEF D!Bytes
  <2> QED
    BY <1>7, <2>1, <2>2 DEF G!Zero, D!ValuesOf, Floats
<1> QED
  BY <1>1, <1>2, <1>4, <1>5, <1>6, <1>7 DEF FormatNames

(* The zero of a date and time is of no year that can be sent.             *)
LEMMA ZeroDateTime == ~D!DateTimeValid(G!Zero("DateTime"))
<1>1. G!Zero("DateTime") = [date |-> <<1, 1, 1, 0, 0, 0>>, flags |-> {}, dst |-> FALSE]
  BY DEF G!Zero
<1>2. <<1, 1, 1, 0, 0, 0>> # D!Midnight
  BY DEF D!Midnight
<1> QED
  BY <1>1, <1>2 DEF D!DateTimeValid

(* knxctl's null, and the two ways in which a text is given.               *)
Null(kind, text) == kind = "argument" /\ text.json = "null"
TextKinds == {"text", "argument"}

(* What a text stands for is a value that can be sent; only null stands    *)
(* for a structure, and for a date and time that is none.                  *)
LEMMA DecodedIs ==
  ASSUME NEW id \in D!Registered, NEW text \in Texts, NEW v \in G!Decoded(id, text),
         text.json # "null"
  PROVE  /\ D!FormatOf(id) \notin Structures /\ v \in D!ValuesOf(D!FormatOf(id))
         /\ D!FormatOf(id) \in Floats => v \in Int
<1> DEFINE f == D!FormatOf(id)
<1>1. G!D!FormatOf(id) = f /\ G!D!Parsed(id, text) = D!Parsed(id, text)
  BY SameFormats, SameParsed
<1>2. text.bool \subseteq {0, 1} /\ text.chars \in Seq(Nat)
  BY ValueAssumption
<1> HIDE DEF f
<1>3. CASE f = "B1"
  <2>1. G!Decoded(id, text) = text.bool
    BY <1>1, <1>3 DEF G!Decoded
  <2>2. D!ValuesOf(f) = {0, 1}
    BY <1>3, ValuesAre, Zenon
  <2> QED
    BY <1>2, <1>3, <2>1, <2>2 DEF Structures, Floats, f
<1>4. CASE f \in {"ASCII", "Latin1", "VarString"}
  <2>1. v = text.chars \/ v = SubSeq(text.chars, 2, Len(text.chars) - 1)
    BY <1>1, <1>4 DEF G!Decoded
  <2>2. SubSeq(text.chars, 2, Len(text.chars) - 1) \in Seq(Nat)
    BY <1>2
  <2>3. D!ValuesOf(f) = Seq(Nat)
    BY <1>4, ValuesAre, SMT
  <2> QED
    BY <1>2, <1>4, <2>1, <2>2, <2>3 DEF Structures, Floats, f
<1>5. CASE f \notin {"B1", "ASCII", "Latin1", "VarString"}
  <2>1. G!Decoded(id, text) = IF text.json = "number" THEN D!Parsed(id, text) ELSE {}
    BY <1>1, <1>5 DEF G!Decoded
  <2>2. v \in D!Parsed(id, text) /\ text.json = "number"
    BY <2>1
  <2>3. NaN \notin text.hundredths
    BY <2>2, ValueAssumption
  <2> QED
    BY <2>2, <2>3, ParsedIs, Zenon DEF f
<1> QED
  BY <1>3, <1>4, <1>5 DEF f

(* It is the value it stands for that is sent; it is NaN only if that is   *)
(* what a text given to the API says.                                      *)
LEMMA StandsWell ==
  ASSUME NEW kind \in TextKinds, NEW id \in D!Registered, NEW text \in Texts,
         NEW v \in StandsFor(kind, id, text)
  PROVE  /\ D!FormatOf(id) \in Structures => Null(kind, text)
         /\ \/ Sendable(id, v)
            \/ Null(kind, text) /\ D!FormatOf(id) = "DateTime" /\ ~D!DateTimeValid(v)
            \/ /\ kind = "text" /\ NaN \in text.hundredths
               /\ v \in D!ValuesOf(D!FormatOf(id))
<1> DEFINE f == D!FormatOf(id)
<1>0. "DateTime" \in Structures
  BY DEF Structures
<1>1. CASE Null(kind, text)
  <2>1. G!D!FormatOf(id) = f
    BY SameFormats
  <2>2. v = G!Zero(f)
    <3>1. v \in G!Decoded(id, text) /\ text.json = "null"
      BY <1>1, Zenon DEF Null, StandsFor
    <3>2. G!Decoded(id, text) = {G!Zero(f)}
      BY <2>1, <3>1, Zenon DEF G!Decoded
    <3> QED
      BY <3>1, <3>2
  <2>3. CASE f = "DateTime"
    BY <1>1, <2>2, <2>3, ZeroDateTime, Zenon
  <2>4. CASE f # "DateTime"
    <3>1. f \in FormatNames \ {"DateTime"}
      BY <2>4, FormatIs, Zenon
    <3>2. v \in D!ValuesOf(f) /\ (f \in Floats => v \in Int)
      BY <2>2, <3>1, ZeroIs, Zenon
    <3>3. Sendable(id, v)
      BY <2>4, <3>2, Zenon DEF Sendable
    <3> QED
      BY <1>1, <3>3
  <2> QED
    BY <2>3, <2>4
<1>2. CASE ~Null(kind, text)
  <2>1. CASE kind = "text"
    <3>1. v \in D!Parsed(id, text)
      BY <2>1 DEF StandsFor
    <3>2. /\ f \notin Structures /\ v \in D!ValuesOf(f)
          /\ f \in Floats => v \in Int \/ NaN \in text.hundredths
      BY <3>1, ParsedIs, Zenon
    <3>3. Sendable(id, v) \/ NaN \in text.hundredths
      BY <1>0, <3>2, Zenon DEF Sendable
    <3> QED
      BY <2>1, <3>2, <3>3, Zenon
  <2>2. CASE kind = "argument"
    <3>1. v \in G!Decoded(id, text) /\ text.json # "null"
      BY <1>2, <2>2 DEF StandsFor, Null
    <3>2. f \notin Structures /\ v \in D!ValuesOf(f) /\ (f \in Floats => v \in Int)
      BY <3>1, DecodedIs, Zenon
    <3>3. Sendable(id, v)
      BY <1>0, <3>2, Zenon DEF Sendable
    <3> QED
      BY <3>2, <3>3, Zenon
  <2> QED
    BY <2>1, <2>2 DEF TextKinds
<1> QED
  BY <1>1, <1>2

(* A text is refused, or written as Pack writes a value it stands for.     *)
LEMMA TextWritten ==
  ASSUME NEW kind \in TextKinds, NEW id \in D!Registered, NEW text,
         NEW w \in Written(kind, id, text)
  PROVE  \/ w.res = "error"
         \/ w.res = "ok" /\ \E v \in StandsFor(kind, id, text) : w.value \in D!Pack(id, v)
<1> DEFINE S == StandsFor(kind, id, text)
           Outcomes == UNION {{K!Got(data, Len(data)) : data \in D!Pack(id, v)} : v \in S}
<1>1. Written(kind, id, text) = {K!Fails} \/ Written(kind, id, text) = Outcomes
  <2>1. CASE kind = "text"
    <3>1. Written(kind, id, text) = D!EncodeDPTFromString(id, text) /\ S = D!Parsed(id, text)
      BY <2>1 DEF Written, StandsFor, D!EncodeDPTFromStringN
    <3>2. \/ D!EncodeDPTFromString(id, text) = {D!Fails}
          \/ D!EncodeDPTFromString(id, text)
               = UNION {{D!Got(data, Len(data)) : data \in D!Pack(id, v)} : v \in D!Parsed(id, text)}
      BY Zenon DEF D!EncodeDPTFromString
    <3>3. UNION {{D!Got(data, Len(data)) : data \in D!Pack(id, v)} : v \in D!Parsed(id, text)}
            = UNION {{K!Got(data, Len(data)) : data \in D!Pack(id, v)} : v \in D!Parsed(id, text)}
      BY Zenon DEF D!Got, K!Got
    <3> QED
      BY <3>1, <3>2, <3>3, SameResults, Zenon
  <2>2. CASE kind = "argument"
    <3>1. Written(kind, id, text) = G!EncodeDatapointValue(id, text) /\ S = G!Decoded(id, text)
      BY <2>2 DEF Written, StandsFor
    <3>2. \/ G!EncodeDatapointValue(id, text) = {G!D!Fails}
          \/ G!EncodeDatapointValue(id, text)
               = UNION {{G!D!Got(data, Len(data)) : data \in G!D!Pack(id, v)} : v \in G!Decoded(id, text)}
      BY Zenon DEF G!EncodeDatapointValue
    <3>3. UNION {{G!D!Got(data, Len(data)) : data \in G!D!Pack(id, v)} : v \in G!Decoded(id, text)}
            = UNION {{K!Got(data, Len(data)) : data \in D!Pack(id, v)} : v \in G!Decoded(id, text)}
      <4>1. \A v : G!D!Pack(id, v) = D!Pack(id, v)
        BY SamePack, Zenon
      <4> QED
        BY <4>1, Zenon DEF G!D!Got, K!Got
    <3>4. G!D!Fails = K!Fails
      BY DEF G!D!Fails, K!Fails
    <3> QED
      BY <3>1, <3>2, <3>3, <3>4, Zenon
  <2> QED
    BY <2>1, <2>2 DEF TextKinds
<1>2. CASE Written(kind, id, text) = {K!Fails}
  BY <1>2 DEF K!Fails
<1>3. CASE Written(kind, id, text) = Outcomes
  <2>1. PICK v \in S : \E data \in D!Pack(id, v) : w = K!Got(data, Len(data))
    <3> HIDE DEF S
    <3> QED
      BY <1>3, Zenon
  <2>2. PICK data \in D!Pack(id, v) : w = K!Got(data, Len(data))
    BY <2>1, Zenon
  <2>3. w.res = "ok" /\ w.value = data
    BY <2>2, SameResults, Zenon
  <2> QED
    BY <2>1, <2>2, <2>3, Zenon
<1> QED
  BY <1>1, <1>2, <1>3
(* A text on its way: what it is written as is read by Unpack.             *)
TextInv ==
  item.kind \in TextKinds =>
    /\ item.form \in D!Registered /\ item.value \in Texts
    /\ stage \in {"made", "sent", "read", "relayed"}
    /\ stage # "made" => wire \in Written(item.kind, item.form, item.value)
    /\ stage \in {"read", "relayed"} =>
         wire.res = "ok" /\ got = D!Unpack(item.form, wire.value)

(* A text that was given satisfies the invariant.                          *)
LEMMA TextInvInit == Init => TextInv
<1> SUFFICES ASSUME Init, item.kind \in TextKinds PROVE TextInv
  BY DEF TextInv
<1> USE DEF TextKinds
<1>1. CASE \E id \in D!Registered, kind \in TextKinds : \E text \in Texts : Item(kind, id, text)
  <2>1. PICK id \in D!Registered, kind \in TextKinds, text \in Texts : Item(kind, id, text)
    BY <1>1
  <2> QED
    BY <2>1 DEF Item, TextInv
<1> QED
  <2>1. \A kind, form, v, w : kind \notin TextKinds =>
          ~Item(kind, form, v) /\ ~FromPeer(kind, form, v, w)
    BY DEF Item, FromPeer
  <2> QED
    BY <1>1, <2>1 DEF Init

(* Every step keeps it.                                                    *)
LEMMA TextInvNext == TextInv /\ [Next]_vars => TextInv'
<1> SUFFICES ASSUME TextInv, [Next]_vars, item'.kind \in TextKinds PROVE TextInv'
  BY DEF TextInv
<1>1. item' = item
  BY DEF Next, Write, Cut, Change, Receive, Relay, vars
<1>2. item.kind \in TextKinds
  BY <1>1
<1>3. CASE Write
  <2>1. /\ stage' = "sent" /\ wire' \in Written(item.kind, item.form, item.value)
    BY <1>3 DEF Write
  <2> QED
    BY <1>1, <1>2, <2>1 DEF TextInv
<1>4. CASE Cut \/ Change
  BY <1>2, <1>4 DEF Cut, Change, OnTheWay, TextKinds
<1>5. CASE Receive
  <2>1. /\ stage = "sent" /\ stage' = "read" /\ wire' = wire /\ wire.res = "ok"
        /\ got' = Read(item.kind, item.form, wire.value)
    BY <1>5 DEF Receive
  <2>2. got' = D!Unpack(item.form, wire.value)
    BY <1>2, <2>1, ValueRead DEF TextKinds
  <2> QED
    BY <1>1, <1>2, <2>1, <2>2 DEF TextInv
<1>6. CASE Relay
  <2>1. /\ stage = "read" /\ stage' = "relayed" /\ wire' = wire /\ got' = got
    BY <1>6 DEF Relay
  <2> QED
    BY <1>1, <1>2, <2>1 DEF TextInv
<1>7. CASE UNCHANGED vars
  BY <1>7 DEF vars, TextInv
<1> QED
  BY <1>3, <1>4, <1>5, <1>6, <1>7 DEF Next

(* The invariant is strong enough for the property the run checks.         *)
LEMMA TextInvImplies == TextInv => TextsArrive
<1> SUFFICES ASSUME TextInv, item.kind \in TextKinds PROVE TextsArrive
  BY DEF TextsArrive, TextKinds
<1> DEFINE kind == item.kind
           id == item.form
           text == item.value
           f == D!FormatOf(id)
           null == kind = "argument" /\ text.json = "null"
<1>1. id \in D!Registered /\ text \in Texts /\ (null <=> Null(kind, text))
  BY DEF TextInv, Null
<1>2. ASSUME stage # "made", wire.res = "ok"
      PROVE  \E v \in StandsFor(kind, id, text) : wire.value \in D!Pack(id, v)
  <2>1. wire \in Written(kind, id, text)
    BY <1>2 DEF TextInv
  <2>2. wire.res # "error"
    BY <1>2
  <2> QED
    BY <1>1, <2>1, <2>2, TextWritten, Zenon
<1>3. ASSUME stage = "read"
      PROVE  /\ \E v \in StandsFor(kind, id, text) : Arrives(id, v, got)
             /\ got.res = "error" => \/ null /\ f = "DateTime"
                                     \/ kind = "text" /\ NaN \in text.hundredths
  <2>1. wire.res = "ok" /\ got = D!Unpack(id, wire.value)
    BY <1>3 DEF TextInv
  <2>2. PICK v \in StandsFor(kind, id, text) : wire.value \in D!Pack(id, v)
    BY <1>2, <1>3, <2>1
  <2>3. \/ Sendable(id, v)
        \/ null /\ f = "DateTime" /\ ~D!DateTimeValid(v)
        \/ kind = "text" /\ NaN \in text.hundredths /\ v \in D!ValuesOf(f)
    BY <1>1, <2>2, StandsWell, Zenon
  <2>4. CASE Sendable(id, v)
    <3>1. Arrives(id, v, got)
      BY <1>1, <2>1, <2>2, <2>4, ValueArrives, Zenon DEF Sendable
    <3>2. ReadNear(id, v, wire.value)
      BY <1>1, <2>2, <2>4, SendableArrives, Zenon
    <3>3. got.res = "ok"
      BY <2>1, <3>2, Zenon DEF ReadNear
    <3>4. got.res # "error"
      BY <3>3
    <3> QED
      BY <2>2, <3>1, <3>4
  <2>5. CASE null /\ f = "DateTime" /\ ~D!DateTimeValid(v)
    <3>1. got.res = "error"
      BY <2>1, <2>2, <2>5, NoDateTimeFails, Zenon
    <3>2. ASSUME NEW r, r.res = "error"
          PROVE  Arrives(id, v, r)
      <4>1. D!FormatOf(id) = "DateTime" /\ ~D!DateTimeValid(v)
        BY <2>5
      <4> QED
        BY <3>2, <4>1, SMT DEF Arrives
    <3> QED
      BY <2>2, <2>5, <3>1, <3>2
  <2>6. CASE kind = "text" /\ NaN \in text.hundredths /\ v \in D!ValuesOf(f)
    <3>1. Arrives(id, v, got)
      BY <1>1, <2>1, <2>2, <2>6, ValueArrives, Zenon
    <3> QED
      BY <2>2, <2>6, <3>1
  <2> QED
    BY <2>3, <2>4, <2>5, <2>6
<1>4. ASSUME stage = "sent", f \in Structures, ~null
      PROVE  wire.res # "ok"
  <2> SUFFICES ASSUME wire.res = "ok" PROVE FALSE
    OBVIOUS
  <2>1. PICK v \in StandsFor(kind, id, text) : wire.value \in D!Pack(id, v)
    BY <1>2, <1>4
  <2> QED
    BY <1>1, <1>4, <2>1, StandsWell, Zenon
<1>5. ASSUME stage = "sent" PROVE wire.res \in {"ok", "error"}
  <2>1. wire \in Written(kind, id, text)
    BY <1>5 DEF TextInv
  <2>2. wire.res = "error" \/ wire.res = "ok"
    BY <1>1, <2>1, TextWritten, Zenon
  <2> QED
    BY <2>2
<1> QED
  <2>1. stage = "read" =>
          /\ \E v \in StandsFor(kind, id, text) : Arrives(id, v, got)
          /\ got.res = "error" => \/ null /\ f = "DateTime"
                                  \/ kind = "text" /\ NaN \in text.hundredths
    BY <1>3
  <2>2. stage = "sent" /\ f \in Structures /\ ~null => wire.res = "error"
    BY <1>4, <1>5
  <2> QED
    BY <2>1, <2>2, Zenon DEF TextsArrive

(* TextsArrive, for every text and every type.                             *)
THEOREM TextsArriveCorrect == Spec => []TextsArrive
<1>1. Spec => []TextInv
  BY TextInvInit, TextInvNext, PTL DEF Spec
<1> QED
  BY <1>1, TextInvImplies, PTL
=============================================================================
