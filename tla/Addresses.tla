----------------------------- MODULE Addresses -----------------------------
(***************************************************************************)
(* Group and individual addresses of knx/cemi, which are 16-bit numbers,   *)
(* and their notations.  A text is the sequence of the numbers between its *)
(* separators ("/" in a group address, "." in an individual one); a part   *)
(* that is no number is rejected as a negative one is, and stands as one.  *)
(***************************************************************************)
EXTENDS Integers, Sequences

MaxAddress == 65535
Address == 0..MaxAddress
NoAddress == -1       \* an error was returned

Formats == {"Unknown", "Free", "TwoLevel", "ThreeLevel"}

(* The format a group address file names: an empty name is the unknown     *)
(* format, any other text is an error.                                     *)
NewGroupAddrFormat(name) ==
  CASE name = "" -> "Unknown"
    [] name \in Formats \ {"Unknown"} -> name
    [] OTHER -> "error"

InRange(n, max) == 0 <= n /\ n <= max

(* Main group of 5 bits, middle group of 3 and sub group of 8. *)
NewGroupAddr3(a, b, c) == (a % 32) * 2048 + (b % 8) * 256 + (c % 256)

(* The main group is shifted by 8 bits, and the upper three bits of the    *)
(* sub group are combined with its lower three: what they share is lost.   *)
EitherBit(x, y, bit) == IF (x \div bit) % 2 = 1 \/ (y \div bit) % 2 = 1 THEN bit ELSE 0
NewGroupAddr2(a, b) ==
  LET middle == (b \div 256) % 8
  IN  (a \div 8) * 2048 + (b % 256)
        + 256 * (EitherBit(a, middle, 1) + EitherBit(a, middle, 2) + EitherBit(a, middle, 4))

NewGroupAddrString(nums) ==
  CASE /\ Len(nums) = 3 /\ nums # <<0, 0, 0>>
       /\ InRange(nums[1], 31) /\ InRange(nums[2], 7) /\ InRange(nums[3], 255)
         -> NewGroupAddr3(nums[1], nums[2], nums[3])
    [] /\ Len(nums) = 2 /\ nums # <<0, 0>>
       /\ InRange(nums[1], 31) /\ InRange(nums[2], 2047)
         -> NewGroupAddr2(nums[1], nums[2])
    [] Len(nums) = 1 /\ nums # <<0>> /\ InRange(nums[1], MaxAddress) -> nums[1]
    [] OTHER -> NoAddress

(* Mutant: the middle group is taken from the bits of the main group. *)
FormatGroup_bug(addr, format) ==
  CASE format = "Free" -> <<addr>>
    [] format = "TwoLevel" -> <<addr \div 2048, addr % 2048>>
    [] OTHER -> <<addr \div 2048, (addr \div 2048) % 8, addr % 256>>
FormatGroup(addr, format) ==
  CASE format = "Free" -> <<addr>>
    [] format = "TwoLevel" -> <<addr \div 2048, addr % 2048>>
    [] OTHER -> <<addr \div 2048, (addr \div 256) % 8, addr % 256>>

-----------------------------------------------------------------------------
(* Area and line of 4 bits each and device of 8; or subnetwork and device  *)
(* of 8 bits each.                                                         *)
NewPhysicalAddrString(nums) ==
  CASE /\ Len(nums) = 3 /\ nums # <<0, 0, 0>>
       /\ InRange(nums[1], 15) /\ InRange(nums[2], 15) /\ InRange(nums[3], 255)
         -> nums[1] * 4096 + nums[2] * 256 + nums[3]
    [] /\ Len(nums) = 2 /\ nums # <<0, 0>>
       /\ InRange(nums[1], 255) /\ InRange(nums[2], 255)
         -> nums[1] * 256 + nums[2]
    [] Len(nums) = 1 /\ nums # <<0>> /\ InRange(nums[1], MaxAddress) -> nums[1]
    [] OTHER -> NoAddress

(* The two-level format gives the area alone, and eleven bits of the rest. *)
FormatPhysical(addr, format) ==
  CASE format = "Free" -> <<addr>>
    [] format = "TwoLevel" -> <<addr \div 4096, addr % 2048>>
    [] OTHER -> <<addr \div 4096, (addr \div 256) % 16, addr % 256>>
=============================================================================
