-------------------------------- MODULE Wire --------------------------------
(***************************************************************************)
(* knx/util: how values become bytes and are read back.  A packet is a     *)
(* sequence of bytes.  Reading one has three outcomes:                     *)
(*   "ok"       the value and how many bytes it took,                      *)
(*   "error"    the decoder returned an error,                             *)
(*   "outside"  the decoder sliced past the end of the packet: Go stops    *)
(*              with a panic, or, as the receiver's buffer holds 1024      *)
(*              bytes, goes on with bytes of an earlier packet.            *)
(* UnpackSome reads its fields in order and stops at the first that does   *)
(* not fit; when all have a fixed width, that is the test that the packet  *)
(* is no shorter than their sum.                                           *)
(***************************************************************************)
EXTENDS Integers, Sequences

Byte == 0..255
Word == 0..65535
Bytes(n) == {s \in Seq(Byte) : Len(s) = n}

Got(v, n) == [res |-> "ok", value |-> v, n |-> n]
Fails == [res |-> "error"]
Outside == [res |-> "outside"]

(* Only the lower bits of a number reach the wire, the highest octet       *)
(* first.  A negative number packs as its two's complement, which is what  *)
(* \div and % give.                                                        *)
U8(v) == <<v % 256>>
U16(v) == <<(v \div 256) % 256, v % 256>>
U32(v) == <<(v \div 16777216) % 256, (v \div 65536) % 256,
            (v \div 256) % 256, v % 256>>

(* Numbers read back from the octets at position i.  TLC's integers have   *)
(* 32 bits, so that a uint32 is represented by the int32 of the same bits. *)
S8(b) == IF b >= 128 THEN b - 256 ELSE b
N16(data, i) == data[i] * 256 + data[i + 1]
N32(data, i) == S8(data[i]) * 16777216 + data[i + 1] * 65536
                + data[i + 2] * 256 + data[i + 3]

(* The packet from its n-th byte on: data[n:]. *)
From(data, n) == SubSeq(data, n + 1, Len(data))

(* UnpackSome after a field of variable width: the error of the field, or  *)
(* Rest applied to its value and to how many bytes it took.                *)
Then(r, Rest(_, _)) == IF r.res = "ok" THEN Rest(r.value, r.n) ELSE r

(* Strings are sequences of their Latin-1 codes.  PackString writes a 0    *)
(* past the end of a string that fills its field, an index out of range.   *)
PackString(width, s) ==
  IF Len(s) < width
    THEN Got([i \in 1..width |-> IF i <= Len(s) THEN s[i] ELSE 0], width)
    ELSE Outside

(* TrimRight of the zeros that fill the field. *)
UnpackString(data) ==
  SubSeq(data, 1, CHOOSE k \in 0..Len(data) :
                    /\ k = 0 \/ data[k] # 0
                    /\ \A i \in k + 1..Len(data) : data[i] = 0)
=============================================================================
