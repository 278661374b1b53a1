----------------------------- MODULE Arguments -----------------------------
(***************************************************************************)
(* What knxctl send and knxctl read make of their arguments                *)
(* (cmd/knxctl/send.go): the group that is meant, its datapoint type, and  *)
(* the data of a value.  Names, catalogs and texts of types are those of   *)
(* GAC and DPT; an argument that was not given is empty, as a text of      *)
(* blanks is.                                                              *)
(***************************************************************************)
EXTENDS GAC

A == INSTANCE Addresses

NoTarget == [error |-> TRUE, address |-> 0, group |-> {}]
Target(address, group) == [error |-> FALSE, address |-> address, group |-> group]

(* A name is looked up in the catalog, which must have it; an address need *)
(* not be in a catalog.  catalogs has the one that was loaded, or none.    *)
ResolveGroupTarget(catalogs, name, address) ==
  IF name.word # ""
    THEN LET found == UNION {Lookup(c, name) : c \in catalogs}
         IN  IF found = {} THEN NoTarget
             ELSE Target((CHOOSE g \in found : TRUE).address, found)
  ELSE IF address = <<>> \/ A!NewGroupAddrString(address) = A!NoAddress THEN NoTarget
  ELSE LET destination == A!NewGroupAddrString(address)
       IN  Target(destination, UNION {LookupByAddress(c, destination) : c \in catalogs})

(* The digits of two numbers one after the other.                          *)
Joined(a, b) ==
  a * (CHOOSE p \in {10^k : k \in 1..5} : b < p /\ (b >= p \div 10 \/ p = 10)) + b

(* canonicalizeDatapointType: with a prefix all that follows the main      *)
(* number is the sub number, its dashes left out.                          *)
CanonicalizeDatapointType(text) ==
  IF \/ (text.prefix = "none") # (text.separator = ".")
     \/ Len(text.parts) < 2 \/ \E i \in DOMAIN text.parts : text.parts[i] < 0
     \/ text.prefix = "none" /\ Len(text.parts) # 2
    THEN D!NoType
    ELSE <<text.parts[1], FoldLeft(Joined, text.parts[2], SubSeq(text.parts, 3, Len(text.parts)))>>

(* The type that was given, if it is known, or the group's first.          *)
ResolveDatapointType(given, group) ==
  IF given # {}
    THEN {CanonicalizeDatapointType(t) : t \in given} \cap D!Registered
    ELSE {g.dpts[1] : g \in {h \in group : h.dpts # <<>>}}

-----------------------------------------------------------------------------
(* A value is read as JSON: text.json is what kind of JSON it is, "none"   *)
(* for a text that is none and is taken for a string.  A text that is no   *)
(* value of the type may still be one of the words for a truth value.      *)
(* null leaves a value as it was made; an object, which gives the fields   *)
(* of a structure, is not among the texts.                                 *)
Zero(f) ==
  CASE f \in {"ASCII", "Latin1", "VarString"} -> <<>>
    [] f = "Time" -> [weekday |-> 0, hour |-> 0, minute |-> 0, second |-> 0]
    [] f = "Date" -> [year |-> 0, month |-> 0, day |-> 0]
    [] f = "DateTime" -> [date |-> <<1, 1, 1, 0, 0, 0>>, flags |-> {}, dst |-> FALSE]
    [] f = "xyY" -> [x |-> 0, y |-> 0, brightness |-> 0, valid |-> <<0, 0>>]
    [] f = "RGBW" -> [colours |-> <<0, 0, 0, 0>>, valid |-> <<0, 0, 0, 0>>]
    [] OTHER -> 0

Decoded(id, text) ==
  LET f == D!FormatOf(id)
  IN IF text.json = "null" THEN {Zero(f)}
     ELSE CASE f = "B1" -> text.bool
       [] f \in {"ASCII", "Latin1", "VarString"} ->
            IF text.json = "none" THEN {text.chars}
            ELSE IF text.json = "string" THEN {SubSeq(text.chars, 2, Len(text.chars) - 1)}
            ELSE {}
       [] OTHER -> IF text.json = "number" THEN D!Parsed(id, text) ELSE {}

EncodeDatapointValue(id, text) ==
  IF id \notin D!Registered \/ text.chars = <<>> \/ Decoded(id, text) = {} THEN {D!Fails}
  ELSE UNION {{D!Got(data, Len(data)) : data \in D!Pack(id, v)} : v \in Decoded(id, text)}
=============================================================================
