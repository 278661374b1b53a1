-------------------------------- MODULE GAC --------------------------------
(***************************************************************************)
(* knx/gac: the catalog of group addresses, imported from and exported to  *)
(* a group address exchange document.                                      *)
(*                                                                         *)
(* A name is [word, case]: its word in lower case, by which the catalog    *)
(* tells names apart, and how it is written.  A catalog is the sequence    *)
(* "ordered" of its groups; the maps byName and byAddress are written with *)
(* it and hold the same groups.  A document is a tree of ranges; an entry  *)
(* of a range has the texts of its address (-1: no number of 16 bits) and  *)
(* of its datapoint types (see DPT).                                       *)
(***************************************************************************)
EXTENDS Integers, Sequences, SequencesExt, FiniteSets

CONSTANT NaN  \* the float32 that is no number (see DPT)

D == INSTANCE DPT

Failed == [error |-> TRUE, groups |-> <<>>]
Catalog(groups) == [error |-> FALSE, groups |-> groups]

(* parseDPTs: an empty list is one empty field, which is no type.          *)
ParseDPTs(texts) == [i \in 1..Len(texts) |-> D!NormaliseDPTID(texts[i])]
AcceptDPTs(texts) ==
  texts # <<>> /\ \A i \in 1..Len(texts) : D!NormaliseDPTID(texts[i]) \in D!Registered

SameName(g, name) == g.name.word = name.word

(* Mutant: the names and addresses of a catalog may repeat. *)
AddGroup_bug(c, entry, path) ==
  IF c.error \/ entry.address \notin 1..65535 \/ ~AcceptDPTs(entry.dpts) THEN Failed
  ELSE Catalog(Append(c.groups, [name |-> entry.name, address |-> entry.address,
                                 dpts |-> ParseDPTs(entry.dpts), path |-> path]))
AddGroup(c, entry, path) ==
  IF \/ c.error
     \/ entry.name.word = ""
     \/ \E i \in 1..Len(c.groups) : SameName(c.groups[i], entry.name)
     \/ entry.address \notin 1..65535
     \/ ~AcceptDPTs(entry.dpts)
     \/ \E i \in 1..Len(c.groups) : c.groups[i].address = entry.address
    THEN Failed
    ELSE Catalog(Append(c.groups, [name |-> entry.name, address |-> entry.address,
                                   dpts |-> ParseDPTs(entry.dpts), path |-> path]))

(* walkRange: the addresses of a range, then the ranges inside, each with  *)
(* the names on the way to it.  A range is named by where it is: its       *)
(* number among the ranges of the document, then among those inside.       *)
WalkRanges(doc) ==
  LET RangeAt[at \in Seq(Nat)] ==
        IF Len(at) = 1 THEN doc.ranges[at[1]] ELSE RangeAt[Front(at)].ranges[Last(at)]
      Path(at) == [k \in 1..Len(at) |-> RangeAt[SubSeq(at, 1, k)].name]
      Inner(at) == IF at = <<>> THEN doc.ranges ELSE RangeAt[at].ranges
      Own(at) == IF at = <<>> THEN <<>>
                 ELSE [i \in 1..Len(RangeAt[at].addresses) |->
                         [entry |-> RangeAt[at].addresses[i], path |-> Path(at)]]
      Walk[at \in Seq(Nat)] ==
        Own(at) \o FlattenSeq([i \in 1..Len(Inner(at)) |-> Walk[Append(at, i)]])
  IN  Walk[<<>>]

(* A file in a charset that is not UTF-8 is rejected. *)
Import(doc) ==
  IF doc.charset \notin {"", "utf-8", "utf8"} THEN Failed
  ELSE FoldLeft(LAMBDA acc, e : AddGroup(acc, e.entry, e.path), Catalog(<<>>), WalkRanges(doc))

-----------------------------------------------------------------------------
(* Export.  The groups of a path are one range however many ranges they    *)
(* were imported from; a range is followed by those inside, in the order   *)
(* in which a group was first found there.                                 *)
FormatDPTs(types) ==
  SelectSeq([i \in 1..Len(types) |-> D!DPST(types[i])],
            LAMBDA text : text.parts # <<>>)

Inside(groups, path) == SelectSeq(groups, LAMBDA g : IsPrefix(path, g.path))
Addresses(groups) == {groups[i].address : i \in 1..Len(groups)}

(* The paths one level below, each once. *)
Children(groups, path) ==
  LET deeper == SelectSeq(groups, LAMBDA g : IsStrictPrefix(path, g.path))
      paths == [i \in 1..Len(deeper) |-> SubSeq(deeper[i].path, 1, Len(path) + 1)]
  IN  FoldLeft(LAMBDA acc, p : IF Contains(acc, p) THEN acc ELSE Append(acc, p), <<>>, paths)

(* toExchangeRange of the paths that groups have.                          *)
ToExchangeRanges(groups) ==
  LET names == UNION {Range(groups[i].path) : i \in 1..Len(groups)}
      ToExchangeRange[path \in Seq(names)] ==
        LET own == SelectSeq(groups, LAMBDA g : g.path = path)
            inside == Addresses(Inside(groups, path))
            children == Children(groups, path)
        IN  [name |-> Last(path),
             rangeStart |-> CHOOSE a \in inside : \A b \in inside : a <= b,
             rangeEnd |-> CHOOSE a \in inside : \A b \in inside : b <= a,
             addresses |-> [i \in 1..Len(own) |->
                              [name |-> own[i].name, address |-> own[i].address,
                               dpts |-> FormatDPTs(own[i].dpts)]],
             ranges |-> [i \in 1..Len(children) |-> ToExchangeRange[children[i]]]]
      top == Children(groups, <<>>)
  IN  [i \in 1..Len(top) |-> ToExchangeRange[top[i]]]

Export(c) == [charset |-> "utf-8", ranges |-> ToExchangeRanges(c.groups)]

-----------------------------------------------------------------------------
(* Lookups: at most one group, or none.                                    *)
Lookup(c, name) == {g \in Range(c.groups) : SameName(g, name)}
LookupByAddress(c, address) == {g \in Range(c.groups) : g.address = address}

(* Copies of the groups, in the catalog's order. *)
Groups(c) == c.groups
=============================================================================
