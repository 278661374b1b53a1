---------------------------- MODULE RouterProofs ----------------------------
(***************************************************************************)
(* What Router.tla keeps for every set of messages, every size of the      *)
(* retainer and every number of routing-lost indications: the retainer is  *)
(* bounded, no message is in two places at once, messages are retained in  *)
(* the order of their last transmission and without gaps, and sendMu,      *)
(* which no call gives back itself, is the flow control.                   *)
(***************************************************************************)
EXTENDS Router, TLAPS

(* A message whose Send has not had the lock is nowhere yet.               *)
NotSentYet ==
  \A m \in Messages : pc[m] \in {"new", "locking"} =>
     /\ \A i \in DOMAIN retainer : retainer[i] # m
     /\ \A a \in DOMAIN batches : \A i \in DOMAIN batches[a] : batches[a][i] # m

(* The lock is held exactly as long as one goroutine or timer will give it *)
(* back, never two.                                                        *)
OneUnlocker ==
  /\ sendMu = "free" => \A u \in Unlockers : unlockers[u] = 0
  /\ sendMu = "held" => unlockers["pause"] + unlockers["timer"] = 1

Inv == TypeOK /\ Bounded /\ NoCopies /\ NotSentYet /\ OneUnlocker

(* Every element of u is one of s, at an index moved by the same number.   *)
Window(u, s) ==
  \E k \in Nat : \A i \in DOMAIN u : i + k \in DOMAIN s /\ u[i] = s[i + k]
-----------------------------------------------------------------------------
(* Sequences.                                                              *)

(* Trimming keeps a part of the sequence, of the size allowed.             *)
LEMMA TrimmedWindow ==
  ASSUME NEW S, NEW s \in Seq(S)
  PROVE  /\ Trimmed(s) \in Seq(S) /\ Len(Trimmed(s)) <= RetainCount
         /\ Window(Trimmed(s), s)
<1> USE RouterAssumption
<1>1. CASE Len(s) > RetainCount
  <2>1. Trimmed(s) = SubSeq(s, Len(s) - RetainCount + 1, Len(s))
    BY <1>1 DEF Trimmed
  <2>2. Trimmed(s) \in Seq(S) /\ Len(Trimmed(s)) = RetainCount
    BY <1>1, <2>1
  <2>3. \A i \in 1..RetainCount :
           /\ i + (Len(s) - RetainCount) \in 1..Len(s)
           /\ Trimmed(s)[i] = s[i + (Len(s) - RetainCount)]
    BY <1>1, <2>1, <2>2
  <2>4. DOMAIN Trimmed(s) = 1..RetainCount /\ DOMAIN s = 1..Len(s)
    BY <2>2
  <2>5. Len(s) - RetainCount \in Nat
    BY <1>1
  <2>6. \E k \in Nat : \A i \in DOMAIN Trimmed(s) : i + k \in DOMAIN s /\ Trimmed(s)[i] = s[i + k]
    <3> WITNESS Len(s) - RetainCount \in Nat
    <3> QED
      BY <2>3, <2>4
  <2> QED
    BY <2>2, <2>6 DEF Window
<1>2. CASE Len(s) <= RetainCount
  <2>1. Trimmed(s) = s
    BY <1>2 DEF Trimmed
  <2>2. \E k \in Nat : \A i \in DOMAIN s : i + k \in DOMAIN s /\ s[i] = s[i + k]
    <3> WITNESS 0 \in Nat
    <3> QED
      OBVIOUS
  <2> QED
    BY <1>2, <2>1, <2>2 DEF Window
<1> QED
  BY <1>1, <1>2

(* The tail is a part of the sequence.                                     *)
LEMMA TailWindow ==
  ASSUME NEW S, NEW s \in Seq(S), s # <<>>
  PROVE  Tail(s) \in Seq(S) /\ Window(Tail(s), s)
<1>1. \E k \in Nat : \A i \in DOMAIN Tail(s) : i + k \in DOMAIN s /\ Tail(s)[i] = s[i + k]
  <2> WITNESS 1 \in Nat
  <2> QED
    OBVIOUS
<1> QED
  BY <1>1 DEF Window

(* A sequence cut in two: the last n elements, and the others.             *)
LEMMA SplitSeq ==
  ASSUME NEW S, NEW s \in Seq(S), NEW n \in 0..Len(s)
  PROVE  /\ SubSeq(s, Len(s) - n + 1, Len(s)) \in Seq(S)
         /\ Len(SubSeq(s, Len(s) - n + 1, Len(s))) = n
         /\ \A i \in 1..n : SubSeq(s, Len(s) - n + 1, Len(s))[i] = s[Len(s) - n + i]
         /\ SubSeq(s, 1, Len(s) - n) \in Seq(S)
         /\ Len(SubSeq(s, 1, Len(s) - n)) = Len(s) - n
         /\ \A i \in 1..(Len(s) - n) : SubSeq(s, 1, Len(s) - n)[i] = s[i]
OBVIOUS
-----------------------------------------------------------------------------
(* NoCopies, for any retainer r and any batches bs.                        *)

Distinct(r, bs) ==
  /\ \A i, j \in DOMAIN r : r[i] = r[j] => i = j
  /\ \A a \in DOMAIN bs : \A i \in DOMAIN bs[a] :
       /\ \A j \in DOMAIN r : bs[a][i] # r[j]
       /\ \A b \in DOMAIN bs : \A j \in DOMAIN bs[b] :
            bs[a][i] = bs[b][j] => a = b /\ i = j

(* What Distinct says of two messages of batches, one by one.              *)
LEMMA SamePlace ==
  ASSUME NEW r, NEW bs, Distinct(r, bs), NEW a \in DOMAIN bs, NEW i \in DOMAIN bs[a],
         NEW c \in DOMAIN bs, NEW j \in DOMAIN bs[c], bs[a][i] = bs[c][j]
  PROVE  a = c /\ i = j
BY SMT DEF Distinct

(* The message m is neither in r nor in bs.                                *)
Nowhere(m, r, bs) ==
  /\ \A i \in DOMAIN r : r[i] # m
  /\ \A a \in DOMAIN bs : \A i \in DOMAIN bs[a] : bs[a][i] # m

(* Retaining a message that is nowhere keeps messages distinct, and leaves *)
(* nothing in the retainer but it and what was there (Send, 203-207).      *)
LEMMA Retained ==
  ASSUME NEW r \in Seq(Messages), NEW bs \in Seq(Seq(Messages)), NEW m \in Messages,
         Distinct(r, bs), Nowhere(m, r, bs)
  PROVE  /\ Distinct(Trimmed(Append(r, m)), bs)
         /\ \A x : x # m /\ Nowhere(x, r, bs) => Nowhere(x, Trimmed(Append(r, m)), bs)
<1> DEFINE s == Append(r, m)  t == Trimmed(s)
<1>1. s \in Seq(Messages) /\ DOMAIN s = 1..(Len(r) + 1) /\ DOMAIN r = 1..Len(r) /\ Len(r) \in Nat
  OBVIOUS
<1>2. \A i \in DOMAIN r : i \in DOMAIN s /\ s[i] = r[i]
  OBVIOUS
<1>3. s[Len(r) + 1] = m
  OBVIOUS
<1>4. \A i \in DOMAIN s : i \in DOMAIN r \/ i = Len(r) + 1
  BY <1>1
<1>5. t \in Seq(Messages) /\ Window(t, s)
  BY <1>1, TrimmedWindow
<1>6. PICK k \in Nat : \A i \in DOMAIN t : i + k \in DOMAIN s /\ t[i] = s[i + k]
  BY <1>5 DEF Window
<1>7. DOMAIN t \subseteq Nat
  BY <1>5
<1>8. \A i, j \in DOMAIN s : s[i] = s[j] => i = j
  BY <1>2, <1>3, <1>4 DEF Distinct, Nowhere
<1>9. \A i, j \in DOMAIN t : t[i] = t[j] => i = j
  <2> SUFFICES ASSUME NEW i \in DOMAIN t, NEW j \in DOMAIN t, t[i] = t[j] PROVE i = j
    OBVIOUS
  <2>1. i + k = j + k
    BY <1>6, <1>8
  <2> QED
    BY <2>1, <1>7
<1>10. \A a \in DOMAIN bs : \A i \in DOMAIN bs[a] : \A j \in DOMAIN s : bs[a][i] # s[j]
  BY <1>2, <1>3, <1>4 DEF Distinct, Nowhere
<1>11. \A a \in DOMAIN bs : \A i \in DOMAIN bs[a] : \A j \in DOMAIN t : bs[a][i] # t[j]
  BY <1>6, <1>10
<1>12. Distinct(t, bs)
  BY <1>9, <1>11, Zenon DEF Distinct
<1>13. ASSUME NEW x, x # m, Nowhere(x, r, bs) PROVE Nowhere(x, t, bs)
  <2>1. \A j \in DOMAIN s : s[j] # x
    BY <1>13, <1>2, <1>3, <1>4 DEF Nowhere
  <2>2. \A j \in DOMAIN t : t[j] # x
    BY <1>6, <2>1
  <2> QED
    BY <1>13, <2>2 DEF Nowhere
<1> QED
  BY <1>12, <1>13

(* Taking the first message of a batch keeps messages distinct and leaves  *)
(* that message nowhere (sendMultiple, 66-70).                             *)
LEMMA Popped ==
  ASSUME NEW r \in Seq(Messages), NEW bs \in Seq(Seq(Messages)), NEW b \in DOMAIN bs,
         bs[b] # <<>>, Distinct(r, bs)
  PROVE  LET cs == [bs EXCEPT ![b] = Tail(@)] IN
         /\ cs \in Seq(Seq(Messages)) /\ Head(bs[b]) \in Messages
         /\ Distinct(r, cs) /\ Nowhere(Head(bs[b]), r, cs)
         /\ \A x : Nowhere(x, r, bs) => Nowhere(x, r, cs) /\ x # Head(bs[b])
<1> DEFINE cs == [bs EXCEPT ![b] = Tail(@)]  m == Head(bs[b])
<1>1. bs[b] \in Seq(Messages) /\ m \in Messages /\ m = bs[b][1] /\ 1 \in DOMAIN bs[b]
  OBVIOUS
<1>2. cs \in Seq(Seq(Messages)) /\ DOMAIN cs = DOMAIN bs
  <2>1. Tail(bs[b]) \in Seq(Messages)
    BY <1>1
  <2> QED
    BY <2>1
<1>3. cs[b] = Tail(bs[b]) /\ \A a \in DOMAIN bs : a # b => cs[a] = bs[a]
  OBVIOUS
<1>4. \A i \in DOMAIN Tail(bs[b]) : /\ i \in Nat /\ i + 1 \in DOMAIN bs[b] /\ i + 1 # 1
                                    /\ Tail(bs[b])[i] = bs[b][i + 1]
  BY <1>1
<1>5. \A a \in DOMAIN cs : \A i \in DOMAIN cs[a] :
         \E k \in DOMAIN bs[a] : /\ cs[a][i] = bs[a][k]
                                 /\ k = IF a = b THEN i + 1 ELSE i
  <2> SUFFICES ASSUME NEW a \in DOMAIN bs, NEW i \in DOMAIN cs[a]
               PROVE  \E k \in DOMAIN bs[a] : /\ cs[a][i] = bs[a][k]
                                              /\ k = IF a = b THEN i + 1 ELSE i
    BY <1>2
  <2>1. CASE a = b
    BY <2>1, <1>3, <1>4
  <2>2. CASE a # b
    BY <2>2, <1>3
  <2> QED
    BY <2>1, <2>2
<1>6. \A a \in DOMAIN cs : DOMAIN cs[a] \subseteq Nat
  <2>1. \A a \in DOMAIN cs : cs[a] \in Seq(Messages)
    BY <1>2
  <2> QED
    BY <2>1
<1> HIDE DEF cs, m
<1>7. \A i, j \in DOMAIN r : r[i] = r[j] => i = j
  BY DEF Distinct
<1>8. \A a \in DOMAIN cs : \A i \in DOMAIN cs[a] : \A j \in DOMAIN r : cs[a][i] # r[j]
  BY <1>2, <1>5 DEF Distinct
<1>9. ASSUME NEW a \in DOMAIN cs, NEW i \in DOMAIN cs[a],
             NEW c \in DOMAIN cs, NEW j \in DOMAIN cs[c], cs[a][i] = cs[c][j]
      PROVE  a = c /\ i = j
  <2>1. PICK k \in DOMAIN bs[a] : cs[a][i] = bs[a][k] /\ k = IF a = b THEN i + 1 ELSE i
    BY <1>5
  <2>2. PICK l \in DOMAIN bs[c] : cs[c][j] = bs[c][l] /\ l = IF c = b THEN j + 1 ELSE j
    BY <1>5
  <2>3. a = c /\ k = l
    <3>1. bs[a][k] = bs[c][l] /\ a \in DOMAIN bs /\ c \in DOMAIN bs
      BY <1>2, <1>9, <2>1, <2>2
    <3> QED
      BY <3>1, SamePlace
  <2>4. i \in Nat /\ j \in Nat
    BY <1>6
  <2> QED
    BY <2>1, <2>2, <2>3, <2>4
<1>10. Distinct(r, cs)
  <2>1. \A a \in DOMAIN cs : \A i \in DOMAIN cs[a] : \A c \in DOMAIN cs :
           \A j \in DOMAIN cs[c] : cs[a][i] = cs[c][j] => a = c /\ i = j
    BY <1>9
  <2> QED
    BY <1>7, <1>8, <2>1, Zenon DEF Distinct
<1>11. Nowhere(m, r, cs)
  <2>1. \A i \in DOMAIN r : r[i] # m
    BY <1>1 DEF Distinct, m
  <2>2. ASSUME NEW a \in DOMAIN cs, NEW i \in DOMAIN cs[a], cs[a][i] = m PROVE FALSE
    <3>1. PICK k \in DOMAIN bs[a] : cs[a][i] = bs[a][k] /\ k = IF a = b THEN i + 1 ELSE i
      BY <1>5
    <3>2. a = b /\ k = 1
      <4>1. bs[a][k] = bs[b][1] /\ a \in DOMAIN bs
        BY <1>1, <1>2, <2>2, <3>1
      <4> QED
        BY <4>1, <1>1, SamePlace
    <3>3. i \in DOMAIN Tail(bs[b])
      BY <3>2, <1>3
    <3> QED
      BY <3>1, <3>2, <3>3, <1>4
  <2> QED
    BY <2>1, <2>2 DEF Nowhere
<1>12. \A x : Nowhere(x, r, bs) => Nowhere(x, r, cs) /\ x # m
  BY <1>1, <1>2, <1>5 DEF Nowhere
<1> QED
  BY <1>1, <1>2, <1>10, <1>11, <1>12 DEF cs, m

(* The last n retained messages moved to a new batch stay distinct from    *)
(* the others (resendLost, 73-91).                                         *)
LEMMA Split ==
  ASSUME NEW r \in Seq(Messages), NEW bs \in Seq(Seq(Messages)), NEW n \in 0..Len(r),
         Distinct(r, bs)
  PROVE  LET u  == SubSeq(r, 1, Len(r) - n)
             cs == Append(bs, SubSeq(r, Len(r) - n + 1, Len(r))) IN
         /\ u \in Seq(Messages) /\ cs \in Seq(Seq(Messages)) /\ Len(u) <= Len(r)
         /\ Distinct(u, cs)
         /\ \A x : Nowhere(x, r, bs) => Nowhere(x, u, cs)
<1> DEFINE u == SubSeq(r, 1, Len(r) - n)
           v == SubSeq(r, Len(r) - n + 1, Len(r))
           cs == Append(bs, v)
           e == Len(bs) + 1
<1>1. /\ u \in Seq(Messages) /\ DOMAIN u = 1..(Len(r) - n) /\ Len(u) = Len(r) - n
      /\ \A i \in 1..(Len(r) - n) : u[i] = r[i]
  BY SplitSeq
<1>2. /\ v \in Seq(Messages) /\ DOMAIN v = 1..n
      /\ \A i \in 1..n : v[i] = r[Len(r) - n + i]
  BY SplitSeq
<1>3. DOMAIN r = 1..Len(r) /\ Len(r) \in Nat /\ n \in Nat /\ Len(r) - n \in Nat /\ DOMAIN bs = 1..Len(bs)
      /\ Len(bs) \in Nat
  OBVIOUS
<1>4. /\ cs \in Seq(Seq(Messages)) /\ cs[e] = v /\ e \notin DOMAIN bs
      /\ \A a \in DOMAIN cs : (a \in DOMAIN bs /\ cs[a] = bs[a]) \/ a = e
  BY <1>2, <1>3
<1> HIDE DEF u, v, cs, e
<1>5. /\ \A i, j \in DOMAIN r : r[i] = r[j] => i = j
      /\ \A a \in DOMAIN bs : \A i \in DOMAIN bs[a] : \A j \in DOMAIN r : bs[a][i] # r[j]
  BY Zenon DEF Distinct
<1>7. \A i \in DOMAIN u : i \in DOMAIN r /\ u[i] = r[i] /\ i \in Nat /\ i <= Len(r) - n
  BY <1>1, <1>3
<1>8. \A i \in DOMAIN v : /\ Len(r) - n + i \in DOMAIN r /\ v[i] = r[Len(r) - n + i]
                          /\ i \in Nat /\ i > 0
  BY <1>2, <1>3
<1>9. \A i, j \in DOMAIN u : u[i] = u[j] => i = j
  BY <1>5, <1>7
<1>10. \A i \in DOMAIN v : \A j \in DOMAIN u : v[i] # u[j]
  <2> SUFFICES ASSUME NEW i \in DOMAIN v, NEW j \in DOMAIN u, v[i] = u[j] PROVE FALSE
    OBVIOUS
  <2>1. Len(r) - n + i = j
    BY <1>5, <1>7, <1>8
  <2> QED
    BY <2>1, <1>3, <1>7, <1>8
<1>11. \A i, j \in DOMAIN v : v[i] = v[j] => i = j
  <2> SUFFICES ASSUME NEW i \in DOMAIN v, NEW j \in DOMAIN v, v[i] = v[j] PROVE i = j
    OBVIOUS
  <2>1. Len(r) - n + i = Len(r) - n + j
    BY <1>5, <1>8
  <2> QED
    BY <2>1, <1>3, <1>8
<1>12. \A a \in DOMAIN bs : \A i \in DOMAIN bs[a] : \A j \in DOMAIN v : bs[a][i] # v[j]
  BY <1>5, <1>8
<1>13. \A a \in DOMAIN cs : \A i \in DOMAIN cs[a] : \A j \in DOMAIN u : cs[a][i] # u[j]
  <2> SUFFICES ASSUME NEW a \in DOMAIN cs, NEW i \in DOMAIN cs[a], NEW j \in DOMAIN u
               PROVE  cs[a][i] # u[j]
    OBVIOUS
  <2>1. CASE a = e
    BY <2>1, <1>4, <1>10
  <2>2. CASE a # e
    BY <2>2, <1>4, <1>5, <1>7
  <2> QED
    BY <2>1, <2>2
<1>14. \A a \in DOMAIN cs : \A i \in DOMAIN cs[a] : \A c \in DOMAIN cs : \A j \in DOMAIN cs[c] :
         cs[a][i] = cs[c][j] => a = c /\ i = j
  <2> SUFFICES ASSUME NEW a \in DOMAIN cs, NEW i \in DOMAIN cs[a], NEW c \in DOMAIN cs,
                      NEW j \in DOMAIN cs[c], cs[a][i] = cs[c][j]
               PROVE  a = c /\ i = j
    OBVIOUS
  <2>1. CASE a = e /\ c = e
    BY <2>1, <1>4, <1>11
  <2>2. CASE a = e /\ c # e
    <3>1. c \in DOMAIN bs /\ j \in DOMAIN bs[c] /\ i \in DOMAIN v /\ bs[c][j] = v[i]
      BY <2>2, <1>4
    <3> QED
      BY <3>1, <1>12
  <2>3. CASE a # e /\ c = e
    <3>1. a \in DOMAIN bs /\ i \in DOMAIN bs[a] /\ j \in DOMAIN v /\ bs[a][i] = v[j]
      BY <2>3, <1>4
    <3> QED
      BY <3>1, <1>12
  <2>4. CASE a # e /\ c # e
    <3>1. /\ a \in DOMAIN bs /\ i \in DOMAIN bs[a] /\ c \in DOMAIN bs /\ j \in DOMAIN bs[c]
          /\ bs[a][i] = bs[c][j]
      BY <2>4, <1>4
    <3> QED
      BY <3>1, SamePlace
  <2> QED
    BY <2>1, <2>2, <2>3, <2>4
<1>15. Distinct(u, cs)
  BY <1>9, <1>13, <1>14, Zenon DEF Distinct
<1>16. \A x : Nowhere(x, r, bs) => Nowhere(x, u, cs)
  <2> SUFFICES ASSUME NEW x, Nowhere(x, r, bs) PROVE Nowhere(x, u, cs)
    OBVIOUS
  <2>1. \A i \in DOMAIN u : u[i] # x
    BY <1>7 DEF Nowhere
  <2>2. \A i \in DOMAIN v : v[i] # x
    BY <1>8 DEF Nowhere
  <2>3. \A a \in DOMAIN cs : \A i \in DOMAIN cs[a] : cs[a][i] # x
    BY <2>2, <1>4 DEF Nowhere
  <2> QED
    BY <2>1, <2>3 DEF Nowhere
<1>17. /\ u \in Seq(Messages) /\ cs \in Seq(Seq(Messages)) /\ Len(u) <= Len(r)
       /\ Distinct(u, cs)
       /\ \A x : Nowhere(x, r, bs) => Nowhere(x, u, cs)
  BY <1>1, <1>3, <1>4, <1>15, <1>16
<1> QED
  BY <1>17, Zenon DEF u, cs, v
-----------------------------------------------------------------------------
(* Bags, and the invariant in the initial state.                           *)

(* What joins the bag of the goroutines of pushInbound ...                 *)
LEMMA BagAddSet ==
  ASSUME NEW B, NEW x
  PROVE  BagToSet(BagAdd(B, x)) = BagToSet(B) \cup {x}
BY DEF BagToSet, BagAdd

(* ... what leaves it ...                                                  *)
LEMMA BagRemoveSet ==
  ASSUME NEW B, NEW x
  PROVE  BagToSet(BagRemove(B, x)) \subseteq BagToSet(B)
BY DEF BagToSet, BagRemove

(* ... and what is in it at first, and once inbound is closed: nothing.    *)
LEMMA EmptyBagSet == BagToSet(EmptyBag) = {}
BY DEF BagToSet, EmptyBag, SetToBag

(* NewRouter establishes the invariant.                                    *)
THEOREM InitInv == Init => Inv
<1> SUFFICES ASSUME Init PROVE Inv
  OBVIOUS
<1>1. DOMAIN retainer = {} /\ DOMAIN batches = {} /\ Len(retainer) = 0
  BY DEF Init
<1>2. TypeOK
  <2>1. retainer \in Seq(Messages) /\ batches \in Seq(Seq(Messages)) /\ wire \in Seq(Messages)
    BY DEF Init
  <2>2. delivered \in Seq(Telegrams) /\ BagToSet(pushers) \subseteq Telegrams
    BY EmptyBagSet DEF Init
  <2>3. pc \in [Messages -> {"new", "locking", "ok", "failed"}] /\ lostCount \in 0..MaxCount
    BY RouterAssumption DEF Init
  <2>4. sendMu \in {"free", "held"} /\ unlockers \in [Unlockers -> Nat]
    BY DEF Init
  <2> QED
    BY <2>1, <2>2, <2>3, <2>4 DEF Init, TypeOK
<1>3. Bounded
  BY <1>1, RouterAssumption DEF Bounded
<1>4. NoCopies /\ NotSentYet
  BY <1>1, Zenon DEF NoCopies, NotSentYet
<1>5. OneUnlocker
  BY DEF Init, OneUnlocker
<1> QED
  BY <1>2, <1>3, <1>4, <1>5 DEF Inv
-----------------------------------------------------------------------------
(* The steps.                                                              *)

Unsent == {"new", "locking"}

(* The invariant in terms of the two predicates above.                     *)
LEMMA InvParts ==
  /\ Inv <=> /\ TypeOK /\ Bounded /\ OneUnlocker /\ Distinct(retainer, batches)
             /\ \A m \in Messages : pc[m] \in Unsent => Nowhere(m, retainer, batches)
  /\ Inv' <=> /\ TypeOK' /\ Bounded' /\ OneUnlocker' /\ Distinct(retainer', batches')
              /\ \A m \in Messages : pc'[m] \in Unsent => Nowhere(m, retainer', batches')
BY Zenon DEF Inv, NoCopies, NotSentYet, Distinct, Nowhere, Unsent

(* Taking the lock when it is free makes one goroutine or timer its only   *)
(* unlocker, ...                                                           *)
LEMMA LockedInv ==
  ASSUME TypeOK, OneUnlocker, NEW u \in Unlockers, sendMu = "free", Locked(u)
  PROVE  sendMu' \in {"free", "held"} /\ unlockers' \in [Unlockers -> Nat] /\ OneUnlocker'
<1>1. unlockers \in [Unlockers -> Nat] /\ \A v \in Unlockers : unlockers[v] = 0
  BY DEF TypeOK, OneUnlocker
<1>2. unlockers' \in [Unlockers -> Nat]
  BY <1>1 DEF Locked
<1>3. unlockers'["pause"] + unlockers'["timer"] = 1
  BY <1>1 DEF Locked, Unlockers
<1> QED
  BY <1>2, <1>3 DEF Locked, OneUnlocker

(* ... and when that one unlocks, the lock was held and none is left.      *)
LEMMA UnlockInv ==
  ASSUME TypeOK, OneUnlocker, NEW u \in Unlockers, Unlock(u)
  PROVE  /\ sendMu = "held" /\ sendMu' = "free"
         /\ unlockers' \in [Unlockers -> Nat] /\ OneUnlocker'
<1>1. unlockers \in [Unlockers -> Nat] /\ unlockers[u] > 0 /\ sendMu \in {"free", "held"}
  BY DEF TypeOK, Unlock, Unlocks
<1>2. sendMu = "held"
  BY <1>1 DEF OneUnlocker
<1>3. unlockers["pause"] + unlockers["timer"] = 1
  BY <1>2 DEF OneUnlocker
<1>4. unlockers' = [unlockers EXCEPT ![u] = @ - 1] /\ sendMu' = "free"
  BY DEF Unlock
<1>5. \A v \in Unlockers : unlockers'[v] = 0
  BY <1>1, <1>3, <1>4 DEF Unlockers
<1>6. unlockers' \in [Unlockers -> Nat]
  BY <1>1, <1>4
<1> QED
  BY <1>2, <1>4, <1>5, <1>6 DEF OneUnlocker

(* A step that moves no message and starts no call anew.                   *)
LEMMA FrameInv ==
  ASSUME Inv, TypeOK', OneUnlocker', UNCHANGED <<retainer, batches>>,
         \A m \in Messages : pc'[m] \in Unsent => pc[m] \in Unsent
  PROVE  Inv'
<1>1. Bounded'
  BY DEF Inv, Bounded
<1> QED
  BY <1>1, InvParts

(* A transmission takes a message that is nowhere into the retainer.       *)
LEMMA TransmittedInv ==
  ASSUME TypeOK, NEW m \in Messages, NEW bs \in Seq(Seq(Messages)),
         Distinct(retainer, bs), Nowhere(m, retainer, bs), Transmitted(m)
  PROVE  /\ retainer' \in Seq(Messages) /\ wire' \in Seq(Messages) /\ Bounded'
         /\ Distinct(retainer', bs)
         /\ \A x : x # m /\ Nowhere(x, retainer, bs) => Nowhere(x, retainer', bs)
<1>1. retainer \in Seq(Messages) /\ Append(retainer, m) \in Seq(Messages)
  BY DEF TypeOK
<1>2. retainer' = Trimmed(Append(retainer, m))
  BY DEF Transmitted
<1>3. retainer' \in Seq(Messages) /\ Len(retainer') <= RetainCount
  BY <1>1, <1>2, TrimmedWindow
<1>4. wire' \in Seq(Messages)
  BY DEF Transmitted, TypeOK
<1> QED
  BY <1>1, <1>2, <1>3, <1>4, Retained DEF Bounded

(* A call of Send: its message has been nowhere until now.                 *)
LEMMA SendInv == ASSUME NEW m \in Messages PROVE Inv /\ Send(m) => Inv'
<1> SUFFICES ASSUME Inv, Send(m) PROVE Inv'
  OBVIOUS
<1>1. /\ TypeOK /\ Bounded /\ Distinct(retainer, batches) /\ Nowhere(m, retainer, batches)
      /\ \A x \in Messages : pc[x] \in Unsent => Nowhere(x, retainer, batches)
      /\ batches \in Seq(Seq(Messages))
  BY InvParts DEF Send, Unsent, TypeOK
<1>0. sendMu' \in {"free", "held"} /\ unlockers' \in [Unlockers -> Nat] /\ OneUnlocker'
  BY <1>1, InvParts, LockedInv DEF Send, Unlockers
<1>2. PICK r \in {"ok", "failed"} : pc' = [pc EXCEPT ![m] = r]
  BY DEF Send
<1>3. \A x \in Messages : pc'[x] \in Unsent => x # m /\ pc[x] \in Unsent
  BY <1>1, <1>2 DEF TypeOK, Unsent
<1>4. batches' = batches
  BY DEF Send
<1>5. CASE Transmitted(m)
  <2>1. /\ retainer' \in Seq(Messages) /\ wire' \in Seq(Messages) /\ Bounded'
        /\ Distinct(retainer', batches)
        /\ \A x : x # m /\ Nowhere(x, retainer, batches) => Nowhere(x, retainer', batches)
    BY <1>1, <1>5, TransmittedInv
  <2>2. TypeOK'
    BY <1>0, <1>1, <1>2, <2>1 DEF TypeOK, Send, appVars, endVars
  <2> QED
    BY <1>0, <1>1, <1>3, <1>4, <2>1, <2>2, InvParts
<1>6. CASE UNCHANGED <<wire, retainer>>
  <2>1. TypeOK'
    BY <1>0, <1>1, <1>2, <1>6 DEF TypeOK, Send, appVars, endVars
  <2> QED
    BY <1>0, <1>3, <1>4, <1>6, <2>1, FrameInv
<1> QED
  BY <1>5, <1>6 DEF Send, SendFails

(* A resend: the message leaves its batch for the retainer, or, when the   *)
(* write fails, for nowhere.                                               *)
LEMMA BatchSendInv == ASSUME NEW b \in DOMAIN batches PROVE Inv /\ BatchSend(b) => Inv'
<1> SUFFICES ASSUME Inv, BatchSend(b) PROVE Inv'
  OBVIOUS
<1>1. /\ TypeOK /\ Bounded /\ Distinct(retainer, batches)
      /\ \A x \in Messages : pc[x] \in Unsent => Nowhere(x, retainer, batches)
      /\ retainer \in Seq(Messages) /\ batches \in Seq(Seq(Messages))
  BY InvParts DEF TypeOK
<1>2. batches[b] # <<>> /\ batches' = [batches EXCEPT ![b] = Tail(@)]
  BY DEF BatchSend
<1>3. /\ batches' \in Seq(Seq(Messages)) /\ Head(batches[b]) \in Messages
      /\ Distinct(retainer, batches') /\ Nowhere(Head(batches[b]), retainer, batches')
      /\ \A x : Nowhere(x, retainer, batches)
                => Nowhere(x, retainer, batches') /\ x # Head(batches[b])
  BY <1>1, <1>2, Popped
<1>4. pc' = pc /\ UNCHANGED <<srv, lostCount, appVars, endVars>>
  BY DEF BatchSend
<1>0. sendMu' \in {"free", "held"} /\ unlockers' \in [Unlockers -> Nat] /\ OneUnlocker'
  BY <1>1, InvParts, LockedInv DEF BatchSend, BatchLockFree, Unlockers
<1>5. CASE Transmitted(Head(batches[b]))
  <2>1. /\ retainer' \in Seq(Messages) /\ wire' \in Seq(Messages) /\ Bounded'
        /\ Distinct(retainer', batches')
        /\ \A x : x # Head(batches[b]) /\ Nowhere(x, retainer, batches')
                  => Nowhere(x, retainer', batches')
    BY <1>1, <1>3, <1>5, TransmittedInv
  <2>2. TypeOK'
    BY <1>0, <1>1, <1>3, <1>4, <2>1 DEF TypeOK, appVars, endVars
  <2> QED
    BY <1>0, <1>1, <1>3, <1>4, <2>1, <2>2, InvParts
<1>6. CASE UNCHANGED <<wire, retainer>>
  <2>1. TypeOK' /\ Bounded'
    BY <1>0, <1>1, <1>3, <1>4, <1>6 DEF TypeOK, Bounded, appVars, endVars
  <2> QED
    BY <1>0, <1>1, <1>3, <1>4, <1>6, <2>1, InvParts
<1> QED
  BY <1>5, <1>6 DEF BatchSend, SendFails

(* A routing-lost indication moves messages from the retainer to a batch.  *)
LEMMA ResendLostInv == Inv /\ ResendLost => Inv'
<1> SUFFICES ASSUME Inv, ResendLost PROVE Inv'
  OBVIOUS
<1>1. /\ TypeOK /\ Bounded /\ Distinct(retainer, batches)
      /\ \A x \in Messages : pc[x] \in Unsent => Nowhere(x, retainer, batches)
      /\ retainer \in Seq(Messages) /\ batches \in Seq(Seq(Messages)) /\ lostCount \in Nat
  BY RouterAssumption, InvParts DEF TypeOK
<1>2. PICK n \in 0..Len(retainer) :
         /\ batches' = Append(batches, SubSeq(retainer, Len(retainer) - n + 1, Len(retainer)))
         /\ retainer' = SubSeq(retainer, 1, Len(retainer) - n)
  <2> DEFINE n == IF lostCount > Len(retainer) THEN Len(retainer) ELSE lostCount
  <2>1. batches' = Append(batches, LastOnes(n)) /\ retainer' = Remaining(n)
    BY DEF ResendLost
  <2>2. n \in 0..Len(retainer)
    BY <1>1
  <2> HIDE DEF n
  <2> QED
    BY <2>1, <2>2 DEF LastOnes, Remaining
<1>3. /\ retainer' \in Seq(Messages) /\ batches' \in Seq(Seq(Messages))
      /\ Len(retainer') <= Len(retainer) /\ Distinct(retainer', batches')
      /\ \A x : Nowhere(x, retainer, batches) => Nowhere(x, retainer', batches')
  BY <1>1, <1>2, Split
<1>4. TypeOK' /\ OneUnlocker'
  <2>1. TypeOK'
    BY <1>1, <1>3, RouterAssumption DEF TypeOK, ResendLost, appVars, endVars
  <2>2. OneUnlocker
    BY InvParts
  <2> QED
    BY <2>1, <2>2 DEF OneUnlocker, ResendLost
<1>5. Bounded'
  <2>1. Len(retainer) \in Nat /\ Len(retainer') \in Nat /\ RetainCount \in Nat
    BY <1>1, <1>3, RouterAssumption
  <2> QED
    BY <1>1, <1>3, <2>1 DEF Bounded
<1>6. pc' = pc
  BY DEF ResendLost
<1> QED
  BY <1>1, <1>3, <1>4, <1>5, <1>6, InvParts

(* The steps that move no message: of the lock, the server, the end.       *)
LEMMA OthersInv ==
  Inv /\ ((\E u \in Unlockers : Unlock(u)) \/ BusyArrives \/ Inhibit \/ Exit \/ AppReceive \/ Close \/ SocketEnds) => Inv'
<1> SUFFICES ASSUME Inv,
                    \/ \E u \in Unlockers : Unlock(u)
                    \/ BusyArrives \/ Inhibit \/ Exit \/ AppReceive \/ Close \/ SocketEnds
             PROVE  Inv'
  OBVIOUS
<1> USE DEF appVars, endVars
<1>1. UNCHANGED <<retainer, batches, pc, lostCount, wire>> /\ TypeOK
  BY DEF Inv, Unlock, BusyArrives, Inhibit, Exit, AppReceive, Close, SocketEnds
<1>0. sendMu' \in {"free", "held"} /\ unlockers' \in [Unlockers -> Nat] /\ OneUnlocker'
  <2>1. TypeOK /\ OneUnlocker
    BY DEF Inv
  <2>2. CASE UNCHANGED <<sendMu, unlockers>>
    BY <2>1, <2>2 DEF TypeOK, OneUnlocker
  <2>3. CASE \E u \in Unlockers : Unlock(u)
    BY <2>1, <2>3, UnlockInv
  <2>4. CASE Inhibit
    BY <2>1, <2>4, LockedInv DEF Inhibit, Unlockers
  <2> QED
    BY <2>2, <2>3, <2>4 DEF BusyArrives, Exit, AppReceive, Close, SocketEnds
<1>2. /\ srv' \in {"reading", "busy", "lost", "exited"}
      /\ closed' \in BOOLEAN /\ sockUp' \in BOOLEAN
  BY DEF Inv, TypeOK, Unlock, BusyArrives, Inhibit, Exit, AppReceive, Close, SocketEnds
<1>3. BagToSet(pushers') \subseteq Telegrams /\ delivered' \in Seq(Telegrams)
  <2>1. CASE UNCHANGED <<pushers, delivered>>
    BY <2>1 DEF Inv, TypeOK
  <2>2. CASE Exit
    BY <2>2, EmptyBagSet DEF Exit, Inv, TypeOK
  <2>3. CASE AppReceive
    <3>1. PICK p \in BagToSet(pushers) : /\ pushers' = BagRemove(pushers, p)
                                         /\ delivered' = Append(delivered, p)
      BY <2>3 DEF AppReceive
    <3>2. BagToSet(pushers') \subseteq Telegrams /\ p \in Telegrams
      BY <3>1, BagRemoveSet DEF Inv, TypeOK
    <3> QED
      BY <3>1, <3>2 DEF Inv, TypeOK
  <2> QED
    BY <2>1, <2>2, <2>3 DEF Unlock, BusyArrives, Inhibit, Close, SocketEnds
<1>4. TypeOK'
  BY <1>0, <1>1, <1>2, <1>3 DEF TypeOK
<1> QED
  BY <1>0, <1>1, <1>4, FrameInv

(* A call that starts.                                                     *)
LEMMA CallInv == ASSUME NEW m \in Messages PROVE Inv /\ Call(m) => Inv'
<1> SUFFICES ASSUME Inv, Call(m) PROVE Inv'
  OBVIOUS
<1>1. TypeOK'
  BY DEF Inv, TypeOK, Call, appVars, endVars
<1>3. OneUnlocker'
  BY DEF Inv, OneUnlocker, Call
<1>2. \A x \in Messages : pc'[x] \in Unsent => pc[x] \in Unsent
  BY DEF Inv, TypeOK, Call, Unsent
<1> QED
  BY <1>1, <1>2, <1>3, FrameInv DEF Call

(* What arrives from the network.                                          *)
LEMMA ArrivesInv ==
  /\ \A n \in 0..MaxCount : Inv /\ LostArrives(n) => Inv'
  /\ \A p \in Telegrams : Inv /\ Indication(p) => Inv'
<1> USE DEF appVars, endVars
<1>1. ASSUME NEW n \in 0..MaxCount, Inv, LostArrives(n) PROVE Inv'
  <2>1. TypeOK' /\ OneUnlocker' /\ UNCHANGED <<retainer, batches, pc>>
    BY <1>1 DEF Inv, TypeOK, OneUnlocker, LostArrives
  <2> QED
    BY <1>1, <2>1, FrameInv
<1>2. ASSUME NEW p \in Telegrams, Inv, Indication(p) PROVE Inv'
  <2>1. BagToSet(pushers') \subseteq Telegrams /\ delivered' \in Seq(Telegrams)
    <3>1. CASE delivered' = Append(delivered, p) /\ UNCHANGED pushers
      BY <1>2, <3>1 DEF Inv, TypeOK
    <3>2. CASE pushers' = BagAdd(pushers, p) /\ UNCHANGED delivered
      <4>1. BagToSet(pushers') = BagToSet(pushers) \cup {p}
        BY <3>2, BagAddSet
      <4> QED
        BY <1>2, <3>2, <4>1 DEF Inv, TypeOK
    <3> QED
      BY <1>2, <3>1, <3>2 DEF Indication
  <2>2. TypeOK' /\ OneUnlocker' /\ UNCHANGED <<retainer, batches, pc>>
    BY <1>2, <2>1 DEF Inv, TypeOK, OneUnlocker, Indication
  <2> QED
    BY <1>2, <2>2, FrameInv
<1> QED
  BY <1>1, <1>2

(* Every step of the router keeps the invariant.                           *)
THEOREM NextInv == Inv /\ [Next]_vars => Inv'
<1>1. Inv /\ UNCHANGED vars => Inv'
  <2> SUFFICES ASSUME Inv, UNCHANGED vars PROVE Inv'
    OBVIOUS
  <2>1. TypeOK' /\ OneUnlocker'
    BY DEF Inv, TypeOK, OneUnlocker, vars, appVars, endVars
  <2> QED
    BY <2>1, FrameInv DEF vars
<1> QED
  BY <1>1, SendInv, BatchSendInv, ResendLostInv, OthersInv, CallInv, ArrivesInv DEF Next

(* The inductive invariant holds throughout.                               *)
THEOREM Invariance == Spec => []Inv
BY InitInv, NextInv, PTL DEF Spec

(* Every variable of the router keeps its type.                            *)
THEOREM TypeCorrect == Spec => []TypeOK
BY Invariance, PTL DEF Inv

(* The retainer never holds more than RetainCount messages.                *)
THEOREM BoundedCorrect == Spec => []Bounded
BY Invariance, PTL DEF Inv

(* However many lost indications are served at once, no message is in the  *)
(* retainer and in a resend, or in two resends.                            *)
THEOREM NoCopiesCorrect == Spec => []NoCopies
BY Invariance, PTL DEF Inv

(* Whoever takes sendMu leaves it to one goroutine or timer to unlock, so  *)
(* nothing is transmitted while one of them is still to do so, and none of *)
(* them meets a free lock (Send, 187-197; serve, 134-141).                 *)
THEOREM FlowControlCorrect == Spec => FlowControl
<1> DEFINE Sends == wire' # wire => \A u \in Unlockers : unlockers[u] = 0
           Frees == (\E u \in Unlockers : unlockers'[u] < unlockers[u]) => sendMu = "held"
<1>1. Inv /\ [Next]_vars => [Sends /\ Frees]_vars
  <2> SUFFICES ASSUME Inv, Next PROVE Sends /\ Frees
    OBVIOUS
  <2>1. TypeOK /\ OneUnlocker
    BY DEF Inv
  <2>2. CASE \E u \in Unlockers : Unlock(u)
    BY <2>1, <2>2, UnlockInv DEF Unlock
  <2>3. CASE sendMu = "free" /\ \E u \in Unlockers : Locked(u)
    <3>1. \A u \in Unlockers : unlockers[u] = 0
      BY <2>1, <2>3 DEF OneUnlocker
    <3>2. unlockers' \in [Unlockers -> Nat]
      BY <2>1, <2>3, LockedInv
    <3> QED
      BY <3>1, <3>2
  <2>4. CASE UNCHANGED <<wire, unlockers>>
    BY <2>1, <2>4 DEF TypeOK
  <2>5. ASSUME NEW m \in Messages, Send(m) PROVE sendMu = "free" /\ \E u \in Unlockers : Locked(u)
    BY <2>5 DEF Send, Unlockers
  <2>6. ASSUME NEW i \in DOMAIN batches, BatchSend(i)
        PROVE  sendMu = "free" /\ \E u \in Unlockers : Locked(u)
    BY <2>6 DEF BatchSend, BatchLockFree, Unlockers
  <2>7. Inhibit => sendMu = "free" /\ \E u \in Unlockers : Locked(u)
    BY DEF Inhibit, Unlockers
  <2> QED
    BY <2>2, <2>3, <2>4, <2>5, <2>6, <2>7
       DEF Next, Call, BusyArrives, ResendLost, Exit, LostArrives, Indication, AppReceive,
           Close, SocketEnds
<1> QED
  BY <1>1, Invariance, PTL DEF Spec, FlowControl
-----------------------------------------------------------------------------
(* The order of the transmissions.  It is stated of any sequence w of      *)
(* transmitted messages, any retainer r and any batches bs.                *)

(* The message m was transmitted last at position i of w.                  *)
IsLast(w, m, i) ==
  i \in DOMAIN w /\ w[i] = m /\ \A j \in DOMAIN w : w[j] = m => j <= i

LastIn(w, m) == CHOOSE i \in DOMAIN w :
                  w[i] = m /\ \A j \in DOMAIN w : w[j] = m => j <= i

(* The messages of s were transmitted, and in this order.                  *)
AllSent(w, s)   == \A i \in DOMAIN s : IsLast(w, s[i], LastIn(w, s[i]))
OrderedIn(w, s) == \A i, j \in DOMAIN s : i < j => LastIn(w, s[i]) < LastIn(w, s[j])
Sorted(w, s)    == AllSent(w, s) /\ OrderedIn(w, s)

(* What was transmitted after a retained message is somewhere.             *)
Kept(w, r, bs) ==
  \A i \in DOMAIN w, p \in DOMAIN r : LastIn(w, r[p]) < i => ~Nowhere(w[i], r, bs)

(* A message has one last transmission.                                    *)
LEMMA LastUnique ==
  ASSUME NEW w \in Seq(Messages), NEW m, NEW i, IsLast(w, m, i)
  PROVE  LastIn(w, m) = i
<1>1. LastIn(w, m) \in DOMAIN w /\ w[LastIn(w, m)] = m
      /\ \A j \in DOMAIN w : w[j] = m => j <= LastIn(w, m)
  BY DEF IsLast, LastIn
<1>2. i \in DOMAIN w /\ w[i] = m /\ \A j \in DOMAIN w : w[j] = m => j <= i
  BY DEF IsLast
<1>3. i <= LastIn(w, m) /\ LastIn(w, m) <= i
  BY <1>1, <1>2
<1>4. DOMAIN w \subseteq Nat
  OBVIOUS
<1> QED
  BY <1>1, <1>2, <1>3, <1>4

(* A transmission is the last one of its message and of no other.          *)
LEMMA LastAfter ==
  ASSUME NEW w \in Seq(Messages), NEW m \in Messages
  PROVE  /\ Append(w, m) \in Seq(Messages)
         /\ IsLast(Append(w, m), m, LastIn(Append(w, m), m))
         /\ LastIn(Append(w, m), m) = Len(w) + 1
         /\ \A x : x # m /\ IsLast(w, x, LastIn(w, x))
              => /\ IsLast(Append(w, m), x, LastIn(Append(w, m), x))
                 /\ LastIn(Append(w, m), x) = LastIn(w, x)
<1> DEFINE v == Append(w, m)
<1>1. /\ v \in Seq(Messages) /\ Len(w) \in Nat /\ Len(w) + 1 \in DOMAIN v /\ v[Len(w) + 1] = m
      /\ \A i \in DOMAIN w : i \in Nat /\ i < Len(w) + 1 /\ i \in DOMAIN v /\ v[i] = w[i]
      /\ \A i \in DOMAIN v : i \in DOMAIN w \/ i = Len(w) + 1
  OBVIOUS
<1> HIDE DEF v
<1>2. IsLast(v, m, Len(w) + 1)
  BY <1>1 DEF IsLast
<1>3. LastIn(v, m) = Len(w) + 1
  BY <1>1, <1>2, LastUnique
<1>4. ASSUME NEW x, x # m, IsLast(w, x, LastIn(w, x))
      PROVE  IsLast(v, x, LastIn(v, x)) /\ LastIn(v, x) = LastIn(w, x)
  <2>1. IsLast(v, x, LastIn(w, x))
    BY <1>1, <1>4 DEF IsLast
  <2>2. LastIn(v, x) = LastIn(w, x)
    BY <1>1, <2>1, LastUnique
  <2> QED
    BY <2>1, <2>2
<1> QED
  BY <1>1, <1>2, <1>3, <1>4 DEF v

(* A sequence of other messages stays sorted, and the position of each     *)
(* stays the same.                                                         *)
LEMMA OthersSorted ==
  ASSUME NEW w \in Seq(Messages), NEW m \in Messages, NEW s \in Seq(Messages), Sorted(w, s),
         \A i \in DOMAIN s : s[i] # m
  PROVE  /\ Sorted(Append(w, m), s)
         /\ \A i \in DOMAIN s : LastIn(Append(w, m), s[i]) = LastIn(w, s[i])
<1> DEFINE v == Append(w, m)
<1>1. \A i \in DOMAIN s : IsLast(v, s[i], LastIn(v, s[i])) /\ LastIn(v, s[i]) = LastIn(w, s[i])
  BY LastAfter DEF Sorted, AllSent
<1> HIDE DEF v
<1>2. AllSent(v, s)
  BY <1>1 DEF AllSent
<1>3. OrderedIn(v, s)
  BY <1>1 DEF OrderedIn, Sorted
<1> QED
  BY <1>1, <1>2, <1>3 DEF Sorted, v

(* What is transmitted joins the retainer at its end.                      *)
LEMMA AppendSorted ==
  ASSUME NEW w \in Seq(Messages), NEW m \in Messages, NEW s \in Seq(Messages), Sorted(w, s),
         \A i \in DOMAIN s : s[i] # m
  PROVE  Sorted(Append(w, m), Append(s, m))
<1> DEFINE v == Append(w, m)  t == Append(s, m)
<1>1. /\ Len(s) \in Nat /\ t[Len(s) + 1] = m
      /\ \A i \in DOMAIN s : i \in Nat /\ t[i] = s[i]
      /\ \A i \in DOMAIN t : i \in DOMAIN s \/ i = Len(s) + 1
      /\ \A i \in DOMAIN s : i < Len(s) + 1
  OBVIOUS
<1>2. Sorted(v, s) /\ \A i \in DOMAIN s : LastIn(v, s[i]) = LastIn(w, s[i])
  BY OthersSorted
<1>3. IsLast(v, m, LastIn(v, m)) /\ LastIn(v, m) = Len(w) + 1
  BY LastAfter
<1>4. \A i \in DOMAIN s : LastIn(v, s[i]) < LastIn(v, m)
  <2> SUFFICES ASSUME NEW i \in DOMAIN s PROVE LastIn(v, s[i]) < LastIn(v, m)
    OBVIOUS
  <2>1. LastIn(w, s[i]) \in DOMAIN w
    BY DEF Sorted, AllSent, IsLast
  <2>2. LastIn(w, s[i]) < Len(w) + 1
    BY <2>1
  <2> QED
    BY <1>2, <1>3, <2>2
<1> HIDE DEF v, t
<1>5. AllSent(v, t)
  BY <1>1, <1>2, <1>3 DEF AllSent, Sorted
<1>6. OrderedIn(v, t)
  <2> SUFFICES ASSUME NEW i \in DOMAIN t, NEW j \in DOMAIN t, i < j
               PROVE  LastIn(v, t[i]) < LastIn(v, t[j])
    BY DEF OrderedIn
  <2>1. i \in DOMAIN s
    BY <1>1
  <2>2. CASE j \in DOMAIN s
    BY <1>1, <1>2, <2>1, <2>2 DEF Sorted, OrderedIn
  <2>3. CASE j = Len(s) + 1
    BY <1>1, <1>4, <2>1, <2>3
  <2> QED
    BY <1>1, <2>2, <2>3
<1> QED
  BY <1>5, <1>6 DEF Sorted, v, t

(* A part of a sorted sequence is sorted.                                  *)
LEMMA WindowSorted ==
  ASSUME NEW w, NEW s \in Seq(Messages), NEW u \in Seq(Messages), Sorted(w, s), Window(u, s)
  PROVE  Sorted(w, u)
<1>1. PICK k \in Nat : \A i \in DOMAIN u : i + k \in DOMAIN s /\ u[i] = s[i + k]
  BY DEF Window
<1>2. AllSent(w, u)
  BY <1>1 DEF Sorted, AllSent
<1>3. OrderedIn(w, u)
  <2> SUFFICES ASSUME NEW i \in DOMAIN u, NEW j \in DOMAIN u, i < j
               PROVE  LastIn(w, u[i]) < LastIn(w, u[j])
    BY DEF OrderedIn
  <2>1. i + k < j + k
    OBVIOUS
  <2> QED
    BY <1>1, <2>1 DEF Sorted, OrderedIn
<1> QED
  BY <1>2, <1>3 DEF Sorted

(* Trimming drops the oldest messages, and never the newest one.           *)
LEMMA TrimmedSuffix ==
  ASSUME NEW s \in Seq(Messages), s # <<>>
  PROVE  \E k \in Nat : /\ k < Len(s) /\ DOMAIN Trimmed(s) = 1..(Len(s) - k)
                        /\ \A i \in 1..(Len(s) - k) : Trimmed(s)[i] = s[i + k]
<1> USE RouterAssumption
<1>1. CASE Len(s) > RetainCount
  <2>1. Trimmed(s) = SubSeq(s, Len(s) - RetainCount + 1, Len(s))
    BY <1>1 DEF Trimmed
  <2>2. DOMAIN Trimmed(s) = 1..RetainCount
    BY <1>1, <2>1
  <2>3. \A i \in 1..RetainCount : Trimmed(s)[i] = s[i + (Len(s) - RetainCount)]
    BY <1>1, <2>1
  <2>4. Len(s) - RetainCount \in Nat /\ Len(s) - RetainCount < Len(s)
    BY <1>1
  <2>5. Len(s) - (Len(s) - RetainCount) = RetainCount
    OBVIOUS
  <2> DEFINE k == Len(s) - RetainCount
  <2> HIDE DEF k
  <2>6. k \in Nat /\ k < Len(s) /\ Len(s) - k = RetainCount /\ k = Len(s) - RetainCount
    BY <2>4, <2>5 DEF k
  <2> QED
    BY <2>2, <2>3, <2>6
<1>2. CASE Len(s) <= RetainCount
  <2>1. Trimmed(s) = s
    BY <1>2 DEF Trimmed
  <2> WITNESS 0 \in Nat
  <2> QED
    BY <2>1
<1> QED
  BY <1>1, <1>2

(* A transmission forgets nothing: what the retainer drops is older than   *)
(* all it keeps.                                                           *)
LEMMA KeptAfter ==
  ASSUME NEW w \in Seq(Messages), NEW m \in Messages, NEW r \in Seq(Messages), NEW bs,
         Sorted(w, r), \A i \in DOMAIN r : r[i] # m,
         \A i \in DOMAIN w, p \in DOMAIN r :
            LastIn(w, r[p]) < i => w[i] = m \/ ~Nowhere(w[i], r, bs)
  PROVE  Kept(Append(w, m), Trimmed(Append(r, m)), bs)
<1> DEFINE v == Append(w, m)  s == Append(r, m)  t == Trimmed(s)
<1>1. /\ s \in Seq(Messages) /\ s # <<>> /\ Len(s) = Len(r) + 1 /\ Len(r) \in Nat /\ s[Len(r) + 1] = m
      /\ \A i \in DOMAIN r : i \in Nat /\ i > 0 /\ i < Len(s) /\ s[i] = r[i]
      /\ \A i \in Nat : i > 0 /\ i < Len(s) => i \in DOMAIN r
  OBVIOUS
<1>2. /\ \A i \in DOMAIN v : i \in Nat /\ (i \in DOMAIN w \/ i = Len(w) + 1)
      /\ \A i \in DOMAIN w : v[i] = w[i] /\ i \in Nat /\ i < Len(w) + 1
      /\ v[Len(w) + 1] = m /\ Len(w) \in Nat
  OBVIOUS
<1>3. PICK k \in Nat : /\ k < Len(s) /\ DOMAIN t = 1..(Len(s) - k)
                       /\ \A i \in 1..(Len(s) - k) : t[i] = s[i + k]
  BY <1>1, TrimmedSuffix
<1>4. LastIn(v, m) = Len(w) + 1 /\ \A i \in DOMAIN r : LastIn(v, r[i]) = LastIn(w, r[i])
  BY LastAfter, OthersSorted
<1> HIDE DEF v, s, t
<1>5. ~Nowhere(m, t, bs)
  <2>1. Len(s) - k \in DOMAIN t /\ Len(s) - k + k = Len(r) + 1
    BY <1>1, <1>3
  <2>2. t[Len(s) - k] = m
    BY <1>1, <1>3, <2>1
  <2> QED
    BY <2>1, <2>2 DEF Nowhere
<1>6. ASSUME NEW i \in DOMAIN v, NEW p \in DOMAIN t, LastIn(v, t[p]) < i
      PROVE  ~Nowhere(v[i], t, bs)
  <2>1. CASE v[i] = m
    BY <1>5, <2>1
  <2>2. CASE v[i] # m
    <3>1. i \in DOMAIN w /\ v[i] = w[i] /\ i \in Nat /\ i < Len(w) + 1
      BY <1>2, <2>2
    <3> DEFINE q == p + k
    <3>2. q \in Nat /\ q > k /\ t[p] = s[q] /\ q <= Len(s) /\ p \in Nat
      BY <1>1, <1>3
    <3>3. q # Len(r) + 1
      <4> SUFFICES ASSUME q = Len(r) + 1 PROVE FALSE
        OBVIOUS
      <4>1. LastIn(v, t[p]) = Len(w) + 1
        BY <1>1, <1>4, <3>2
      <4> QED
        BY <1>6, <4>1, <3>1, <1>2
    <3>4. q \in DOMAIN r /\ t[p] = r[q]
      <4>1. q > 0 /\ q < Len(s)
        BY <1>1, <3>2, <3>3
      <4> QED
        BY <1>1, <3>2, <4>1
    <3>5. LastIn(w, r[q]) < i
      BY <1>4, <1>6, <3>4
    <3>6. ~Nowhere(w[i], r, bs)
      BY <2>2, <3>1, <3>4, <3>5
    <3>7. CASE \E a \in DOMAIN bs : \E j \in DOMAIN bs[a] : bs[a][j] = w[i]
      BY <3>1, <3>7 DEF Nowhere
    <3>8. ASSUME NEW j \in DOMAIN r, r[j] = w[i]
          PROVE  ~Nowhere(v[i], t, bs)
      <4>1. j \in Nat /\ j < Len(s) /\ s[j] = r[j] /\ j > 0
        BY <1>1
      <4>2. CASE j > k
        <5>1. j - k \in 1..(Len(s) - k) /\ j - k + k = j
          BY <1>1, <4>1, <4>2
        <5>2. j - k \in DOMAIN t /\ t[j - k] = w[i]
          BY <1>3, <3>8, <4>1, <5>1
        <5> QED
          BY <3>1, <5>2 DEF Nowhere
      <4>3. CASE j <= k
        <5>1. j < q
          BY <3>2, <4>1, <4>3
        <5>2. LastIn(w, r[j]) < LastIn(w, r[q])
          BY <3>4, <5>1 DEF Sorted, OrderedIn
        <5>3. i <= LastIn(w, r[j])
          BY <3>1, <3>8 DEF Sorted, AllSent, IsLast
        <5>4. LastIn(w, r[j]) \in Nat /\ LastIn(w, r[q]) \in Nat
          <6>1. LastIn(w, r[j]) \in DOMAIN w /\ LastIn(w, r[q]) \in DOMAIN w
            BY <3>4 DEF Sorted, AllSent, IsLast
          <6> QED
            BY <6>1, <1>2
        <5> QED
          BY <3>1, <3>5, <5>2, <5>3, <5>4
      <4> QED
        BY <4>1, <4>2, <4>3
    <3> QED
      BY <3>6, <3>7, <3>8 DEF Nowhere
  <2> QED
    BY <2>1, <2>2
<1>7. Kept(v, t, bs)
  BY <1>6 DEF Kept
<1> QED
  BY <1>7 DEF v, s, t
-----------------------------------------------------------------------------
(* The invariant of the order, and what each step does to it.              *)
SortedInv == Sorted(wire, retainer) /\ \A a \in DOMAIN batches : Sorted(wire, batches[a])

KeptInv == ~SendMayFail /\ ~closed => Kept(wire, retainer, batches)

OrderInv == Inv /\ SortedInv /\ KeptInv

(* The invariant of the order in terms of the predicates above.            *)
LEMMA OrderParts ==
  /\ SortedInv' <=> /\ Sorted(wire', retainer')
                    /\ \A a \in DOMAIN batches' : Sorted(wire', batches'[a])
  /\ KeptInv' <=> (~SendMayFail /\ ~closed' => Kept(wire', retainer', batches'))
  /\ SortedInv => InOrderOfLastSend
  /\ KeptInv => NothingSkipped
BY Zenon DEF SortedInv, KeptInv, Sorted, AllSent, OrderedIn, IsLast, LastIn, Kept, Nowhere,
             InOrderOfLastSend, NothingSkipped, Ordered, LastSent

(* A transmission of a message that is nowhere else, to a router with the  *)
(* batches bs.                                                             *)
LEMMA TransmittedOrder ==
  ASSUME TypeOK, NEW m \in Messages, NEW bs \in Seq(Seq(Messages)), Transmitted(m),
         Nowhere(m, retainer, bs), Sorted(wire, retainer), \A a \in DOMAIN bs : Sorted(wire, bs[a])
  PROVE  /\ Sorted(wire', retainer') /\ \A a \in DOMAIN bs : Sorted(wire', bs[a])
         /\ (\A i \in DOMAIN wire, p \in DOMAIN retainer :
               LastIn(wire, retainer[p]) < i => wire[i] = m \/ ~Nowhere(wire[i], retainer, bs))
              => Kept(wire', retainer', bs)
<1>1. retainer \in Seq(Messages) /\ wire \in Seq(Messages)
  BY DEF TypeOK
<1>2. wire' = Append(wire, m) /\ retainer' = Trimmed(Append(retainer, m))
  BY DEF Transmitted
<1>3. \A i \in DOMAIN retainer : retainer[i] # m
  BY DEF Nowhere
<1>4. Sorted(wire', retainer')
  <2>1. Sorted(wire', Append(retainer, m)) /\ Append(retainer, m) \in Seq(Messages)
    BY <1>1, <1>2, <1>3, AppendSorted
  <2>2. retainer' \in Seq(Messages) /\ Window(retainer', Append(retainer, m))
    BY <1>2, <2>1, TrimmedWindow
  <2> QED
    BY <2>1, <2>2, WindowSorted
<1>5. ASSUME NEW a \in DOMAIN bs PROVE Sorted(wire', bs[a])
  <2>1. bs[a] \in Seq(Messages) /\ \A i \in DOMAIN bs[a] : bs[a][i] # m
    BY DEF Nowhere
  <2> QED
    BY <1>1, <1>2, <1>5, <2>1, OthersSorted
<1> QED
  BY <1>1, <1>2, <1>3, <1>4, <1>5, KeptAfter

(* A call of Send.                                                         *)
LEMMA SendOrder ==
  ASSUME OrderInv, NEW m \in Messages, Send(m)
  PROVE  SortedInv' /\ KeptInv'
<1>1. /\ TypeOK /\ Nowhere(m, retainer, batches) /\ batches \in Seq(Seq(Messages))
      /\ Sorted(wire, retainer) /\ \A a \in DOMAIN batches : Sorted(wire, batches[a])
  BY InvParts DEF Send, Unsent, OrderInv, SortedInv, TypeOK
<1>2. UNCHANGED <<batches, closed>>
  BY DEF Send, endVars
<1>3. CASE Transmitted(m)
  BY <1>1, <1>2, <1>3, TransmittedOrder, OrderParts DEF OrderInv, KeptInv, Kept
<1>4. CASE SendFails
  BY <1>2, <1>4, OrderParts DEF SendFails, OrderInv, SortedInv, KeptInv
<1> QED
  BY <1>3, <1>4 DEF Send

(* A resend: the head of a batch is transmitted, the rest stays sorted.    *)
LEMMA BatchSendOrder ==
  ASSUME OrderInv, NEW b \in DOMAIN batches, BatchSend(b)
  PROVE  SortedInv' /\ KeptInv'
<1> DEFINE m == Head(batches[b])
<1>1. /\ TypeOK /\ Distinct(retainer, batches)
      /\ retainer \in Seq(Messages) /\ batches \in Seq(Seq(Messages))
      /\ Sorted(wire, retainer) /\ \A a \in DOMAIN batches : Sorted(wire, batches[a])
  BY InvParts DEF OrderInv, SortedInv, TypeOK
<1>2. batches[b] # <<>> /\ batches' = [batches EXCEPT ![b] = Tail(@)] /\ UNCHANGED closed
  BY DEF BatchSend, endVars
<1>3. batches' \in Seq(Seq(Messages)) /\ m \in Messages /\ Nowhere(m, retainer, batches')
  BY <1>1, <1>2, Popped
<1>4. /\ batches[b] \in Seq(Messages) /\ DOMAIN batches' = DOMAIN batches
      /\ batches'[b] = Tail(batches[b])
      /\ \A a \in DOMAIN batches : a # b => batches'[a] = batches[a]
  BY <1>1, <1>2
<1>5. \A a \in DOMAIN batches' : Sorted(wire, batches'[a])
  <2>1. Tail(batches[b]) \in Seq(Messages) /\ Window(Tail(batches[b]), batches[b])
    BY <1>2, <1>4, TailWindow
  <2>2. Sorted(wire, batches'[b])
    BY <1>1, <1>4, <2>1, WindowSorted
  <2> QED
    BY <1>1, <1>4, <2>2
<1>6. \A x : x # m /\ Nowhere(x, retainer, batches') => Nowhere(x, retainer, batches)
  <2> SUFFICES ASSUME NEW x, x # m, Nowhere(x, retainer, batches'),
                      NEW a \in DOMAIN batches, NEW i \in DOMAIN batches[a], batches[a][i] = x
               PROVE  FALSE
    BY DEF Nowhere
  <2>1. CASE a = b
    <3>1. i # 1 /\ i \in 1..Len(batches[b])
      BY <1>4, <2>1
    <3>2. i - 1 \in DOMAIN Tail(batches[b]) /\ Tail(batches[b])[i - 1] = batches[b][i]
      BY <1>2, <1>4, <3>1
    <3> QED
      BY <1>4, <2>1, <3>2 DEF Nowhere
  <2>2. CASE a # b
    BY <1>4, <2>2 DEF Nowhere
  <2> QED
    BY <2>1, <2>2
<1> HIDE DEF m
<1>7. CASE ~closed /\ Transmitted(m)
  <2>1. ~SendMayFail /\ ~closed =>
          \A i \in DOMAIN wire, p \in DOMAIN retainer :
             LastIn(wire, retainer[p]) < i => wire[i] = m \/ ~Nowhere(wire[i], retainer, batches')
    BY <1>6 DEF OrderInv, KeptInv, Kept
  <2> QED
    BY <1>1, <1>2, <1>3, <1>5, <1>7, <2>1, TransmittedOrder, OrderParts
<1>8. CASE SendFails
  BY <1>1, <1>2, <1>5, <1>8, OrderParts DEF SendFails
<1> QED
  BY <1>7, <1>8 DEF BatchSend, m

(* A routing-lost indication: the parts of the retainer stay sorted.       *)
LEMMA ResendLostOrder ==
  ASSUME OrderInv, ResendLost
  PROVE  SortedInv' /\ KeptInv'
<1>1. /\ TypeOK /\ retainer \in Seq(Messages) /\ batches \in Seq(Seq(Messages)) /\ lostCount \in Nat
      /\ Sorted(wire, retainer) /\ \A a \in DOMAIN batches : Sorted(wire, batches[a])
  BY RouterAssumption DEF OrderInv, Inv, SortedInv, TypeOK
<1>2. PICK n \in 0..Len(retainer) : batches' = Append(batches, LastOnes(n)) /\ retainer' = Remaining(n)
  <2> DEFINE n == IF lostCount > Len(retainer) THEN Len(retainer) ELSE lostCount
  <2>1. batches' = Append(batches, LastOnes(n)) /\ retainer' = Remaining(n)
    BY DEF ResendLost
  <2>2. n \in 0..Len(retainer)
    BY <1>1
  <2> HIDE DEF n
  <2> QED
    BY <2>1, <2>2
<1> DEFINE l == Len(retainer)  u == LastOnes(n)
<1>3. /\ u \in Seq(Messages) /\ Len(u) = n /\ (\A i \in 1..n : u[i] = retainer[l - n + i])
      /\ retainer' \in Seq(Messages) /\ Len(retainer') = l - n
      /\ \A i \in 1..(l - n) : retainer'[i] = retainer[i]
  BY <1>1, <1>2, SplitSeq DEF LastOnes, Remaining
<1> HIDE DEF u
<1>4. l \in Nat /\ l - n \in Nat /\ n \in Nat /\ DOMAIN retainer = 1..l
  BY <1>1
<1>5. Window(retainer', retainer) /\ Window(u, retainer)
  <2> DEFINE k == l - n
  <2>0. k \in Nat /\ k + n = l /\ DOMAIN retainer' = 1..k /\ DOMAIN u = 1..n
    BY <1>3, <1>4
  <2>1. \A i \in DOMAIN retainer' : i + 0 \in DOMAIN retainer /\ retainer'[i] = retainer[i + 0]
    <3>1. \A i \in 1..k : i + 0 = i /\ i \in 1..l
      BY <2>0, <1>4
    <3> QED
      BY <3>1, <2>0, <1>3, <1>4
  <2>2. \A i \in DOMAIN u : i + k \in DOMAIN retainer /\ u[i] = retainer[i + k]
    <3>1. \A i \in 1..n : i + k = k + i /\ i + k \in 1..l
      BY <2>0, <1>4
    <3> QED
      BY <3>1, <2>0, <1>3, <1>4
  <2> QED
    BY <1>4, <2>1, <2>2 DEF Window
<1>6. Sorted(wire, retainer') /\ Sorted(wire, u)
  BY <1>1, <1>3, <1>5, WindowSorted
<1>7. /\ Len(batches) + 1 \in DOMAIN batches' /\ batches'[Len(batches) + 1] = u
      /\ \A a \in DOMAIN batches : a \in DOMAIN batches' /\ batches'[a] = batches[a]
      /\ \A a \in DOMAIN batches' : a \in DOMAIN batches \/ a = Len(batches) + 1
  BY <1>1, <1>2, <1>3 DEF u
<1>8. UNCHANGED <<wire, closed>>
  BY DEF ResendLost, endVars
<1>9. SortedInv'
  BY <1>1, <1>6, <1>7, <1>8, OrderParts
<1>10. \A x : Nowhere(x, retainer', batches') => Nowhere(x, retainer, batches)
  <2> SUFFICES ASSUME NEW x, Nowhere(x, retainer', batches') PROVE Nowhere(x, retainer, batches)
    OBVIOUS
  <2>1. \A a \in DOMAIN batches : \A i \in DOMAIN batches[a] : batches[a][i] # x
    BY <1>7 DEF Nowhere
  <2>2. ASSUME NEW i \in DOMAIN retainer, retainer[i] = x PROVE FALSE
    <3>1. CASE i <= l - n
      <4>1. i \in DOMAIN retainer' /\ retainer'[i] = x
        BY <1>3, <1>4, <2>2, <3>1
      <4> QED
        BY <4>1 DEF Nowhere
    <3>2. CASE i > l - n
      <4>1. i - (l - n) \in 1..n /\ l - n + (i - (l - n)) = i
        BY <1>4, <2>2, <3>2
      <4>2. i - (l - n) \in DOMAIN u /\ u[i - (l - n)] = x
        BY <1>3, <2>2, <4>1
      <4> QED
        BY <1>7, <4>2 DEF Nowhere
    <3> QED
      BY <1>4, <3>1, <3>2
  <2> QED
    BY <2>1, <2>2 DEF Nowhere
<1>11. \A p \in DOMAIN retainer' : p \in DOMAIN retainer /\ retainer'[p] = retainer[p]
  BY <1>3, <1>4
<1>12. ~SendMayFail /\ ~closed => Kept(wire, retainer', batches')
  BY <1>10, <1>11 DEF OrderInv, KeptInv, Kept
<1> QED
  BY <1>8, <1>9, <1>12, OrderParts

(* A step that transmits, retains and takes nothing.                       *)
LEMMA FrameOrder ==
  ASSUME OrderInv, UNCHANGED <<wire, retainer, batches>>, closed => closed'
  PROVE  SortedInv' /\ KeptInv'
BY OrderParts DEF OrderInv, SortedInv, KeptInv

(* Every step keeps the order.                                             *)
THEOREM NextOrderInv == OrderInv /\ [Next]_vars => OrderInv'
<1> SUFFICES ASSUME OrderInv, [Next]_vars PROVE OrderInv'
  OBVIOUS
<1>1. Inv'
  BY NextInv DEF OrderInv
<1>2. CASE \E m \in Messages : Send(m)
  BY <1>1, <1>2, SendOrder DEF OrderInv
<1>3. CASE \E b \in DOMAIN batches : BatchSend(b)
  BY <1>1, <1>3, BatchSendOrder DEF OrderInv
<1>4. CASE ResendLost
  BY <1>1, <1>4, ResendLostOrder DEF OrderInv
<1>5. CASE UNCHANGED <<wire, retainer, batches>> /\ (closed => closed')
  BY <1>1, <1>5, FrameOrder DEF OrderInv
<1>6. CASE UNCHANGED vars
  BY <1>5, <1>6 DEF vars, endVars
<1>7. CASE \/ \E u \in Unlockers : Unlock(u)
           \/ BusyArrives \/ Inhibit \/ Exit \/ AppReceive \/ Close \/ SocketEnds
           \/ \E m \in Messages : Call(m)
           \/ \E n \in 0..MaxCount : LostArrives(n)
           \/ \E p \in Telegrams : Indication(p)
  BY <1>5, <1>7 DEF Unlock, BusyArrives, Inhibit, Exit, AppReceive, Close, SocketEnds, Call,
                    LostArrives, Indication, endVars
<1> QED
  BY <1>2, <1>3, <1>4, <1>6, <1>7 DEF Next

(* A new router has transmitted nothing.                                   *)
LEMMA InitOrderInv == Init => OrderInv
<1> SUFFICES ASSUME Init PROVE OrderInv
  OBVIOUS
<1>1. DOMAIN retainer = {} /\ DOMAIN batches = {} /\ DOMAIN wire = {}
  BY DEF Init
<1>2. SortedInv
  BY <1>1 DEF SortedInv, Sorted, AllSent, OrderedIn
<1>3. KeptInv
  BY <1>1 DEF KeptInv, Kept
<1> QED
  BY <1>2, <1>3, InitInv DEF OrderInv

(* The invariant of the order holds throughout.                            *)
THEOREM OrderInvariance == Spec => []OrderInv
BY InitOrderInv, NextOrderInv, PTL DEF Spec

(* Whatever calls and resends transmit in between, the retainer and what   *)
(* each sendMultiple still has to send are in the order in which they were *)
(* transmitted last (resendLost, 84).                                      *)
THEOREM InOrderOfLastSendCorrect == Spec => []InOrderOfLastSend
<1>1. OrderInv => InOrderOfLastSend
  BY OrderParts DEF OrderInv
<1> QED
  BY <1>1, OrderInvariance, PTL

(* As long as writes succeed, every message transmitted after a retained   *)
(* one is retained too or about to be sent again (Send, resendLost).       *)
THEOREM NothingSkippedCorrect == Spec => []NothingSkipped
<1>1. OrderInv => NothingSkipped
  BY OrderParts DEF OrderInv
<1> QED
  BY <1>1, OrderInvariance, PTL
=============================================================================
