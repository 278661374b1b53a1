--------------------------- MODULE DeliveryProofs ---------------------------
(***************************************************************************)
(* The promises of Delivery.tla follow from its specification, for any     *)
(* telegrams and calls.  TunnelSystem.tla implements it (SystemProofs.tla, *)
(* which makes them promises of the tunnel).                               *)
(*                                                                         *)
(* The invariant adds to the promises that no telegram is held twice: else *)
(* one that is received could still be held.                               *)
(***************************************************************************)
EXTENDS Delivery, TLAPS

Once(s) == \A i, j \in DOMAIN s : s[i] = s[j] => i = j

Typed == received \in Seq(Telegrams) /\ accepted \in Seq(Calls)

HeldOnce == \A t \in BagToSet(held) : held[t] = 1

Inv == Typed /\ HeldOnce /\ ReceivedOnce /\ AcknowledgedIsHanded /\ AcceptedOnce
-----------------------------------------------------------------------------
(* A sequence without repetitions has none after a new element.            *)
LEMMA AppendOnce ==
  ASSUME NEW S, NEW s \in Seq(S), NEW x \in S, Once(s), x \notin ToSet(s)
  PROVE  Once(Append(s, x)) /\ ToSet(Append(s, x)) = ToSet(s) \cup {x}
<1>1. DOMAIN Append(s, x) = 1..Len(s) + 1 /\ DOMAIN s = 1..Len(s)
  OBVIOUS
<1>2. \A i \in 1..Len(s) : Append(s, x)[i] = s[i] /\ s[i] # x
  BY DEF ToSet
<1>3. Append(s, x)[Len(s) + 1] = x
  OBVIOUS
<1>4. Once(Append(s, x))
  BY <1>1, <1>2, <1>3 DEF Once
<1>5. ToSet(Append(s, x)) = ToSet(s) \cup {x}
  BY <1>1, <1>2, <1>3 DEF ToSet
<1> QED
  BY <1>4, <1>5

(* What joins a bag that does not hold it is in it once.                   *)
LEMMA AddOnce ==
  ASSUME NEW B, NEW x, x \notin BagToSet(B), \A t \in BagToSet(B) : B[t] = 1
  PROVE  /\ BagToSet(BagAdd(B, x)) = BagToSet(B) \cup {x}
         /\ \A t \in BagToSet(BagAdd(B, x)) : BagAdd(B, x)[t] = 1
BY DEF BagToSet, BagAdd

(* What leaves a bag that holds it once is not in it any more.             *)
LEMMA RemoveOnce ==
  ASSUME NEW B, NEW x \in BagToSet(B), \A t \in BagToSet(B) : B[t] = 1
  PROVE  /\ BagToSet(BagRemove(B, x)) = BagToSet(B) \ {x}
         /\ \A t \in BagToSet(BagRemove(B, x)) : BagRemove(B, x)[t] = 1
BY DEF BagToSet, BagRemove

LEMMA NothingHeld == BagToSet(EmptyBag) = {}
BY DEF BagToSet, EmptyBag, SetToBag
-----------------------------------------------------------------------------
(* The tunnel begins with nothing handed over, known or accepted.          *)
LEMMA InitInv == Init => Inv
BY NothingHeld DEF Init, Inv, Typed, HeldOnce, ReceivedOnce,
                   AcknowledgedIsHanded, AcceptedOnce, Handed, ToSet

(* A telegram that was never handed over is held, or received, once.       *)
LEMMA HandOverInv ==
  ASSUME Inv, NEW t \in Telegrams, HandOver(t)
  PROVE  Inv'
<1>1. ~ended /\ t \notin BagToSet(held) /\ t \notin ToSet(received)
  BY DEF HandOver, Handed
<1>2. acknowledged' = acknowledged /\ ended' = ended /\ accepted' = accepted
  BY DEF HandOver
<1>3. CASE held' = BagAdd(held, t) /\ UNCHANGED received
  <2>1. HeldOnce' /\ BagToSet(held') = BagToSet(held) \cup {t}
    BY <1>1, <1>3, AddOnce DEF Inv, HeldOnce
  <2> QED
    BY <1>1, <1>2, <1>3, <2>1
       DEF Inv, Typed, ReceivedOnce, AcknowledgedIsHanded, AcceptedOnce, Handed
<1>4. CASE received' = Append(received, t) /\ UNCHANGED held
  <2>1. Once(received') /\ ToSet(received') = ToSet(received) \cup {t}
    BY <1>1, <1>4, AppendOnce DEF Inv, Typed, ReceivedOnce, Once
  <2>2. received' \in Seq(Telegrams)
    BY <1>4 DEF Inv, Typed
  <2> QED
    BY <1>1, <1>2, <1>4, <2>1, <2>2
       DEF Inv, Typed, HeldOnce, ReceivedOnce, AcknowledgedIsHanded, AcceptedOnce,
           Handed, Once
<1> QED
  BY <1>3, <1>4 DEF HandOver

(* A telegram the application receives is held no longer.                  *)
LEMMA ReceiveInv ==
  ASSUME Inv, NEW t \in Telegrams, Receive(t)
  PROVE  Inv'
<1>1. t \in BagToSet(held) /\ t \notin ToSet(received)
  BY DEF Receive, BagIn, Inv, ReceivedOnce
<1>2. HeldOnce' /\ BagToSet(held') = BagToSet(held) \ {t}
  BY <1>1, RemoveOnce DEF Receive, Inv, HeldOnce
<1>3. Once(received') /\ ToSet(received') = ToSet(received) \cup {t}
  BY <1>1, AppendOnce DEF Receive, Inv, Typed, ReceivedOnce, Once
<1>4. Handed' = Handed
  BY <1>1, <1>2, <1>3 DEF Handed
<1>5. Typed'
  BY DEF Receive, Inv, Typed
<1>6. ReceivedOnce'
  BY <1>2, <1>3 DEF Inv, ReceivedOnce, Once
<1> QED
  BY <1>2, <1>4, <1>5, <1>6 DEF Receive, Inv, AcknowledgedIsHanded, AcceptedOnce

(* A call is accepted that never was before.                               *)
LEMMA AcceptInv ==
  ASSUME Inv, NEW c \in Calls, Accept(c)
  PROVE  Inv'
<1>1. Once(accepted')
  BY AppendOnce DEF Accept, Inv, Typed, AcceptedOnce, Once
<1>2. Typed'
  BY DEF Accept, Inv, Typed
<1> QED
  BY <1>1, <1>2
     DEF Accept, Inv, HeldOnce, ReceivedOnce, AcknowledgedIsHanded, AcceptedOnce,
         Handed, Once

(* Every step keeps the invariant.                                         *)
THEOREM StepInv == Inv /\ [Next]_vars => Inv'
<1> SUFFICES ASSUME Inv, [Next]_vars PROVE Inv'
  OBVIOUS
<1>1. ASSUME NEW t \in Telegrams, Acknowledge(t) PROVE Inv'
  BY <1>1 DEF Acknowledge, Inv, Typed, HeldOnce, ReceivedOnce, AcknowledgedIsHanded,
              AcceptedOnce, Handed
<1>2. CASE End
  BY <1>2, NothingHeld DEF End, Inv, Typed, HeldOnce, ReceivedOnce,
                           AcknowledgedIsHanded, AcceptedOnce
<1>3. CASE UNCHANGED vars
  BY <1>3 DEF vars, Inv, Typed, HeldOnce, ReceivedOnce, AcknowledgedIsHanded,
              AcceptedOnce, Handed
<1> QED
  BY <1>1, <1>2, <1>3, HandOverInv, ReceiveInv, AcceptInv DEF Next

(* Whatever happens, no telegram is received twice or received and still   *)
(* held (handleTunnelReq, pushInbound).                                    *)
THEOREM ReceivedOnceCorrect == Spec => []ReceivedOnce
<1>1. Inv => ReceivedOnce
  BY DEF Inv
<1> QED
  BY <1>1, InitInv, StepInv, PTL DEF Spec

(* Until the tunnel ends what the gateway takes for delivered has been     *)
(* handed to the application (handleTunnelReq).                            *)
THEOREM AcknowledgedCorrect == Spec => []AcknowledgedIsHanded
<1>1. Inv => AcknowledgedIsHanded
  BY DEF Inv
<1> QED
  BY <1>1, InitInv, StepInv, PTL DEF Spec

(* No call's message is accepted twice (requestTunnel).                    *)
THEOREM AcceptedOnceCorrect == Spec => []AcceptedOnce
<1>1. Inv => AcceptedOnce
  BY DEF Inv
<1> QED
  BY <1>1, InitInv, StepInv, PTL DEF Spec
=============================================================================
