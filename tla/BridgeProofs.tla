---------------------------- MODULE BridgeProofs ----------------------------
(***************************************************************************)
(* Type correctness of Bridge.tla, that it leaves no connection behind,    *)
(* and that it relays a message once at most, for any messages, any two    *)
(* endpoints and any number of restarts.                                   *)
(*                                                                         *)
(* The invariant says which clients are open at each place of the          *)
(* goroutine, and that what has been transmitted, or is about to be, is    *)
(* not held by a client any more and so is never taken again.              *)
(***************************************************************************)
EXTENDS Bridge, TLAPS

(* The clients that newBridge and close leave open at each place.          *)
Connected ==
  /\ open["tunnel"] = IF at \in {"tunnel", "sleep", "closeOther"} THEN 0 ELSE 1
  /\ open["other"] = IF at \in {"serve", "relay", "close", "closeOther"} THEN 1 ELSE 0

Taken == arrived \ waiting

SentOnce ==
  /\ RelayedOnce
  /\ \A i \in DOMAIN sent : sent[i] \in Taken
  /\ msg # Nothing => msg \in Taken /\ \A i \in DOMAIN sent : sent[i] # msg

Inv == TypeOK /\ Connected /\ SentOnce
-----------------------------------------------------------------------------
(* The loop begins with nothing connected.                                 *)
LEMMA InitInv == Init => Inv
BY BridgeAssumption DEF Init, Inv, TypeOK, Connected, SentOnce, RelayedOnce, Sides, Taken

(* Transmitting the message that is being relayed.                         *)
LEMMA Transmit ==
  ASSUME Inv, at = "relay", sent' = Append(sent, msg), UNCHANGED netVars, msg' = Nothing
  PROVE  SentOnce' /\ sent' \in Seq(Telegrams)
<1>1. msg \in Telegrams /\ msg \in Taken /\ sent \in Seq(Telegrams)
  BY DEF Inv, TypeOK, SentOnce
<1>2. DOMAIN sent' = 1..Len(sent) + 1 /\ DOMAIN sent = 1..Len(sent)
  BY <1>1
<1>3. \A i \in 1..Len(sent) : sent'[i] = sent[i] /\ sent[i] # msg
  BY <1>1, <1>2, NothingAssumption DEF Inv, SentOnce
<1>4. sent'[Len(sent) + 1] = msg
  BY <1>1
<1>5. RelayedOnce'
  BY <1>2, <1>3, <1>4 DEF RelayedOnce, Inv, SentOnce
<1>6. \A i \in DOMAIN sent' : sent'[i] \in Taken
  BY <1>1, <1>2, <1>3, <1>4 DEF Inv, SentOnce
<1> QED
  BY <1>1, <1>5, <1>6 DEF SentOnce, Taken, netVars

(* A message that is received was held by no client and relayed never.     *)
LEMMA ArrivesInv ==
  ASSUME Inv, NEW t \in Telegrams, Arrives(t)
  PROVE  Inv'
<1>1. Taken' = Taken
  BY DEF Arrives, Taken, Inv, TypeOK
<1>2. TypeOK'
  BY DEF Arrives, Inv, TypeOK
<1> QED
  BY <1>1, <1>2 DEF Arrives, Inv, Connected, SentOnce, RelayedOnce

(* A message that is taken has not been transmitted.                       *)
LEMMA TakeInv ==
  ASSUME Inv, NEW t \in Telegrams, Take(t)
  PROVE  Inv'
<1>1. Taken' = Taken \cup {t} /\ t \notin Taken
  BY DEF Take, Taken, Inv, TypeOK
<1>2. msg = Nothing
  BY DEF Take, Inv, TypeOK
<1>3. \A i \in DOMAIN sent : sent[i] # t
  BY <1>1 DEF Inv, SentOnce
<1>4. TypeOK'
  BY <1>2, NothingAssumption DEF Take, Inv, TypeOK
<1>5. SentOnce'
  BY <1>1, <1>2, <1>3 DEF Take, Inv, SentOnce, RelayedOnce
<1> QED
  BY <1>4, <1>5 DEF Take, Inv, Connected

(* An attempt to connect.                                                  *)
LEMMA AttemptType ==
  ASSUME Inv, NEW side \in Sides, NEW next \in {"other", "serve", "sleep", "undo"},
         at # "relay", Connects(side, next) \/ Fails(next)
  PROVE  TypeOK'
<1>1. CASE Connects(side, next)
  <2>1. open' \in [Sides -> Nat] /\ up' \in [Sides -> BOOLEAN]
    BY <1>1 DEF Connects, Inv, TypeOK
  <2> QED
    BY <1>1, <2>1 DEF Connects, Inv, TypeOK
<1>2. CASE Fails(next)
  BY <1>2 DEF Fails, netVars, Inv, TypeOK
<1> QED
  BY <1>1, <1>2

(* What has been transmitted is not disturbed by a step that relays and    *)
(* receives nothing.                                                       *)
LEMMA QuietInv ==
  ASSUME Inv, UNCHANGED <<msg, waiting, arrived, sent>>
  PROVE  SentOnce'
BY DEF Inv, SentOnce, RelayedOnce, Taken

(* Closing a client drops what it holds.                                   *)
LEMMA DropInv ==
  ASSUME Inv, NEW side \in Sides, waiting' = {t \in waiting : Origin(t) # side},
         UNCHANGED <<msg, arrived, sent>>
  PROVE  SentOnce'
BY DEF Inv, TypeOK, SentOnce, RelayedOnce, Taken

(* A client that is open is closed.                                        *)
LEMMA CloseInv ==
  ASSUME Inv, NEW side \in Sides, NEW next, Close(side, next), open[side] = 1,
         at # "relay", next \in {"sleep", "closeOther"}
  PROVE  TypeOK' /\ SentOnce'
<1>1. TypeOK'
  BY DEF Close, Inv, TypeOK
<1> QED
  BY <1>1, DropInv DEF Close

(* The relay: transmitted or not, the message is done with.                *)
LEMMA RelayInv ==
  ASSUME Inv, Relay
  PROVE  Inv'
<1>1. msg' = Nothing /\ at' \in {"serve", "close"} /\ UNCHANGED <<restarts, open, netVars>>
  BY DEF Relay, AfterError
<1>2. sent' = sent \/ sent' = Append(sent, msg)
  BY DEF Relay
<1>3. SentOnce' /\ sent' \in Seq(Telegrams)
  <2>1. CASE sent' = Append(sent, msg)
    BY <1>1, <2>1, Transmit DEF Relay
  <2>2. CASE sent' = sent
    BY <1>1, <2>2 DEF Inv, TypeOK, SentOnce, RelayedOnce, Taken, netVars
  <2> QED
    BY <1>2, <2>1, <2>2
<1>4. TypeOK'
  BY <1>1, <1>3 DEF Inv, TypeOK, netVars
<1>5. Connected'
  BY <1>1 DEF Relay, Inv, Connected
<1> QED
  BY <1>3, <1>4, <1>5 DEF Inv

(* Every step keeps the invariant.                                         *)
THEOREM StepInv == Inv /\ [Next]_vars => Inv'
<1> SUFFICES ASSUME Inv, [Next]_vars PROVE Inv'
  OBVIOUS
<1>0. TypeOK /\ Connected /\ SentOnce
  BY DEF Inv
<1>1. CASE ConnectTunnel
  <2>1. SentOnce'
    BY <1>0, <1>1, QuietInv DEF ConnectTunnel, Connects, Fails, netVars
  <2>2. TypeOK'
    BY <1>1, AttemptType DEF ConnectTunnel, Sides
  <2>3. Connected'
    BY <1>0, <1>1 DEF ConnectTunnel, Connects, Fails, TypeOK, Connected, Sides
  <2> QED
    BY <2>1, <2>2, <2>3 DEF Inv
<1>2. CASE ConnectOther
  <2>1. SentOnce'
    BY <1>0, <1>2, QuietInv DEF ConnectOther, Connects, Fails, netVars
  <2>2. TypeOK'
    BY <1>2, AttemptType DEF ConnectOther, OtherFailed, Sides
  <2>3. Connected'
    BY <1>0, <1>2 DEF ConnectOther, OtherFailed, Connects, Fails, TypeOK, Connected, Sides
  <2> QED
    BY <2>1, <2>2, <2>3 DEF Inv
<1>3. CASE Undo
  <2>1. open["tunnel"] = 1 /\ open["other"] = 0
    BY <1>0, <1>3 DEF Undo, Connected
  <2>2. TypeOK' /\ SentOnce'
    BY <1>0, <1>3, <2>1, CloseInv DEF Undo, Sides
  <2> QED
    BY <1>0, <1>3, <2>1, <2>2 DEF Undo, Close, Connected, TypeOK, Sides, Inv
<1>4. CASE CloseTunnel
  <2>1. open["tunnel"] = 1 /\ open["other"] = 1
    BY <1>0, <1>4 DEF CloseTunnel, Connected
  <2>2. TypeOK' /\ SentOnce'
    BY <1>0, <1>4, <2>1, CloseInv DEF CloseTunnel, Sides
  <2> QED
    BY <1>0, <1>4, <2>1, <2>2 DEF CloseTunnel, Close, Connected, TypeOK, Sides, Inv
<1>5. CASE CloseOther
  <2>1. open["tunnel"] = 0 /\ open["other"] = 1
    BY <1>0, <1>5 DEF CloseOther, Connected
  <2>2. TypeOK' /\ SentOnce'
    BY <1>0, <1>5, <2>1, CloseInv DEF CloseOther, Sides
  <2> QED
    BY <1>0, <1>5, <2>1, <2>2 DEF CloseOther, Close, Connected, TypeOK, Sides, Inv
<1>6. CASE Ended
  BY <1>0, <1>6 DEF Inv, Ended, netVars, TypeOK, Connected, SentOnce, RelayedOnce, Taken
<1>7. CASE Restart
  BY <1>0, <1>7, BridgeAssumption
     DEF Inv, Restart, netVars, TypeOK, Connected, SentOnce, RelayedOnce, Taken
<1>8. ASSUME NEW s \in Sides, Ends(s) PROVE Inv'
  <2>1. SentOnce'
    BY <1>0, <1>8, DropInv DEF Ends
  <2> QED
    BY <1>0, <1>8, <2>1 DEF Inv, Ends, TypeOK, Connected
<1>9. CASE UNCHANGED vars
  BY <1>0, <1>9 DEF Inv, vars, TypeOK, Connected, SentOnce, RelayedOnce, Taken
<1> QED
  BY <1>1, <1>2, <1>3, <1>4, <1>5, <1>6, <1>7, <1>8, <1>9, ArrivesInv, TakeInv, RelayInv
     DEF Next, Taking

(* Every variable of the bridge keeps its type; a message is in the        *)
(* goroutine's hands exactly while it is relayed (bridge.go, serve).       *)
THEOREM TypeCorrect == Spec => []TypeOK
<1>1. Inv => TypeOK
  BY DEF Inv
<1> QED
  BY <1>1, InitInv, StepInv, PTL DEF Spec

(* Whatever fails, no client is left open by an attempt, and there is one  *)
(* of each side at most (newBridge, close).                                *)
THEOREM NoConnectionLeftCorrect == Spec => []NoConnectionLeft
<1>1. Inv => NoConnectionLeft
  BY DEF Inv, Connected, NoConnectionLeft, Sides
<1> QED
  BY <1>1, InitInv, StepInv, PTL DEF Spec

(* No message is transmitted twice, whichever Send fails (serve).          *)
THEOREM RelayedOnceCorrect == Spec => []RelayedOnce
<1>1. Inv => RelayedOnce
  BY DEF Inv, SentOnce
<1> QED
  BY <1>1, InitInv, StepInv, PTL DEF Spec
=============================================================================
