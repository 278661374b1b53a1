----------------------------- MODULE MCService -----------------------------
(***************************************************************************)
(* An instance of Service.tla for TLC.                                     *)
(***************************************************************************)
EXTENDS Service

Lamp == 1
Blind == 2

(* A response and a read of the lamp, and a frame to a device.             *)
MCFrame(e) ==
  [type |-> "LDataInd", source |-> 0, destination |-> Lamp,
   control2 |-> IF e = "device" THEN Control2Hops(6) ELSE DefaultControl2,
   unit |-> [control |-> FALSE, data |-> <<0>>,
             command |-> IF e = "read" THEN GroupRead ELSE GroupResponse]]

MCGroups == <<[name |-> "lamp", text |-> "0/0/1", address |-> Lamp],
              [name |-> "blind", text |-> "0/0/2", address |-> Blind]>>

MCQuestions ==
  [op : {"read", "latest"}, id : {"lamp"}, valid : {TRUE}]
  \cup [op : {"write"}, id : {"lamp"}, valid : BOOLEAN]
  \cup [op : {"read"}, id : {"0/0/2", "door"}, valid : {TRUE}]
=============================================================================
