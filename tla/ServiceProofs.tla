--------------------------- MODULE ServiceProofs ----------------------------
(***************************************************************************)
(* Group events and the frames they travel in, for every event; type       *)
(* correctness of Service.tla and what a read request of the HTTP API can  *)
(* rely on, for any messages, requests, groups and number of looks.        *)
(*                                                                         *)
(* An answer is recognised by its time.  That it is new rests on this: an  *)
(* event that is in the store when a request comes has a time that is not  *)
(* after the request's, since times are given in the order of the clock    *)
(* and none is ever given again (History).  That a read times out only     *)
(* after silence rests on the last look, which saw the latest event.       *)
(***************************************************************************)
EXTENDS Service, FiniteSetTheorems, TLAPS

(* A frame to a group is known as one whatever number of hops it has, and  *)
(* Hops gives the address type instead of that number (control.go:61).     *)
THEOREM HopsIsAddressType ==
  ASSUME NEW h \in Nat
  PROVE  LET c == Control2GroupAddr + Control2Hops(h)
         IN  c \in Byte /\ IsGroupAddr(c) /\ Hops(c) = 1
BY DEF Control2GroupAddr, Control2Hops, IsGroupAddr, Hops, Byte

(* What buildGroupOutbound makes of an event, serveGroupInbound of the     *)
(* other side takes for the same event, once the bus has turned the        *)
(* request into an indication.                                             *)
THEOREM EventsSurvive ==
  ASSUME NEW command \in 0..2, NEW source, NEW destination, NEW data \in Seq(Byte)
  PROVE  LET event == [command |-> command, source |-> source,
                       destination |-> destination, data |-> data]
             frame == [BuildGroupOutbound("LDataReq", event) EXCEPT !.type = "LDataInd"]
         IN  IsGroupEvent(frame) /\ GroupEvent(frame) = event
<1>1. IsGroupAddr(DefaultControl2)
  BY HopsIsAddressType DEF DefaultControl2
<1> QED
  BY <1>1 DEF BuildGroupOutbound, IsGroupEvent, IsGroupCommand, GroupEvent

HeldOnce == \A e, f \in Inbound : at[e] = "held" /\ at[f] = "held" => e = f

Reading(r) == asks[r].op = "read" /\ pc[r] \in Pending

(* What was stored when a read came is not after it.                       *)
StoredIsOld ==
  \A r \in Requests : Reading(r) => \A i \in 1..before[r] : Time(i) <= asked[r]

(* What a read that goes on has seen is not after it.                      *)
SeenIsOld ==
  \A r \in Requests : pc[r] \in {"polling", "timeout"} /\ polls[r] > 0 =>
     \A i \in Logged(Found(asks[r].id)) : i <= upto[r] => Time(i) <= asked[r]

Counted ==
  \A r \in Requests : /\ pc[r] = "timeout" => polls[r] = Polls
                      /\ pc[r] \in {"new", "sending"} => polls[r] = 0

History == StoredIsOld /\ AnswerIsNew /\ SeenIsOld /\ Counted

Inv == TypeOK /\ HeldOnce /\ (current # NoEvent => at[current] = "received") /\ History
-----------------------------------------------------------------------------
(* The group worker.                                                       *)

(* One message at most in the worker's hands is a set of one at most.      *)
LEMMA OneHeld ==
  ASSUME NEW place, \A e, f \in Inbound : place[e] = "held" /\ place[f] = "held" => e = f
  PROVE  Cardinality({e \in Inbound : place[e] = "held"}) <= 1
<1> DEFINE H == {e \in Inbound : place[e] = "held"}
<1>1. CASE H = {}
  BY <1>1, FS_EmptySet
<1>2. CASE H # {}
  <2>1. PICK x : x \in H
    BY <1>2
  <2>2. H = {x}
    BY <2>1
  <2>3. Cardinality({x}) = 1
    BY FS_Singleton
  <2> QED
    BY <2>2, <2>3
<1> QED
  BY <1>1, <1>2

(* What each step of the worker does to the messages: none that has been   *)
(* received is touched.                                                    *)
LEMMA GroupStep ==
  ASSUME TypeOK, HeldOnce,
         ClientEnds \/ WorkerEnds \/ \E e \in Inbound : Push(e) \/ Take(e) \/ Receive(e)
  PROVE  /\ GroupTypeOK' /\ HeldOnce'
         /\ \A f \in Inbound : at[f] = "received" => at'[f] = "received"
<1>1. at \in [Inbound -> Places] /\ clientUp \in BOOLEAN /\ worker \in {"running", "exited"}
  BY DEF TypeOK, GroupTypeOK
<1>2. /\ HeldOnce' /\ at' \in [Inbound -> Places]
      /\ clientUp' \in BOOLEAN /\ worker' \in {"running", "exited"}
      /\ \A f \in Inbound : at[f] = "received" => at'[f] = "received"
  <2>1. CASE \E e \in Inbound : Push(e)
    BY <1>1, <2>1 DEF Push, HeldOnce, Places
  <2>2. CASE \E e \in Inbound : Take(e)
    BY <1>1, <2>2 DEF Take, Ready, Holding, HeldOnce, Places
  <2>3. CASE ClientEnds
    BY <1>1, <2>3 DEF ClientEnds, HeldOnce, Places
  <2>4. CASE WorkerEnds
    BY <1>1, <2>4 DEF WorkerEnds, HeldOnce
  <2>5. CASE \E e \in Inbound : Receive(e)
    BY <1>1, <2>5 DEF Receive, HeldOnce, Places
  <2> QED
    BY <2>1, <2>2, <2>3, <2>4, <2>5
<1>3. Cardinality({f \in Inbound : at'[f] = "held"}) <= 1
  BY <1>2, OneHeld DEF HeldOnce
<1> QED
  BY <1>2, <1>3 DEF GroupTypeOK
-----------------------------------------------------------------------------
(* The store and its history.                                              *)

(* A log is a log of the messages received, also when more have been.      *)
LEMMA LogGrows ==
  ASSUME TypeOK, \A f \in Inbound : at[f] = "received" => at'[f] = "received"
  PROVE  log \in Seq({f \in Inbound : at'[f] = "received"})
BY DEF TypeOK

(* What was stored keeps its place and its time.                           *)
Keeps ==
  /\ Len(log') \in Nat /\ Len(log) <= Len(log') /\ DOMAIN log' = 1..Len(log')
  /\ \A i \in 1..Len(log) : log'[i] = log[i] /\ stamp'[log'[i]] = stamp[log[i]]

(* Steps that store nothing, and the one that stores an event.             *)
LEMMA KeepsAll ==
  ASSUME TypeOK, UNCHANGED log, UNCHANGED stamp
  PROVE  Keeps
BY DEF TypeOK, Keeps

(* An event is stored at the end.                                          *)
LEMMA KeepsStored ==
  ASSUME TypeOK, NEW e \in Inbound, log' = Append(log, e), UNCHANGED stamp
  PROVE  Keeps
<1>1. log \in Seq(Inbound)
  BY DEF TypeOK
<1> QED
  BY <1>1 DEF Keeps

(* A step that answers no request keeps what is known of the answers.      *)
LEMMA Undisturbed ==
  ASSUME Inv, UNCHANGED requestVars, Keeps
  PROVE  /\ History'
         /\ \A r \in Requests : /\ before'[r] \in 0..Len(log') /\ upto'[r] \in 0..Len(log')
                                /\ reply'[r] \in 0..upto'[r]
<1>1. Len(log) \in Nat /\ DOMAIN log = 1..Len(log)
  BY DEF Inv, TypeOK
<1>3. ASSUME NEW i \in 1..Len(log) PROVE Time(i)' = Time(i)
  BY DEF Time, Keeps
<1>4. ASSUME NEW g, NEW i \in 1..Len(log) PROVE (i \in Logged(g))' <=> i \in Logged(g)
  BY <1>1 DEF Logged, Keeps
<1>5. ASSUME NEW r \in Requests
      PROVE  /\ before[r] \in 0..Len(log) /\ upto[r] \in 0..Len(log) /\ reply[r] \in 0..upto[r]
             /\ before'[r] = before[r] /\ upto'[r] = upto[r] /\ reply'[r] = reply[r]
             /\ asks'[r] = asks[r] /\ pc'[r] = pc[r] /\ asked'[r] = asked[r] /\ polls'[r] = polls[r]
  BY DEF Inv, TypeOK, requestVars
<1>6. StoredIsOld'
  <2> SUFFICES ASSUME NEW r \in Requests, Reading(r)', NEW i \in 1..before'[r]
               PROVE  Time(i)' <= asked'[r]
    BY DEF StoredIsOld
  <2>1. Reading(r) /\ i \in 1..before[r] /\ i \in 1..Len(log)
    BY <1>1, <1>5 DEF Reading
  <2> QED
    BY <1>3, <1>5, <2>1 DEF Inv, History, StoredIsOld
<1>7. AnswerIsNew'
  <2> SUFFICES ASSUME NEW r \in Requests, pc'[r] = "event", asks'[r].op = "read"
               PROVE  reply'[r] > before'[r] /\ (reply[r] \in Logged(Found(asks[r].id)))'
    BY DEF AnswerIsNew
  <2>1. reply[r] > before[r] /\ reply[r] \in Logged(Found(asks[r].id)) /\ reply[r] \in 1..Len(log)
    BY <1>1, <1>5 DEF Inv, History, AnswerIsNew
  <2>2. Found(asks[r].id)' = Found(asks[r].id)
    BY <1>5 DEF Found, Matches
  <2> QED
    BY <1>4, <1>5, <2>1, <2>2
<1>8. ASSUME NEW r \in Requests, pc'[r] \in {"polling", "timeout"}, polls'[r] > 0,
             NEW i \in Logged(Found(asks[r].id))', i <= upto'[r]
      PROVE  Time(i)' <= asked'[r]
  <2>1. i \in 1..Len(log)
    BY <1>1, <1>5, <1>8 DEF Logged, Keeps
  <2>2. i \in Logged(Found(asks[r].id))
    BY <1>4, <1>5, <2>1 DEF Found, Matches
  <2> QED
    BY <1>3, <1>5, <1>8, <2>1, <2>2 DEF Inv, History, SeenIsOld
<1>9. SeenIsOld'
  BY <1>8 DEF SeenIsOld
<1>10. Counted' /\ History'
  <2>1. Counted'
    BY <1>5 DEF Inv, History, Counted
  <2> QED
    BY <1>6, <1>7, <1>9, <2>1 DEF History
<1>11. \A r \in Requests : /\ before'[r] \in 0..Len(log') /\ upto'[r] \in 0..Len(log')
                           /\ reply'[r] \in 0..upto'[r]
  BY <1>1, <1>5 DEF Keeps
<1> QED
  BY <1>10, <1>11
-----------------------------------------------------------------------------
(* Steps that answer no request.                                           *)

(* Nothing has come and nothing is asked.                                  *)
LEMMA InitInv == Init => Inv
<1> SUFFICES ASSUME Init PROVE Inv
  OBVIOUS
<1>1. GroupTypeOK /\ HeldOnce
  <2>1. HeldOnce
    BY DEF Init, GroupInit, HeldOnce
  <2>2. Cardinality({e \in Inbound : at[e] = "held"}) <= 1
    BY <2>1, OneHeld DEF HeldOnce
  <2> QED
    BY <2>1, <2>2 DEF Init, GroupInit, GroupTypeOK, Places
<1>2. TypeOK
  <2>1. /\ program \in Programs /\ run = "up"
        /\ stage \in {"receiving", "draining", "sending"}
    BY ServiceAssumption DEF Init, Start
  <2>2. current \in Inbound \cup {NoEvent} /\ (current # NoEvent) = (stage = "storing")
    BY <2>1 DEF Init
  <2>3. now \in Nat /\ stamp \in [Inbound -> 0..now]
    BY DEF Init
  <2>4. log \in Seq({e \in Inbound : at[e] = "received"}) /\ Len(log) = 0
    BY DEF Init
  <2>5. /\ asks \in [Requests -> Questions]
        /\ pc \in [Requests -> {"new", "killed"} \cup Pending \cup Replied]
    BY DEF Init
  <2>6. asked \in [Requests -> 0..now] /\ polls \in [Requests -> 0..Polls]
    BY ServiceAssumption DEF Init
  <2>7. \A r \in Requests : /\ before[r] \in 0..Len(log) /\ upto[r] \in 0..Len(log)
                            /\ reply[r] \in 0..upto[r]
    BY <2>4 DEF Init
  <2>8. {before, upto, reply} \subseteq [Requests -> Nat]
    BY DEF Init
  <2> QED
    BY <1>1, <2>1, <2>2, <2>3, <2>4, <2>5, <2>6, <2>7, <2>8 DEF TypeOK
<1>3. History
  BY DEF Init, History, StoredIsOld, AnswerIsNew, SeenIsOld, Counted, Reading, Pending
<1> QED
  BY <1>1, <1>2, <1>3 DEF Inv, Init

(* What such a step has to leave as it is.                                 *)
LEMMA Quiet ==
  ASSUME Inv, UNCHANGED <<program, requestVars>>, Keeps,
         GroupTypeOK', HeldOnce',
         run' \in {"up", "stopping", "exited"},
         stage' \in {"receiving", "storing", "draining", "sending", "waiting"} \cup Returned,
         current' \in Inbound \cup {NoEvent}, (current' # NoEvent) = (stage' = "storing"),
         current' # NoEvent => at'[current'] = "received",
         now' \in {now, now + 1}, stamp' \in [Inbound -> 0..now'],
         log' \in Seq({e \in Inbound : at'[e] = "received"})
  PROVE  Inv'
<1>1. /\ History'
      /\ \A r \in Requests : /\ before'[r] \in 0..Len(log') /\ upto'[r] \in 0..Len(log')
                             /\ reply'[r] \in 0..upto'[r]
  BY Undisturbed
<1>2. now' \in Nat /\ asked' \in [Requests -> 0..now']
  BY DEF Inv, TypeOK, requestVars
<1>3. TypeOK'
  BY <1>1, <1>2 DEF Inv, TypeOK, requestVars
<1> QED
  BY <1>1, <1>3 DEF Inv

(* The group worker and the client underneath.                             *)
LEMMA WorkerInv ==
  ASSUME Inv, Around,
         ClientEnds \/ WorkerEnds \/ \E e \in Inbound : Push(e) \/ Take(e)
  PROVE  Inv'
<1>1. /\ GroupTypeOK' /\ HeldOnce'
      /\ \A f \in Inbound : at[f] = "received" => at'[f] = "received"
  BY GroupStep DEF Inv
<1>2. Keeps /\ log' \in Seq({f \in Inbound : at'[f] = "received"})
  BY <1>1, KeepsAll, LogGrows DEF Inv, Around, recordVars
<1> QED
  BY <1>1, <1>2, Quiet DEF Inv, TypeOK, Around, readerVars, recordVars

(* An event the reader takes has its time, and no stored event changes     *)
(* its own: what is in the store had been received before.                 *)
LEMMA RecordInv ==
  ASSUME Inv, NEW e \in Inbound, Record(e)
  PROVE  Inv'
<1>1. /\ GroupTypeOK' /\ HeldOnce'
      /\ \A f \in Inbound : at[f] = "received" => at'[f] = "received"
  BY GroupStep DEF Inv, Record
<1>2. log' \in Seq({f \in Inbound : at'[f] = "received"})
  BY <1>1, LogGrows DEF Inv, Record
<1>3. at[e] # "received" /\ at'[e] = "received"
  BY DEF Inv, TypeOK, GroupTypeOK, Record, Receive
<1>4. now \in Nat /\ now' \in {now, now + 1} /\ stamp' \in [Inbound -> 0..now']
      /\ \A f \in Inbound \ {e} : stamp'[f] = stamp[f]
  BY DEF Inv, TypeOK, Record, Clock
<1>5. Keeps
  <2>1. Len(log) \in Nat /\ DOMAIN log = 1..Len(log) /\ log' = log
    BY DEF Inv, TypeOK, Record
  <2>2. ASSUME NEW i \in 1..Len(log) PROVE log[i] \in Inbound \ {e}
    BY <1>3, <2>1 DEF Inv, TypeOK
  <2> QED
    BY <1>4, <2>1, <2>2 DEF Keeps
<1>6. /\ program' = program /\ run' = run /\ UNCHANGED requestVars
      /\ stage' = "storing" /\ current' = e /\ e # NoEvent
  BY NoEventAssumption DEF Record
<1>7. run' \in {"up", "stopping", "exited"} /\ (current' # NoEvent) = (stage' = "storing")
  BY <1>6 DEF Inv, TypeOK
<1> QED
  BY <1>1, <1>2, <1>3, <1>4, <1>5, <1>6, <1>7, Quiet

(* The event in the reader's hands goes into the store, or not.            *)
LEMMA StoreInv ==
  ASSUME Inv, Store
  PROVE  Inv'
<1>1. current \in Inbound /\ at[current] = "received"
  BY DEF Inv, TypeOK, Store
<1>2. Keeps
  BY <1>1, KeepsAll, KeepsStored DEF Inv, Store
<1>3. log' \in Seq({f \in Inbound : at'[f] = "received"})
  <2> DEFINE R == {f \in Inbound : at[f] = "received"}
  <2>1. log \in Seq(R) /\ current \in R /\ at' = at
    BY <1>1 DEF Inv, TypeOK, Store, groupVars
  <2>2. log' = log \/ log' = Append(log, current)
    BY DEF Store
  <2>3. log' \in Seq(R)
    <3> HIDE DEF R
    <3> QED
      BY <2>1, <2>2
  <2> QED
    BY <2>1, <2>3
<1>4. GroupTypeOK' /\ HeldOnce'
  BY DEF Inv, TypeOK, GroupTypeOK, HeldOnce, Store, groupVars
<1>5. /\ program' = program /\ run' = run /\ UNCHANGED requestVars
      /\ stage' = "receiving" /\ current' = NoEvent /\ stamp' = stamp /\ now' = now
  BY DEF Store, AfterError
<1>6. run' \in {"up", "stopping", "exited"} /\ (current' # NoEvent) = (stage' = "storing")
      /\ stamp' \in [Inbound -> 0..now']
  BY <1>5 DEF Inv, TypeOK
<1> QED
  BY <1>2, <1>3, <1>4, <1>5, <1>6, Quiet

(* The reader ends, or a signal comes.                                     *)
LEMMA EndInv ==
  ASSUME Inv, ListenEnds \/ Signal
  PROVE  Inv'
<1>1. UNCHANGED groupVars /\ UNCHANGED recordVars /\ UNCHANGED <<program, current, now, requestVars>>
  BY DEF ListenEnds, Signal, readerVars
<1>2. Keeps
  BY <1>1, KeepsAll DEF Inv, recordVars
<1>3. log' \in Seq({f \in Inbound : at'[f] = "received"})
  BY <1>1 DEF Inv, TypeOK, recordVars, groupVars
<1>4. GroupTypeOK' /\ HeldOnce'
  BY <1>1 DEF Inv, TypeOK, GroupTypeOK, HeldOnce, groupVars
<1>5. run' \in {"up", "stopping", "exited"}
      /\ stage' \in {"receiving", "storing", "draining", "sending", "waiting"} \cup Returned
      /\ (current' # NoEvent) = (stage' = "storing")
  BY <1>1 DEF Inv, TypeOK, ListenEnds, Signal, readerVars, Returned
<1>6. current' \in Inbound \cup {NoEvent} /\ (current' # NoEvent => at'[current'] = "received")
      /\ now' = now /\ stamp' \in [Inbound -> 0..now']
  BY <1>1 DEF Inv, TypeOK, groupVars, recordVars
<1> QED
  BY <1>1, <1>2, <1>3, <1>4, <1>5, <1>6, Quiet

(* The commands read and send store nothing.                               *)
LEMMA CommandInv ==
  ASSUME Inv, Command
  PROVE  Inv'
<1>1. /\ UNCHANGED <<program, run, current, now, requestVars>> /\ UNCHANGED recordVars
      /\ stage # "storing" /\ stage' # "storing"
      /\ stage' \in {"receiving", "storing", "draining", "sending", "waiting"} \cup Returned
  BY DEF Command, Drain, Await, Drained, CommandSent, AwaitEnds, CommandAt, StageOnly, Returned
<1>2. /\ GroupTypeOK' /\ HeldOnce'
      /\ \A f \in Inbound : at[f] = "received" => at'[f] = "received"
  <2>1. CASE \E e \in Inbound : Receive(e)
    BY <2>1, GroupStep DEF Inv
  <2>2. CASE UNCHANGED groupVars
    BY <2>2 DEF Inv, TypeOK, GroupTypeOK, HeldOnce, groupVars
  <2> QED
    BY <2>1, <2>2 DEF Command, Drain, Await, Drained, CommandSent, AwaitEnds
<1>3. Keeps /\ log' \in Seq({f \in Inbound : at'[f] = "received"})
  BY <1>1, <1>2, KeepsAll, LogGrows DEF Inv, recordVars
<1>4. current' \in Inbound \cup {NoEvent} /\ (current' # NoEvent) = (stage' = "storing")
      /\ (current' # NoEvent => at'[current'] = "received")
      /\ run' \in {"up", "stopping", "exited"} /\ now' = now /\ stamp' \in [Inbound -> 0..now']
  BY <1>1, <1>2 DEF Inv, TypeOK, recordVars
<1> QED
  BY <1>1, <1>2, <1>3, <1>4, Quiet
-----------------------------------------------------------------------------
(* Steps of a request.                                                     *)

(* Nothing but the request r and the clock moves.                          *)
OnlyRequest(r) ==
  /\ UNCHANGED groupVars /\ UNCHANGED <<program, run, stage, current, stamp, log, asks>>
  /\ now' \in {now, now + 1}
  /\ \A q \in Requests \ {r} :
       /\ pc'[q] = pc[q] /\ asked'[q] = asked[q] /\ polls'[q] = polls[q]
       /\ reply'[q] = reply[q] /\ before'[q] = before[q] /\ upto'[q] = upto[q]

(* The requests of which History holds.                                    *)
Sound ==
  {r \in Requests :
     /\ Reading(r) => \A i \in 1..before[r] : Time(i) <= asked[r]
     /\ pc[r] = "event" /\ asks[r].op = "read" =>
          reply[r] > before[r] /\ reply[r] \in Logged(Found(asks[r].id))
     /\ pc[r] \in {"polling", "timeout"} /\ polls[r] > 0 =>
          \A i \in Logged(Found(asks[r].id)) : i <= upto[r] => Time(i) <= asked[r]
     /\ pc[r] = "timeout" => polls[r] = Polls
     /\ pc[r] \in {"new", "sending"} => polls[r] = 0}

(* They are all of them.                                                   *)
LEMMA HistoryIsSound == History <=> Requests \subseteq Sound
BY DEF History, StoredIsOld, AnswerIsNew, SeenIsOld, Counted, Sound

(* The sequence part of the types, for a request that stays in its bounds. *)
LEMMA OneRequest ==
  ASSUME Inv, NEW r \in Requests, OnlyRequest(r),
         pc' \in [Requests -> {"new", "killed"} \cup Pending \cup Replied],
         asked' \in [Requests -> 0..now'], polls' \in [Requests -> 0..Polls],
         {before', upto', reply'} \subseteq [Requests -> Nat],
         before'[r] \in 0..Len(log), upto'[r] \in 0..Len(log), reply'[r] \in 0..upto'[r],
         r \in Sound'
  PROVE  Inv'
<1>1. GroupTypeOK' /\ HeldOnce'
  BY DEF Inv, TypeOK, GroupTypeOK, HeldOnce, OnlyRequest, groupVars
<1>2. now' \in Nat /\ stamp' \in [Inbound -> 0..now']
  BY DEF Inv, TypeOK, OnlyRequest
<1>3. log' = log /\ log' \in Seq({f \in Inbound : at'[f] = "received"})
  BY DEF Inv, TypeOK, OnlyRequest, groupVars
<1>4. \A q \in Requests : /\ before'[q] \in 0..Len(log') /\ upto'[q] \in 0..Len(log')
                          /\ reply'[q] \in 0..upto'[q]
  BY <1>3 DEF Inv, TypeOK, OnlyRequest
<1>5. TypeOK'
  BY <1>1, <1>2, <1>3, <1>4 DEF Inv, TypeOK, OnlyRequest
<1>6. ASSUME NEW q \in Requests \ {r} PROVE q \in Sound'
  <2>1. q \in Sound
    BY HistoryIsSound DEF Inv
  <2>2. /\ pc'[q] = pc[q] /\ asked'[q] = asked[q] /\ polls'[q] = polls[q] /\ asks' = asks
        /\ reply'[q] = reply[q] /\ before'[q] = before[q] /\ upto'[q] = upto[q]
    BY DEF OnlyRequest
  <2>3. log' = log /\ stamp' = stamp
    BY DEF OnlyRequest
  <2>4. Reading(q)' => \A i \in 1..before'[q] : Time(i)' <= asked'[q]
    BY <2>1, <2>2, <2>3 DEF Sound, Reading, Time
  <2>5. pc'[q] = "event" /\ asks'[q].op = "read" =>
          reply'[q] > before'[q] /\ reply'[q] \in Logged(Found(asks[q].id))'
    <3>1. Logged(Found(asks[q].id))' = Logged(Found(asks[q].id))
      BY <2>2, <2>3 DEF Logged, Found, Matches
    <3>2. pc[q] = "event" /\ asks[q].op = "read" =>
            reply[q] > before[q] /\ reply[q] \in Logged(Found(asks[q].id))
      BY <2>1 DEF Sound
    <3> QED
      BY <2>2, <3>1, <3>2
  <2>6. pc'[q] \in {"polling", "timeout"} /\ polls'[q] > 0 =>
          \A i \in Logged(Found(asks[q].id))' : i <= upto'[q] => Time(i)' <= asked'[q]
    <3>1. Logged(Found(asks[q].id))' = Logged(Found(asks[q].id))
      BY <2>2, <2>3 DEF Logged, Found, Matches
    <3>2. pc[q] \in {"polling", "timeout"} /\ polls[q] > 0 =>
            \A i \in Logged(Found(asks[q].id)) : i <= upto[q] => Time(i) <= asked[q]
      BY <2>1 DEF Sound
    <3> QED
      BY <2>2, <2>3, <3>1, <3>2 DEF Time
  <2>7. /\ pc'[q] = "timeout" => polls'[q] = Polls
        /\ pc'[q] \in {"new", "sending"} => polls'[q] = 0
    BY <2>1, <2>2 DEF Sound
  <2> QED
    BY <2>4, <2>5, <2>6, <2>7 DEF Sound, Time, Logged, Found, Matches
<1>7. History'
  <2>1. Requests \subseteq Sound'
    BY <1>6
  <2> QED
    BY <2>1 DEF History, StoredIsOld, AnswerIsNew, SeenIsOld, Counted, Sound
<1>8. current' # NoEvent => at'[current'] = "received"
  BY DEF Inv, OnlyRequest, groupVars
<1> QED
  BY <1>1, <1>5, <1>7, <1>8 DEF Inv

(* The group is looked up: the last event of a group is one of its events, *)
(* with the greatest time of them.                                         *)
LEMMA LastIsLast ==
  ASSUME Inv, NEW g, NEW i \in LastEvents(g)
  PROVE  /\ i \in Logged(g) /\ i \in 1..Len(log)
         /\ \A j \in Logged(g) : Time(j) <= Time(i)
BY DEF Inv, TypeOK, LastEvents, Logged

(* Times are times of the past.                                            *)
LEMMA TimesPast ==
  ASSUME Inv
  PROVE  now \in Nat /\ Len(log) \in Nat /\ \A i \in 1..Len(log) : Time(i) \in 0..now
<1>1. \A i \in 1..Len(log) : log[i] \in Inbound
  BY DEF Inv, TypeOK
<1> QED
  BY <1>1 DEF Inv, TypeOK, Time

(* A request is made: of a read, all that is stored has come before.       *)
LEMMA AskInv ==
  ASSUME Inv, NEW r \in Requests, Ask(r)
  PROVE  Inv'
<1>1. now \in Nat /\ Len(log) \in Nat /\ \A i \in 1..Len(log) : Time(i) \in 0..now
  BY TimesPast
<1>2. /\ pc[r] = "new" /\ asks' = asks /\ log' = log /\ stamp' = stamp
      /\ polls[r] = 0 /\ polls' = polls
  BY DEF Ask, Latest, NoLastEvent, recordVars, Inv, History, Counted
<1>3. /\ before'[r] = Len(log) /\ upto'[r] = Len(log)
      /\ {before', upto'} \subseteq [Requests -> Nat]
      /\ \A q \in Requests \ {r} : before'[q] = before[q] /\ upto'[q] = upto[q]
  BY <1>1 DEF Inv, TypeOK, Ask
<1>4. reply[r] \in 0..Len(log) /\ asked[r] \in 0..now /\ reply \in [Requests -> Nat]
      /\ pc \in [Requests -> {"new", "killed"} \cup Pending \cup Replied]
      /\ asked \in [Requests -> 0..now] /\ polls \in [Requests -> 0..Polls]
  BY <1>1 DEF Inv, TypeOK
<1>5. CASE asks[r].op = "read" /\ pc' = [pc EXCEPT ![r] = "sending"]
           /\ Clock /\ asked' = [asked EXCEPT ![r] = now'] /\ reply' = reply
  <2>1. /\ pc'[r] = "sending" /\ asked'[r] = now' /\ now' \in Nat /\ now <= now'
        /\ pc' \in [Requests -> {"new", "killed"} \cup Pending \cup Replied]
        /\ asked' \in [Requests -> 0..now'] /\ polls' \in [Requests -> 0..Polls]
        /\ polls'[r] = 0 /\ now' \in {now, now + 1}
    BY <1>1, <1>2, <1>4, <1>5 DEF Pending, Clock
  <2>2. OnlyRequest(r)
    BY <1>2, <1>3, <1>4, <1>5, <2>1 DEF OnlyRequest, Ask, readerVars, recordVars
  <2>3. \A i \in 1..before'[r] : Time(i)' <= asked'[r]
    BY <1>1, <1>2, <1>3, <2>1 DEF Time
  <2>4. r \in Sound'
    BY <2>1, <2>3 DEF Sound
  <2>5. /\ {before', upto', reply'} \subseteq [Requests -> Nat]
        /\ before'[r] \in 0..Len(log) /\ upto'[r] \in 0..Len(log) /\ reply'[r] \in 0..upto'[r]
    BY <1>1, <1>3, <1>4, <1>5
  <2> QED
    BY <2>1, <2>2, <2>4, <2>5, OneRequest
<1>6. CASE /\ asked' = asked /\ now' = now
           /\ \/ reply' = reply
              \/ \E i \in LastEvents(Found(asks[r].id)) : reply' = [reply EXCEPT ![r] = i]
           /\ \E how \in {"not found", "bad value", "sending", "error", "event"} :
                /\ pc' = [pc EXCEPT ![r] = how]
                /\ how \in {"sending", "event"} => asks[r].op # "read"
  <2>1. /\ pc' \in [Requests -> {"new", "killed"} \cup Pending \cup Replied]
        /\ asked' \in [Requests -> 0..now'] /\ polls' \in [Requests -> 0..Polls]
        /\ polls'[r] = 0 /\ now' \in {now, now + 1}
        /\ \A q \in Requests \ {r} : pc'[q] = pc[q]
        /\ pc'[r] \in {"not found", "bad value", "sending", "error", "event"}
        /\ pc'[r] \in {"sending", "event"} => asks[r].op # "read"
    BY <1>1, <1>2, <1>4, <1>6 DEF Pending, Replied
  <2>2. /\ reply' \in [Requests -> Nat] /\ reply'[r] \in 0..Len(log)
        /\ \A q \in Requests \ {r} : reply'[q] = reply[q]
    <3>1. CASE reply' = reply
      BY <1>4, <3>1
    <3>2. CASE \E i \in LastEvents(Found(asks[r].id)) : reply' = [reply EXCEPT ![r] = i]
      <4>1. PICK i \in LastEvents(Found(asks[r].id)) : reply' = [reply EXCEPT ![r] = i]
        BY <3>2
      <4>2. i \in 1..Len(log)
        BY LastIsLast
      <4> QED
        BY <1>1, <1>4, <4>1, <4>2
    <3> QED
      BY <1>6, <3>1, <3>2
  <2>3. OnlyRequest(r)
    BY <1>2, <1>3, <1>6, <2>1, <2>2 DEF OnlyRequest, Ask, readerVars, recordVars
  <2>4. ~Reading(r)'
    BY <1>2, <2>1 DEF Reading, Pending
  <2>5. r \in Sound'
    BY <1>2, <2>1, <2>4 DEF Sound
  <2>6. /\ {before', upto', reply'} \subseteq [Requests -> Nat]
        /\ before'[r] \in 0..Len(log) /\ upto'[r] \in 0..Len(log) /\ reply'[r] \in 0..upto'[r]
    BY <1>1, <1>3, <2>2
  <2> QED
    BY <2>1, <2>3, <2>5, <2>6, OneRequest
<1>7. asks[r].op = "read" \/ asks[r].op # "read"
  OBVIOUS
<1> QED
  BY <1>5, <1>6 DEF Ask, Answer, Latest, NoLastEvent

(* Its telegram is sent, or is not.                                        *)
LEMMA SentInv ==
  ASSUME Inv, NEW r \in Requests, Sent(r)
  PROVE  Inv'
<1>1. Len(log) \in Nat /\ r \in Sound
  BY TimesPast, HistoryIsSound DEF Inv
<1>2. /\ pc \in [Requests -> {"new", "killed"} \cup Pending \cup Replied]
      /\ asked \in [Requests -> 0..now] /\ polls \in [Requests -> 0..Polls]
      /\ {before, upto, reply} \subseteq [Requests -> Nat]
      /\ before[r] \in 0..Len(log) /\ upto[r] \in 0..Len(log) /\ reply[r] \in 0..upto[r]
  BY DEF Inv, TypeOK
<1>3. /\ asks' = asks /\ log' = log /\ stamp' = stamp /\ now' = now /\ asked' = asked
      /\ polls' = polls /\ reply' = reply /\ before' = before /\ upto' = upto
      /\ pc[r] = "sending" /\ pc'[r] \in {"polling", "success", "no answer"}
      /\ \A q \in Requests \ {r} : pc'[q] = pc[q]
      /\ pc' \in [Requests -> {"new", "killed"} \cup Pending \cup Replied]
  BY <1>2 DEF Sent, Answer, recordVars, Pending, Replied
<1>4. OnlyRequest(r)
  BY <1>3 DEF OnlyRequest, Sent, readerVars
<1>5. polls'[r] = 0
  BY <1>1, <1>3 DEF Sound
<1>6. r \in Sound'
  <2>1. Reading(r)' => \A i \in 1..before'[r] : Time(i)' <= asked'[r]
    BY <1>1, <1>3 DEF Sound, Reading, Pending, Time
  <2>2. pc'[r] # "event" /\ pc'[r] # "timeout" /\ pc'[r] # "new" /\ pc'[r] # "sending"
    BY <1>3
  <2> QED
    BY <1>5, <2>1, <2>2 DEF Sound, Reading, Time
<1> QED
  BY <1>2, <1>3, <1>4, <1>6, OneRequest

(* It looks for an answer: it takes the last event, which is new because   *)
(* all that was stored when it came is old, or finds none after it.        *)
LEMMA PollInv ==
  ASSUME Inv, NEW r \in Requests, Poll(r)
  PROVE  Inv'
<1>1. /\ Len(log) \in Nat /\ now \in Nat /\ r \in Sound
      /\ \A i \in 1..Len(log) : Time(i) \in 0..now
  BY TimesPast, HistoryIsSound DEF Inv
<1>2. /\ pc \in [Requests -> {"new", "killed"} \cup Pending \cup Replied]
      /\ asked \in [Requests -> 0..now] /\ polls \in [Requests -> 0..Polls]
      /\ {before, upto, reply} \subseteq [Requests -> Nat] /\ asked[r] \in 0..now
      /\ before[r] \in 0..Len(log) /\ upto[r] \in 0..Len(log) /\ reply[r] \in 0..upto[r]
      /\ polls[r] \in 0..Polls /\ Polls \in Nat
  BY ServiceAssumption DEF Inv, TypeOK
<1>3. /\ asks' = asks /\ log' = log /\ stamp' = stamp /\ now' = now /\ asked' = asked
      /\ before' = before /\ upto'[r] = Len(log) /\ pc[r] = "polling" /\ polls[r] < Polls
      /\ upto' \in [Requests -> Nat] /\ reply[r] \in 0..upto'[r]
      /\ \A q \in Requests \ {r} : upto'[q] = upto[q]
      /\ UNCHANGED groupVars /\ UNCHANGED <<program, run, stage, current>>
  BY <1>1, <1>2 DEF Poll, recordVars, readerVars
<1> DEFINE L == LastEvents(Found(asks[r].id))
<1>4. CASE Answer(r, "error") /\ UNCHANGED <<polls, reply>>
  <2>1. /\ pc'[r] = "error" /\ \A q \in Requests \ {r} : pc'[q] = pc[q]
        /\ pc' \in [Requests -> {"new", "killed"} \cup Pending \cup Replied]
    BY <1>2, <1>4 DEF Answer, Replied
  <2>2. OnlyRequest(r)
    BY <1>3, <1>4, <2>1 DEF OnlyRequest
  <2>3. r \in Sound'
    BY <2>1 DEF Sound, Reading, Pending
  <2> QED
    <3>1. /\ {before', upto', reply'} \subseteq [Requests -> Nat]
          /\ before'[r] \in 0..Len(log) /\ upto'[r] \in 0..Len(log) /\ reply'[r] \in 0..upto'[r]
      BY <1>1, <1>2, <1>3, <1>4
    <3>2. polls' = polls /\ asked' = asked /\ now' = now
      BY <1>3, <1>4
    <3> QED
      BY <1>2, <2>1, <2>2, <2>3, <3>1, <3>2, OneRequest
<1>5. CASE \E i \in L : After(i, asked[r]) /\ Answer(r, "event")
                        /\ reply' = [reply EXCEPT ![r] = i] /\ UNCHANGED polls
  <2>1. PICK i \in L : After(i, asked[r]) /\ Answer(r, "event")
                       /\ reply' = [reply EXCEPT ![r] = i] /\ UNCHANGED polls
    BY <1>5
  <2>2. i \in Logged(Found(asks[r].id)) /\ i \in 1..Len(log) /\ Time(i) > asked[r]
    BY <2>1, LastIsLast DEF After
  <2>3. /\ pc'[r] = "event" /\ reply'[r] = i /\ reply' \in [Requests -> Nat]
        /\ \A q \in Requests \ {r} : pc'[q] = pc[q] /\ reply'[q] = reply[q]
        /\ pc' \in [Requests -> {"new", "killed"} \cup Pending \cup Replied]
    <3>1. reply' = [reply EXCEPT ![r] = i] /\ reply \in [Requests -> Nat] /\ i \in Nat
      BY <1>1, <1>2, <2>1, <2>2
    <3>2. pc' = [pc EXCEPT ![r] = "event"] /\ "event" \in Replied
      BY <2>1 DEF Answer, Replied
    <3>3. /\ reply'[r] = i /\ reply' \in [Requests -> Nat]
          /\ \A q \in Requests \ {r} : reply'[q] = reply[q]
      BY <3>1
    <3>4. /\ pc'[r] = "event" /\ \A q \in Requests \ {r} : pc'[q] = pc[q]
          /\ pc' \in [Requests -> {"new", "killed"} \cup Pending \cup Replied]
      BY <1>2, <3>2
    <3> QED
      BY <3>3, <3>4
  <2>4. OnlyRequest(r)
    BY <1>3, <2>1, <2>3 DEF OnlyRequest
  <2>5. asks[r].op = "read" => i > before[r]
    <3>1. asks[r].op = "read" => \A j \in 1..before[r] : Time(j) <= asked[r]
      BY <1>1, <1>3 DEF Sound, Reading, Pending
    <3>2. i \in Nat /\ before[r] \in Nat /\ 1 <= i
      BY <1>1, <1>2, <2>2
    <3>3. Time(i) \in Int /\ asked[r] \in Int /\ ~(Time(i) <= asked[r])
      BY <1>1, <1>2, <2>2
    <3>4. asks[r].op = "read" => ~(i \in 1..before[r])
      BY <3>1, <3>3
    <3> QED
      BY <3>2, <3>4
  <2>6. r \in Sound'
    <3>1. (i \in Logged(Found(asks[r].id)))'
      BY <1>3, <2>2 DEF Logged, Found, Matches
    <3> QED
      BY <1>3, <2>3, <2>5, <3>1 DEF Sound, Reading, Pending
  <2> QED
    <3>1. /\ {before', upto', reply'} \subseteq [Requests -> Nat]
          /\ before'[r] \in 0..Len(log) /\ upto'[r] \in 0..Len(log) /\ reply'[r] \in 0..upto'[r]
      BY <1>1, <1>2, <1>3, <2>2, <2>3
    <3>2. polls' = polls /\ asked' = asked /\ now' = now
      BY <1>3, <2>1
    <3> QED
      BY <1>2, <2>3, <2>4, <2>6, <3>1, <3>2, OneRequest
<1>6. CASE \E i \in L : ~After(i, asked[r]) /\ Looked(r) /\ UNCHANGED <<pc, reply>>
  <2>1. PICK i \in L : ~After(i, asked[r]) /\ Looked(r) /\ UNCHANGED <<pc, reply>>
    BY <1>6
  <2>2. \A j \in Logged(Found(asks[r].id)) : Time(j) <= asked[r]
    <3>1. i \in 1..Len(log) /\ \A j \in Logged(Found(asks[r].id)) : Time(j) <= Time(i)
      BY LastIsLast
    <3>2. Logged(Found(asks[r].id)) \subseteq 1..Len(log)
      BY DEF Logged, Inv, TypeOK
    <3> QED
      BY <1>1, <1>2, <2>1, <3>1, <3>2 DEF After
  <2>3. /\ polls'[r] = polls[r] + 1 /\ polls' \in [Requests -> 0..Polls]
        /\ \A q \in Requests \ {r} : polls'[q] = polls[q]
    BY <1>2, <1>3, <2>1 DEF Looked
  <2>4. OnlyRequest(r)
    BY <1>3, <2>1, <2>3 DEF OnlyRequest
  <2>5. \A j \in Logged(Found(asks[r].id))' : Time(j)' <= asked'[r]
    BY <1>3, <2>2 DEF Logged, Found, Matches, Time
  <2>6. Reading(r)' => \A j \in 1..before'[r] : Time(j)' <= asked'[r]
    BY <1>1, <1>3, <2>1 DEF Sound, Reading, Pending, Time
  <2>7. pc'[r] = "polling"
    BY <1>3, <2>1
  <2>8. r \in Sound'
    BY <2>5, <2>6, <2>7 DEF Sound, Time, Reading
  <2> QED
    <3>1. /\ {before', upto', reply'} \subseteq [Requests -> Nat]
          /\ before'[r] \in 0..Len(log) /\ upto'[r] \in 0..Len(log) /\ reply'[r] \in 0..upto'[r]
      BY <1>1, <1>2, <1>3, <2>1
    <3>2. pc' = pc /\ asked' = asked /\ now' = now
      BY <1>3, <2>1
    <3> QED
      BY <1>2, <2>3, <2>4, <2>8, <3>1, <3>2, OneRequest
<1> QED
  BY <1>4, <1>5, <1>6 DEF Poll, NoLastEvent

(* It has looked as often as it may.                                       *)
LEMMA TimesOutInv ==
  ASSUME Inv, NEW r \in Requests, TimesOut(r)
  PROVE  Inv'
<1>1. Len(log) \in Nat /\ r \in Sound
  BY TimesPast, HistoryIsSound DEF Inv
<1>2. /\ pc \in [Requests -> {"new", "killed"} \cup Pending \cup Replied]
      /\ asked \in [Requests -> 0..now] /\ polls \in [Requests -> 0..Polls]
      /\ {before, upto, reply} \subseteq [Requests -> Nat]
      /\ before[r] \in 0..Len(log) /\ upto[r] \in 0..Len(log) /\ reply[r] \in 0..upto[r]
  BY DEF Inv, TypeOK
<1>3. /\ asks' = asks /\ log' = log /\ stamp' = stamp /\ now' = now /\ asked' = asked
      /\ polls' = polls /\ reply' = reply /\ before' = before /\ upto' = upto
      /\ pc[r] = "polling" /\ polls[r] = Polls /\ pc'[r] = "timeout"
      /\ \A q \in Requests \ {r} : pc'[q] = pc[q]
      /\ pc' \in [Requests -> {"new", "killed"} \cup Pending \cup Replied]
      /\ UNCHANGED groupVars /\ UNCHANGED <<program, run, stage, current>>
  BY <1>2 DEF TimesOut, Answer, recordVars, readerVars, Replied
<1>4. OnlyRequest(r)
  BY <1>3 DEF OnlyRequest
<1>5. \A j \in Logged(Found(asks[r].id))' : j <= upto'[r] => Time(j)' <= asked'[r]
  <2>1. \A j \in Logged(Found(asks[r].id)) : j <= upto[r] => Time(j) <= asked[r]
    BY <1>1, <1>3, ServiceAssumption DEF Sound
  <2> QED
    BY <1>3, <2>1 DEF Logged, Found, Matches, Time
<1>6. r \in Sound'
  BY <1>3, <1>5 DEF Sound, Reading, Pending, Time
<1> QED
  BY <1>2, <1>3, <1>4, <1>6, OneRequest

(* The process exits: who has not been answered never will.                *)
LEMMA ExitInv ==
  ASSUME Inv, Exit
  PROVE  Inv'
<1>1. /\ UNCHANGED groupVars /\ UNCHANGED recordVars
      /\ UNCHANGED <<program, now, asks, asked, polls, reply, before, upto>>
      /\ run' = "exited" /\ stage' = "gone" /\ current' = NoEvent
  BY DEF Exit
<1>2. pc' \in [Requests -> {"new", "killed"} \cup Pending \cup Replied]
      /\ \A q \in Requests : pc'[q] \notin Pending /\ (pc'[q] = pc[q] \/ pc'[q] = "killed")
  BY DEF Exit, Inv, TypeOK, Pending
<1>3. TypeOK' /\ HeldOnce'
  BY <1>1, <1>2 DEF Inv, TypeOK, GroupTypeOK, HeldOnce, groupVars, recordVars, Returned
<1>4. ASSUME NEW q \in Requests PROVE q \in Sound'
  <2>1. q \in Sound
    BY HistoryIsSound DEF Inv
  <2>2. CASE pc'[q] = "killed"
    BY <2>2 DEF Sound, Reading, Pending
  <2>3. CASE pc'[q] = pc[q] /\ pc'[q] \notin Pending
    <3>1. Logged(Found(asks[q].id))' = Logged(Found(asks[q].id))
      BY <1>1 DEF Logged, Found, Matches, recordVars
    <3> QED
      BY <1>1, <2>1, <2>3, <3>1 DEF Sound, Reading, Time, recordVars
  <2> QED
    BY <1>2, <2>2, <2>3
<1>5. History'
  <2>1. Requests \subseteq Sound'
    BY <1>4
  <2> QED
    BY <2>1 DEF History, StoredIsOld, AnswerIsNew, SeenIsOld, Counted, Sound
<1> QED
  BY <1>1, <1>3, <1>5 DEF Inv
-----------------------------------------------------------------------------
(* Every step keeps the invariant.                                         *)
THEOREM StepInv == Inv /\ [Next]_vars => Inv'
<1> SUFFICES ASSUME Inv, [Next]_vars PROVE Inv'
  OBVIOUS
<1>1. CASE (\E e \in Inbound : Push(e) \/ Take(e)) /\ Around
  BY <1>1, WorkerInv
<1>2. CASE (ClientEnds \/ WorkerEnds) /\ Around
  BY <1>2, WorkerInv
<1>3. CASE Listen
  BY <1>3, RecordInv, StoreInv, EndInv DEF Listen
<1>4. CASE Command
  BY <1>4, CommandInv
<1>5. CASE Signal
  BY <1>5, EndInv
<1>6. CASE Exit
  BY <1>6, ExitInv
<1>7. ASSUME NEW r \in Requests, Ask(r) \/ Handle(r) PROVE Inv'
  BY <1>7, AskInv, SentInv, PollInv, TimesOutInv DEF Handle
<1>8. CASE UNCHANGED vars
  <2>1. UNCHANGED <<program, run, stage, current, now>> /\ UNCHANGED requestVars
        /\ UNCHANGED groupVars /\ UNCHANGED recordVars
    BY <1>8 DEF vars, readerVars
  <2>2. Keeps
    BY <2>1, KeepsAll DEF Inv, recordVars
  <2>3. /\ GroupTypeOK' /\ HeldOnce'
        /\ log' \in Seq({e \in Inbound : at'[e] = "received"})
    BY <2>1 DEF Inv, TypeOK, GroupTypeOK, HeldOnce, groupVars, recordVars
  <2>4. /\ run' \in {"up", "stopping", "exited"} /\ stamp' \in [Inbound -> 0..now']
        /\ stage' \in {"receiving", "storing", "draining", "sending", "waiting"} \cup Returned
        /\ current' \in Inbound \cup {NoEvent} /\ (current' # NoEvent) = (stage' = "storing")
        /\ (current' # NoEvent => at'[current'] = "received")
    BY <2>1 DEF Inv, TypeOK, groupVars, recordVars
  <2> QED
    BY <2>1, <2>2, <2>3, <2>4, Quiet
<1> QED
  BY <1>1, <1>2, <1>3, <1>4, <1>5, <1>6, <1>7, <1>8 DEF Next, Taking, Ending

(* The variables of the worker, the reader, the store and the requests     *)
(* have their types, for any programs, groups and requests.                *)
THEOREM TypeCorrect == Spec => []TypeOK
<1>1. Inv => TypeOK
  BY DEF Inv
<1> QED
  BY <1>1, InitInv, StepInv, PTL DEF Spec

(* A read of the API is answered with an event of the group that was       *)
(* stored after the request came (handleGroupRead).                        *)
THEOREM AnswerIsNewCorrect == Spec => []AnswerIsNew
<1>1. Inv => AnswerIsNew
  BY DEF Inv, History
<1> QED
  BY <1>1, InitInv, StepInv, PTL DEF Spec

(* A read that timed out has overlooked no event of the group: those in    *)
(* the store at its last look had come before the request.                 *)
THEOREM TimeoutIsSilenceCorrect == Spec => []TimeoutIsSilence
<1>1. Inv => TimeoutIsSilence
  BY ServiceAssumption DEF Inv, History, Counted, SeenIsOld, TimeoutIsSilence
<1> QED
  BY <1>1, InitInv, StepInv, PTL DEF Spec
=============================================================================
