------------------------------ MODULE Service ------------------------------
(***************************************************************************)
(* The programs that read group events (GroupClient.tla):                  *)
(*                                                                         *)
(*   "serve"         the HTTP API of api/: the goroutine of api.listen     *)
(*                   stores events, and a goroutine per request sends to   *)
(*                   the bus or looks into the store;                      *)
(*   "listen"        knxctl listen, which only stores;                     *)
(*   "read", "send"  the commands of knxctl that wait for an answer        *)
(*                   themselves.                                           *)
(*                                                                         *)
(* The database of pgknx is external: a log that grows, whose operations   *)
(* may fail.  The tunnel's Send returns, with or without an error.         *)
(***************************************************************************)
EXTENDS GroupClient

CONSTANTS
  Programs,   \* which of the programs above
  Groups,     \* the catalog: a sequence of [name, text, address]
  Requests,   \* HTTP requests, each made once
  Questions,  \* what a request may ask: [op, id, valid]
  Target,     \* destination of the commands read and send
  Polls,      \* times handleGroupRead looks for an answer (10)
  MayFail     \* "send", "store": what may return an error

ASSUME ServiceAssumption ==
  /\ Programs \subseteq {"serve", "listen", "read", "send"}
  /\ Polls \in Nat \ {0}
  /\ MayFail \subseteq {"send", "store"}

NoEvent == "no event"
ASSUME NoEventAssumption == NoEvent \notin Inbound

VARIABLES
  program,    \* which program runs
  run,        \* up, stopping after a signal, or the process has exited
  stage,      \* where the reader of group events is, or how it returned
  current,    \* the event it is about to store
  stamp,      \* stamp[e]: the Timestamp given to e when it was received
  log,        \* the store: its events, in the order of their creation
  now,        \* the clock
  asks,       \* asks[r]: what the request r asks
  pc,         \* pc[r]: where the request r is, or how it was answered
  asked,      \* asked[r]: handleGroupRead's t
  polls,      \* polls[r]: how often it has looked
  reply,      \* reply[r]: the position in log of the event it answers with
  before,     \* history: the length of log when the request was made
  upto        \* history: the length of log when the request looked last

readerVars  == <<stage, current>>
recordVars  == <<stamp, log>>
requestVars == <<asks, pc, asked, polls, reply, before, upto>>
vars == <<groupVars, program, run, readerVars, recordVars, now, requestVars>>

Storing  == program \in {"serve", "listen"}
Pending  == {"sending", "polling"}
Replied  == {"not found", "bad value", "no answer", "success", "event", "error", "timeout"}
Returned == {"gone", "done", "timed out", "failed"}

TypeOK ==
  /\ GroupTypeOK
  /\ program \in Programs /\ run \in {"up", "stopping", "exited"}
  /\ stage \in {"receiving", "storing", "draining", "sending", "waiting"} \cup Returned
  /\ current \in Inbound \cup {NoEvent} /\ (current # NoEvent) = (stage = "storing")
  /\ now \in Nat /\ stamp \in [Inbound -> 0..now]
  /\ log \in Seq({e \in Inbound : at[e] = "received"})
  /\ asks \in [Requests -> Questions]
  /\ pc \in [Requests -> {"new", "killed"} \cup Pending \cup Replied]
  /\ asked \in [Requests -> 0..now] /\ polls \in [Requests -> 0..Polls]
  /\ {before, upto, reply} \subseteq [Requests -> Nat]
  /\ \A r \in Requests : /\ before[r] \in 0..Len(log) /\ upto[r] \in 0..Len(log)
                         /\ reply[r] \in 0..upto[r]

Start == [serve |-> "receiving", listen |-> "receiving", read |-> "draining", send |-> "sending"]

Init ==
  /\ GroupInit
  /\ program \in Programs /\ run = "up" /\ stage = Start[program] /\ current = NoEvent
  /\ stamp = [e \in Inbound |-> 0] /\ log = <<>> /\ now = 0
  /\ asks \in [Requests -> Questions]
  /\ pc = [r \in Requests |-> "new"] /\ asked = [r \in Requests |-> 0]
  /\ polls = asked /\ reply = asked /\ before = asked /\ upto = asked

(* time.Now(): the time does not run backwards, and may be what it was.    *)
Clock == now' \in {now, now + 1}
-----------------------------------------------------------------------------
(* api.listen, and listen of knxctl.                                       *)

(* An event is received and given its time (eventFromDetails).             *)
Record(e) ==
  /\ Storing /\ stage = "receiving" /\ Receive(e)
  /\ Clock /\ stamp' = [stamp EXCEPT ![e] = now']
  /\ stage' = "storing" /\ current' = e
  /\ UNCHANGED <<program, run, log, requestVars>>

(* Mutant: an error of the store ends the loop.                            *)
AfterError_return == "gone"

(* CreateEvent's error is only reported.                                   *)
AfterError == "receiving"

StoreMayFail == "store" \in MayFail \/ run = "stopping"

Store ==
  /\ stage = "storing" /\ current' = NoEvent
  /\ \/ log' = Append(log, current) /\ stage' = "receiving"
     \/ StoreMayFail /\ stage' = AfterError /\ UNCHANGED log
  /\ UNCHANGED <<groupVars, program, run, stamp, now, requestVars>>

(* The channel is closed, or the context is done: the API goes on without  *)
(* a listener, knxctl listen returns with an error.                        *)
ListenEnds ==
  /\ Storing /\ stage = "receiving"
  /\ InboundClosed \/ (program = "serve" /\ run = "stopping")
  /\ stage' = "gone"
  /\ UNCHANGED <<groupVars, program, run, current, recordVars, now, requestVars>>

Listen == (\E e \in Inbound : Record(e)) \/ Store \/ ListenEnds
-----------------------------------------------------------------------------
(* The requests of api/v1.go.                                              *)

(* The handlers take the last group with that name or address.             *)
Matches(id) == {i \in DOMAIN Groups : id \in {Groups[i].name, Groups[i].text}}
Found(id) == Groups[CHOOSE i \in Matches(id) : \A j \in Matches(id) : j <= i]

(* The stored events of a group: those with its address when they came.    *)
Logged(group) == {i \in DOMAIN log : Frame(log[i]).destination = group.address}
Time(i) == stamp[log[i]]

(* Mutant: GroupLastEvent gives the first event.                           *)
LastEvents_first(group) ==
  {i \in Logged(group) : \A j \in Logged(group) : Time(i) <= Time(j)}

(* GroupLastEvent: any of those with the greatest time.                    *)
LastEvents(group) ==
  {i \in Logged(group) : \A j \in Logged(group) : Time(j) <= Time(i)}

Answer(r, how) == pc' = [pc EXCEPT ![r] = how]

(* The error of a group without events, and of the store.                  *)
NoLastEvent(r) ==
  /\ LastEvents(Found(asks[r].id)) = {} \/ StoreMayFail
  /\ Answer(r, "error") /\ UNCHANGED <<polls, reply>>

Latest(r) ==
  \/ NoLastEvent(r)
  \/ \E i \in LastEvents(Found(asks[r].id)) :
        Answer(r, "event") /\ reply' = [reply EXCEPT ![r] = i] /\ UNCHANGED polls

(* A request up to its Send or its answer: the group, the time a read      *)
(* starts at, the value a write encodes.                                   *)
Ask(r) ==
  /\ program = "serve" /\ run = "up" /\ pc[r] = "new"
  /\ before' = [before EXCEPT ![r] = Len(log)] /\ upto' = [upto EXCEPT ![r] = Len(log)]
  /\ IF Matches(asks[r].id) = {}
     THEN Answer(r, "not found") /\ UNCHANGED <<asked, polls, reply, now>>
     ELSE \/ /\ asks[r].op = "read" /\ Answer(r, "sending")
             /\ Clock /\ asked' = [asked EXCEPT ![r] = now'] /\ UNCHANGED <<polls, reply>>
          \/ /\ asks[r].op = "write" /\ Answer(r, IF asks[r].valid THEN "sending" ELSE "bad value")
             /\ UNCHANGED <<asked, polls, reply, now>>
          \/ asks[r].op = "latest" /\ Latest(r) /\ UNCHANGED <<asked, now>>
  /\ UNCHANGED <<groupVars, program, run, readerVars, recordVars, asks>>

SendMayFail == "send" \in MayFail \/ ~clientUp

(* The tunnel's Send returns.  Of an error the client is told nothing.     *)
Sent(r) ==
  /\ pc[r] = "sending"
  /\ \/ clientUp /\ Answer(r, IF asks[r].op = "read" THEN "polling" ELSE "success")
     \/ SendMayFail /\ Answer(r, "no answer")
  /\ UNCHANGED <<groupVars, program, run, readerVars, recordVars, now,
                 asks, asked, polls, reply, before, upto>>

(* Mutant: an event of the same time is taken for the answer.              *)
After_notBefore(i, t) == Time(i) >= t

After(i, t) == Time(i) > t

(* Mutant: the count starts again with the last look.                      *)
Looked_again(r) == polls' = [polls EXCEPT ![r] = (@ + 1) % Polls]

Looked(r) == polls' = [polls EXCEPT ![r] = @ + 1]

(* A second later: the last event is the answer if it is after the         *)
(* request, whatever it is; after the last look the request times out.     *)
Poll(r) ==
  /\ pc[r] = "polling" /\ polls[r] < Polls /\ upto' = [upto EXCEPT ![r] = Len(log)]
  /\ \/ NoLastEvent(r)
     \/ \E i \in LastEvents(Found(asks[r].id)) :
          IF After(i, asked[r])
          THEN Answer(r, "event") /\ reply' = [reply EXCEPT ![r] = i] /\ UNCHANGED polls
          ELSE Looked(r) /\ UNCHANGED <<pc, reply>>
  /\ UNCHANGED <<groupVars, program, run, readerVars, recordVars, now,
                 asks, asked, before>>

TimesOut(r) ==
  /\ pc[r] = "polling" /\ polls[r] = Polls /\ Answer(r, "timeout")
  /\ UNCHANGED <<groupVars, program, run, readerVars, recordVars, now,
                 asks, asked, polls, reply, before, upto>>

Handle(r) == Sent(r) \/ Poll(r) \/ TimesOut(r)
-----------------------------------------------------------------------------
(* The commands read and send of knxctl.                                   *)

CommandAt(s) == program \in {"read", "send"} /\ stage = s
StageOnly == UNCHANGED <<program, run, current, recordVars, now, requestVars>>

(* drainInbound takes what is waiting.  From a closed channel it receives  *)
(* for ever, a loop without a step here.                                   *)
Drain(e) == CommandAt("draining") /\ Receive(e) /\ UNCHANGED stage /\ StageOnly

(* Mutant: it stops at a closed channel only.                              *)
Empty_closed == InboundClosed

Empty == NothingToReceive

Drained ==
  /\ CommandAt("draining") /\ Empty /\ stage' = "sending"
  /\ UNCHANGED groupVars /\ StageOnly

(* Send, after which the command is done unless it waits for a response.   *)
CommandSent ==
  /\ CommandAt("sending")
  /\ \/ clientUp /\ stage' \in {"waiting", "done"}
     \/ SendMayFail /\ stage' = "failed"
  /\ UNCHANGED groupVars /\ StageOnly

(* The response: what comes for the group, and is not a read if the        *)
(* command is one.                                                         *)
IsResponse(m) ==
  m.destination = Target /\ (program = "read" => m.unit.command # GroupRead)

Await(e) ==
  /\ CommandAt("waiting") /\ Receive(e)
  /\ stage' = IF IsResponse(Frame(e)) THEN "done" ELSE "waiting"
  /\ StageOnly

AwaitEnds ==
  /\ CommandAt("waiting")
  /\ stage' = "timed out" \/ (InboundClosed /\ stage' = "failed")
  /\ UNCHANGED groupVars /\ StageOnly

Command ==
  (\E e \in Inbound : Drain(e) \/ Await(e)) \/ Drained \/ CommandSent \/ AwaitEnds
-----------------------------------------------------------------------------
(* A signal ends the API's context.  ListenAndServe returns when Shutdown  *)
(* is called, and Run and the process with it, also in the middle of a     *)
(* request.                                                                *)
Signal ==
  /\ program = "serve" /\ run = "up" /\ run' = "stopping"
  /\ UNCHANGED <<groupVars, program, readerVars, recordVars, now, requestVars>>

Exit ==
  /\ run = "stopping" /\ run' = "exited"
  /\ stage' = "gone" /\ current' = NoEvent
  /\ pc' = [r \in Requests |-> IF pc[r] \in Pending THEN "killed" ELSE pc[r]]
  /\ UNCHANGED <<groupVars, program, recordVars, now,
                 asks, asked, polls, reply, before, upto>>

Around ==
  /\ run # "exited"
  /\ UNCHANGED <<program, run, readerVars, recordVars, now, requestVars>>

Taking == (\E e \in Inbound : Take(e)) /\ Around
Ending == WorkerEnds /\ Around

Next ==
  \/ (\E e \in Inbound : Push(e)) /\ Around
  \/ ClientEnds /\ Around
  \/ Taking \/ Ending \/ Listen \/ Command \/ Signal \/ Exit
  \/ \E r \in Requests : Ask(r) \/ Handle(r)

(* Goroutines that can run do, and timers expire.  Nothing is assumed of   *)
(* the network, the requests or the signal.                                *)
Fairness ==
  /\ WF_vars(Taking) /\ WF_vars(Ending) /\ WF_vars(Listen) /\ WF_vars(Command)
  /\ WF_vars(Exit) /\ \A r \in Requests : WF_vars(Handle(r))

Spec == Init /\ [][Next]_vars /\ Fairness
-----------------------------------------------------------------------------
(* The answer of a read is an event of the group that was stored after the *)
(* request came, although it is recognised by its time only, which it was  *)
(* given before it was stored and without regard of requests               *)
(* (handleGroupRead, v1.go:326).                                           *)
AnswerIsNew ==
  \A r \in Requests : pc[r] = "event" /\ asks[r].op = "read" =>
     reply[r] > before[r] /\ reply[r] \in Logged(Found(asks[r].id))

(* A read that timed out has overlooked nothing: when it looked for the    *)
(* last time no event of the group was in the store that had come after    *)
(* the request (v1.go:330).                                                *)
TimeoutIsSilence ==
  \A r \in Requests : pc[r] = "timeout" =>
     \A i \in Logged(Found(asks[r].id)) : i <= upto[r] => Time(i) <= asked[r]

(* Every group event the client has taken reaches the store, which may     *)
(* refuse it; only the end of the tunnel or of the process loses one       *)
(* (api.listen, which an error of the store does not end).                 *)
EventsRecorded ==
  \A e \in Inbound :
     Storing /\ IsGroupEvent(Frame(e)) /\ at[e] = "pushed" ~>
        (at[e] = "received" /\ current # e) \/ at[e] = "lost" \/ run # "up"

(* Every HTTP request is answered, unless the process ends before          *)
(* (handleGroupRead, v1.go:314).                                           *)
RequestsReturn ==
  \A r \in Requests : pc[r] \in Pending ~> pc[r] \in Replied \cup {"killed"}

(* The commands read and send return, whatever arrives and whether or not  *)
(* the tunnel ends, but for the loop of drainInbound over a channel that   *)
(* is closed before the command has drained it (read.go:137).              *)
CommandReturns ==
  program \in {"read", "send"} =>
     <>(stage \in Returned \/ (stage = "draining" /\ InboundClosed))
=============================================================================
