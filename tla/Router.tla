------------------------------- MODULE Router -------------------------------
(***************************************************************************)
(* The KNXnet/IP router client of knx/router.go.                           *)
(*                                                                         *)
(*   - one goroutine per call of Send; a message stands for one such call  *)
(*     (Messages, pc);                                                     *)
(*   - one goroutine per routing-lost indication, that runs sendMultiple   *)
(*     over the messages taken from the retainer (batches);                *)
(*   - the server goroutine (srv), the goroutines of pushInbound (pushers) *)
(*     and those that will unlock sendMu (unlockers): the goroutine that   *)
(*     pauses after a send, the timer of the inhibition a busy router asks *)
(*     for.  A Go mutex has no owner, and unlocking a free one is fatal.   *)
(***************************************************************************)
EXTENDS Naturals, Sequences, Bags, BagsExt

CONSTANTS
  Messages,     \* messages given to Send, one call each
  Telegrams,    \* payloads of routing indications
  RetainCount,  \* RouterConfig.RetainCount, as checkRouterConfig leaves it
  SendMayFail,  \* a write to the socket may return an error
  MaxLost,      \* bound: routing-lost indications
  MaxCount,     \* bound: messages one of them reports
  MaxTelegrams  \* bound: payloads received or still blocked in pushInbound

ASSUME RouterAssumption ==
  /\ RetainCount \in Nat \ {0}
  /\ SendMayFail \in BOOLEAN
  /\ MaxCount \in Nat

VARIABLES
  sendMu,     \* Router.sendMu: free or held
  unlockers,  \* unlockers[u]: how many goroutines or timers will still unlock it
  retainer,   \* Router.retainer, oldest first
  pc,         \* pc[m]: where the call of Send for m is, or how it returned
  batches,    \* batches[i]: what the i-th sendMultiple still has to send
  srv,        \* where the server goroutine is
  lostCount,  \* argument of the resendLost in progress
  wire,       \* messages the socket has transmitted, in order
  pushers,    \* bag of payloads blocked in pushInbound's goroutines
  delivered,  \* payloads received from Router.Inbound()
  closed,     \* Close was called
  sockUp      \* the socket's inbound channel is open

appVars == <<pushers, delivered>>
endVars == <<closed, sockUp>>
vars == <<sendMu, unlockers, retainer, pc, batches, srv, lostCount, wire, appVars, endVars>>

Unlockers == {"pause", "timer"}

TypeOK ==
  /\ sendMu \in {"free", "held"} /\ unlockers \in [Unlockers -> Nat]
  /\ retainer \in Seq(Messages)
  /\ pc \in [Messages -> {"new", "locking", "ok", "failed"}]
  /\ batches \in Seq(Seq(Messages))
  /\ srv \in {"reading", "busy", "lost", "exited"}
  /\ lostCount \in 0..MaxCount
  /\ wire \in Seq(Messages)
  /\ BagToSet(pushers) \subseteq Telegrams /\ delivered \in Seq(Telegrams)
  /\ closed \in BOOLEAN /\ sockUp \in BOOLEAN

(* NewRouter.                                                              *)
Init ==
  /\ sendMu = "free" /\ unlockers = [u \in Unlockers |-> 0] /\ retainer = <<>>
  /\ pc = [m \in Messages |-> "new"] /\ batches = <<>>
  /\ srv = "reading" /\ lostCount = 0 /\ wire = <<>>
  /\ pushers = EmptyBag /\ delivered = <<>>
  /\ closed = FALSE /\ sockUp = TRUE
-----------------------------------------------------------------------------
(* Send.                                                                   *)

(* Mutant: the newest messages go.                                         *)
Trimmed_newest(s) == IF Len(s) > RetainCount THEN SubSeq(s, 1, RetainCount) ELSE s

(* The retainer without its overhead: the oldest messages go.              *)
Trimmed(s) ==
  IF Len(s) > RetainCount THEN SubSeq(s, Len(s) - RetainCount + 1, Len(s)) ELSE s

(* sock.Send, with the lock held: a message that was sent is retained, one *)
(* that was not is not.  The lock is given back by a goroutine of its own, *)
(* after the pause, also when Send has returned.                           *)
Transmitted(m) == wire' = Append(wire, m) /\ retainer' = Trimmed(Append(retainer, m))
SendFails      == (SendMayFail \/ closed) /\ UNCHANGED <<wire, retainer>>

(* The lock is taken, and u will give it back.                             *)
Locked(u) == sendMu' = "held" /\ unlockers' = [unlockers EXCEPT ![u] = @ + 1]

(* Mutant: a resent message does not wait for the lock.                    *)
BatchLockFree_always == TRUE

BatchLockFree == sendMu = "free"

Call(m) ==
  /\ pc[m] = "new" /\ pc' = [pc EXCEPT ![m] = "locking"]
  /\ UNCHANGED <<sendMu, unlockers, retainer, batches, srv, lostCount, wire, appVars, endVars>>

Send(m) ==
  /\ pc[m] = "locking" /\ sendMu = "free" /\ Locked("pause")
  /\ \/ ~closed /\ Transmitted(m) /\ pc' = [pc EXCEPT ![m] = "ok"]
     \/ SendFails /\ pc' = [pc EXCEPT ![m] = "failed"]
  /\ UNCHANGED <<batches, srv, lostCount, appVars, endVars>>

(* The next Send of the i-th sendMultiple; its error is ignored.           *)
BatchSend(i) ==
  /\ batches[i] # <<>> /\ BatchLockFree /\ Locked("pause")
  /\ \/ ~closed /\ Transmitted(Head(batches[i]))
     \/ SendFails
  /\ batches' = [batches EXCEPT ![i] = Tail(@)]
  /\ UNCHANGED <<pc, srv, lostCount, appVars, endVars>>

(* Mutant: the timer of an inhibition never unlocks.                       *)
Unlocks_pauseOnly(u) == u = "pause" /\ unlockers[u] > 0

Unlocks(u) == unlockers[u] > 0

(* Only a lock that is held is unlocked, says FlowControl.                 *)
Unlock(u) ==
  /\ Unlocks(u) /\ unlockers' = [unlockers EXCEPT ![u] = @ - 1] /\ sendMu' = "free"
  /\ UNCHANGED <<retainer, pc, batches, srv, lostCount, wire, appVars, endVars>>
-----------------------------------------------------------------------------
(* serve.                                                                  *)

(* A routing indication: pushInbound, as in the tunnel.                    *)
Indication(p) ==
  /\ srv = "reading" /\ sockUp
  /\ BagCardinality(pushers) + Len(delivered) < MaxTelegrams
  /\ \/ delivered' = Append(delivered, p) /\ UNCHANGED pushers
     \/ pushers' = BagAdd(pushers, p) /\ UNCHANGED delivered
  /\ UNCHANGED <<sendMu, unlockers, retainer, pc, batches, srv, lostCount, wire, endVars>>

(* A busy or lost indication: the server goes on once it has the lock.     *)
BusyArrives ==
  /\ srv = "reading" /\ sockUp /\ srv' = "busy"
  /\ UNCHANGED <<sendMu, unlockers, retainer, pc, batches, lostCount, wire, appVars, endVars>>

(* Mutant: one more message than the indication reports.                   *)
LostArrives_oneMore(n) ==
  /\ srv = "reading" /\ sockUp /\ Len(batches) < MaxLost
  /\ srv' = "lost" /\ lostCount' = n + 1
  /\ UNCHANGED <<sendMu, unlockers, retainer, pc, batches, wire, appVars, endVars>>

LostArrives(n) ==
  /\ srv = "reading" /\ sockUp /\ Len(batches) < MaxLost
  /\ srv' = "lost" /\ lostCount' = n
  /\ UNCHANGED <<sendMu, unlockers, retainer, pc, batches, wire, appVars, endVars>>

Inhibit ==
  /\ srv = "busy" /\ sendMu = "free"
  /\ Locked("timer") /\ srv' = "reading"
  /\ UNCHANGED <<retainer, pc, batches, lostCount, wire, appVars, endVars>>

(* Mutant: the messages to resend stay in the retainer.                    *)
Remaining_all(n) == retainer

Remaining(n) == SubSeq(retainer, 1, Len(retainer) - n)

(* Mutant: the messages are taken from the back one by one.                *)
LastOnes_reversed(n) == [i \in 1..n |-> retainer[Len(retainer) + 1 - i]]

(* The last n retained messages, in the order in which they were sent.     *)
LastOnes(n) == SubSeq(retainer, Len(retainer) - n + 1, Len(retainer))

(* resendLost, with the lock held: at most as many messages as there are.  *)
ResendLost ==
  /\ srv = "lost" /\ sendMu = "free" /\ srv' = "reading"
  /\ LET n == IF lostCount > Len(retainer) THEN Len(retainer) ELSE lostCount IN
     /\ batches' = Append(batches, LastOnes(n))
     /\ retainer' = Remaining(n)
  /\ lostCount' = 0
  /\ UNCHANGED <<sendMu, unlockers, pc, wire, appVars, endVars>>

(* The socket's inbound channel is closed; serve closes the router's own,  *)
(* and the goroutines blocked on it recover.                               *)
Exit ==
  /\ srv = "reading" /\ ~sockUp
  /\ srv' = "exited" /\ pushers' = EmptyBag
  /\ UNCHANGED <<sendMu, unlockers, retainer, pc, batches, lostCount, wire, delivered, endVars>>
-----------------------------------------------------------------------------
AppReceive ==
  /\ \E p \in BagToSet(pushers) :
        pushers' = BagRemove(pushers, p) /\ delivered' = Append(delivered, p)
  /\ UNCHANGED <<sendMu, unlockers, retainer, pc, batches, srv, lostCount, wire, endVars>>

Close ==
  /\ ~closed /\ closed' = TRUE
  /\ UNCHANGED <<sendMu, unlockers, retainer, pc, batches, srv, lostCount, wire, appVars, sockUp>>

(* The socket's reader ends, on Close or on an error.                      *)
SocketEnds ==
  /\ sockUp /\ sockUp' = FALSE
  /\ UNCHANGED <<sendMu, unlockers, retainer, pc, batches, srv, lostCount, wire, appVars, closed>>

Next ==
  \/ \E m \in Messages : Call(m) \/ Send(m)
  \/ \E i \in DOMAIN batches : BatchSend(i)
  \/ \E u \in Unlockers : Unlock(u)
  \/ BusyArrives \/ Inhibit \/ ResendLost \/ Exit
  \/ \E n \in 0..MaxCount : LostArrives(n)
  \/ \E p \in Telegrams : Indication(p)
  \/ AppReceive \/ Close \/ SocketEnds

Spec == Init /\ [][Next]_vars
-----------------------------------------------------------------------------
(* Safety.                                                                 *)

(* The retainer never holds more than RetainCount messages.                *)
Bounded == Len(retainer) <= RetainCount

(* A message is in one place at most, the retainer or one sendMultiple,    *)
(* however routing-lost indications and resends interleave: a report of    *)
(* lost messages makes each of them be sent once more, not several times.  *)
NoCopies ==
  /\ \A i, j \in DOMAIN retainer : retainer[i] = retainer[j] => i = j
  /\ \A a \in DOMAIN batches : \A i \in DOMAIN batches[a] :
       /\ \A j \in DOMAIN retainer : batches[a][i] # retainer[j]
       /\ \A b \in DOMAIN batches : \A j \in DOMAIN batches[b] :
            batches[a][i] = batches[b][j] => a = b /\ i = j

LastSent(m) == CHOOSE i \in DOMAIN wire :
                 wire[i] = m /\ \A j \in DOMAIN wire : wire[j] = m => j <= i

Ordered(s) == \A i, j \in DOMAIN s : i < j => LastSent(s[i]) < LastSent(s[j])

(* The retainer, and what a sendMultiple still has to send, are in the     *)
(* order of the last transmissions, although user calls and other resends  *)
(* transmit and retain in between.  resendLost says "in the order in which *)
(* the have been sent initially" (router.go:84): that order is kept for    *)
(* messages sent once only.  A message sent again is retained behind those *)
(* sent in the meantime, and a second report has it resent behind them.    *)
InOrderOfLastSend == Ordered(retainer) /\ \A i \in DOMAIN batches : Ordered(batches[i])

(* Without send errors nothing more recent than a retained message is      *)
(* forgotten: it is retained too or about to be resent, so the last count  *)
(* messages of resendLost are the last ones transmitted.                   *)
NothingSkipped ==
  ~SendMayFail /\ ~closed =>
     \A i \in DOMAIN wire, r \in DOMAIN retainer :
        LastSent(retainer[r]) < i =>
           \/ \E j \in DOMAIN retainer : retainer[j] = wire[i]
           \/ \E a \in DOMAIN batches : \E j \in DOMAIN batches[a] : batches[a][j] = wire[i]

(* The flow control rests on a lock that neither Send nor serve gives back *)
(* itself.  Nothing is transmitted while a pause or the timer of an        *)
(* inhibition is still to end, whichever call, resend or busy indication   *)
(* started it, and none of them ends on a free lock: it would cut short    *)
(* the pause of another, and is fatal in Go.                               *)
FlowControl ==
  [][/\ wire' # wire => \A u \in Unlockers : unlockers[u] = 0
     /\ (\E u \in Unlockers : unlockers'[u] < unlockers[u]) => sendMu = "held"]_vars
-----------------------------------------------------------------------------
(* Fairness: pauses and timers end, and a Go mutex is handed to the server *)
(* in the end, to some call that waits for it and to some resend.  Nothing *)
(* is assumed of the network, the application or the callers.              *)
Fairness ==
  /\ WF_vars(\E u \in Unlockers : Unlock(u))
  /\ SF_vars(Inhibit \/ ResendLost)
  /\ SF_vars(\E m \in Messages : Send(m))
  /\ SF_vars(\E i \in DOMAIN batches : BatchSend(i))

LiveSpec == Spec /\ Fairness

(* The server is never held up for good: a busy indication inhibits        *)
(* sending in the end, a lost one is served, whoever competes for sendMu.  *)
ServerGoesOn == srv \in {"busy", "lost"} ~> srv \in {"reading", "exited"}

(* Every call of Send returns and every resend is tried, however often     *)
(* routers are busy: as calls and losses are finite in number, in the end  *)
(* none waits.                                                             *)
EverythingSent ==
  <>[](/\ \A m \in Messages : pc[m] # "locking"
       /\ \A i \in DOMAIN batches : batches[i] = <<>>)
=============================================================================
