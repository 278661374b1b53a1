# A TLA+ model of knx-go

knx-go talks KNXnet/IP: to a gateway over a tunnel, to a multicast group of
routers, and from there to an HTTP API, an event store, a bridge and a
command-line tool. This directory holds TLA+ models of its concurrent core, of
what is built on it and of its codecs, the TLC runs that check them, and TLAPS
proofs of what they keep.

Contents: [Inventory](#inventory) · [Modules](#modules) ·
[How the models correspond to the code](#how-the-models-correspond-to-the-code) ·
[Runs](#runs) · [Fairness](#fairness) · [Refinement](#refinement) ·
[Proofs](#proofs) ·
[What the models show about the code](#what-the-models-show-about-the-code) ·
[Not modelled](#not-modelled) · [Plan](#plan)

## Inventory

| Part | Source | State | Operations | Interacts with |
|---|---|---|---|---|
| Tunnel client | `knx/tunnel.go` | channel, `seqNumber` under `seqMu`, channels `ack`, `inbound`, `done`; the local counter and heartbeat channels of `process` | `NewTunnel`, `Send`, `Close`, the handlers of `process`, `performHeartbeat`, reconnect in `serve` | socket below, application or group layer above |
| Router client | `knx/router.go` | retainer list under `sendMu`, `inbound` | `NewRouter`, `Send`, `resendLost`, busy inhibition, `Close` | socket below |
| Sockets | `knx/knxnet/socket.go` | connection, unbuffered `inbound` channel | receiver workers, `Send`, `Close` | codec, operating system |
| Discovery, description | `knx/discover.go`, `knx/describe.go` | results so far | one lookup over a socket of its own | sockets |
| Group layer | `knx/groups.go` and the ends of `tunnel.go`, `router.go` | a goroutine per client | `serveGroupInbound`, `buildGroupOutbound` | clients below |
| Bridge | `cmd/knxctl/bridge.go` | two clients | relay loop, restart | tunnel, router |
| cEMI codec | `knx/cemi` | none | messages, control fields, addresses, transport units | clients |
| KNXnet/IP codec | `knx/knxnet` | none | services, host information, description blocks | sockets |
| Pack helpers | `knx/util` | none | pack and unpack of integers, strings, slices | codecs |
| Datapoint types | `knx/dpt` | registry | pack, unpack, format per type, values from texts | API, command line |
| Group catalog | `knx/gac` | list of groups with names, paths, types | import, export, lookup | API, command line |
| HTTP API | `api` | tunnel, catalog, store | read, write, latest, history, event listener | group tunnel, store |
| Event store | `pgknx` | a database table | create, latest, history | database |
| Command line | `cmd/knxctl` | configuration | send, read, listen, serve, discover, bridge | everything above |

What is hard here:

- A tunnel runs one goroutine per call of `Send`, one server goroutine, one per
  heartbeat, per response that is relayed and per telegram nobody is receiving
  yet. They share a mutex that a *reconnect* needs as well, channels that are
  closed under their senders (who recover from the panic) and a sequence number
  that is reset. Frames are lost, repeated and late; timers compete with
  answers. A router's mutex is unlocked by a timer or by a goroutine that
  outlives the call. A socket's worker hands packets over an unbuffered channel
  whose reader may have left.
- Group events pass three goroutines and one unbuffered channel before the API
  stores them, and a read request recognises its answer by a time alone. A
  bridge relays in one goroutine, restarts after any error, and cannot tell
  whether a message that failed was transmitted.
- The decoders take a length from the packet, slice first and compare later;
  bits overlap; floats, dates and flags have values their types do not mean.

What makes each part correct:

- **Tunnel**: a message is accepted by the gateway at most once and `Send`
  returns nil only if it was; a telegram is delivered at most once and not lost
  once acknowledged; every call returns; only a heartbeat of the connection in
  use ends it; `Close` ends the connection and every goroutine.
- **Router**: the retainer is bounded, in the order of the last transmissions,
  without copies and without gaps; nothing is sent during a pause or an
  inhibition, and no free lock is unlocked; nothing waits for good.
- **Socket and lookups**: a lookup returns with its socket closed; the worker
  of a closed socket ends.
- **Group layer, API, commands**: every group event is stored; the answer to a
  read is newer than the read, and its timeout means that there was none; every
  request and command ends.
- **Bridge**: no message is relayed twice, no connection is left behind, no
  message is held up for good.
- **Codecs, addresses, datapoints, catalog**: what is written is read as what
  was meant, within limits and resolution; a packet cut short is never another
  telegram; what was accepted can be passed on unchanged.

`PROJECT.json` lists the hazards line by line with the properties that cover
them.

## Modules

| Module | Models | Used by |
|---|---|---|
| `Tunnel.tla` | the client of `tunnel.go` against any frames whatever | `MCTunnel`, `TunnelSystem`, `TunnelProofs` |
| `TunnelSystem.tla` | the client, a gateway and the datagram network | `MCTunnelSystem`, `SystemProofs` |
| `Delivery.tla` | what a tunnel promises, without frames, numbers and timers | `TunnelSystem` (refinement), `DeliveryProofs`, `SystemProofs` |
| `Router.tla` | the client of `router.go` | `MCRouter`, `RouterProofs` |
| `Socket.tla` | a socket's worker with each of the readers it has | `MCSocket`, `SocketProofs` |
| `GroupClient.tla` | `groups.go`: the worker, the frames and the events | `Service` |
| `Service.tla` | who reads group events: `api`, `knxctl listen`, `read` and `send`, with the store | `MCService`, `ServiceProofs` |
| `Bridge.tla` | `bridge.go` over two clients | `MCBridge`, `BridgeProofs` |
| `Wire.tla` | `knx/util`: fields and bytes | `CEMI`, `DPT` |
| `CEMI.tla`, `KNXnet.tla` | the messages and services, packed and unpacked | `GroupClient`, `Codecs` |
| `Addresses.tla` | group and individual addresses and their notations | `Arguments`, `Codecs` |
| `DPT.tla` | every registered datapoint type | `GAC`, `Codecs` |
| `GAC.tla`, `Arguments.tla` | the catalog; the arguments of `send` and `read` | `Codecs` |
| `Codecs.tla` | items written, damaged on the way, read and passed on | `MCCodecs`, `CodecProofs` |
| `TunnelProofs`, `DeliveryProofs`, `RouterProofs`, `SocketProofs`, `ServiceProofs`, `BridgeProofs` | theorems about the module they are named for | |
| `SystemProofs` | theorems about `TunnelSystem`, that it implements `Delivery` first | |
| `CodecProofs` | theorems about `Codecs`: packets, addresses, values and texts | |

Definitions named `X_y` directly before a definition `X` are mutants: `X` as a
plausible bug would have it. No behaviour uses them; `PROJECT.json` names the
property each of them breaks.

## How the models correspond to the code

### Tunnel and TunnelSystem

Variables follow the fields of `Tunnel` and the locals of `process`: `channel`,
`seqNumber`, `seqMu` (the owner), `recvSeq` (the `seqNumber` of `process`),
`srv` (where the server goroutine is: in `requestConn`, waiting for `seqMu`, in
`process`, or between two deferred calls), `pc` and `req` per call of `Send`,
`closer` for `Close`. Goroutines that carry one value and have no identity are
bags: `acks` and `beatRes` (relays of responses, which live up to
`ResendInterval`), `beats` (heartbeat workers with the connection that started
them) and `pushers` (telegrams waiting for the application).

The interleaving is that of the code. `requestConn` writes the channel first and
takes `seqMu` afterwards (`ConnReceive`, then `ResetSeq`); `requestTunnel` keeps
`seqMu` from its request to its return; `process` closes the heartbeat channel
when it returns, so relays on it end and a worker that waits for a status fails;
`serve` runs its deferred calls one at a time, last one first; `Close` sends its
disconnect request before it closes `done`. A local computation, and a select
with the assignments after it, are one step.

Time is abstracted: a ticker or a timeout may fire whenever `Faults` contains
`"resend"` or `"timeout"`; a write may fail with `"send"`, a frame vanish with
`"loss"`, the socket's reader stop with `"read"`, a transform refuse or drop a
message with `"transform"`. With `UseTCP` there are no acknowledgements and no
sequence check.

In `Tunnel.tla` any frame of `GatewayFrames` may arrive at any time. This is the
setting of what the client guarantees by itself. `TunnelSystem.tla` adds a
gateway, which is not in the repository: it is what the client is written
against, a KNXnet/IP server that counts per connection, accepts the expected
number, acknowledges a repetition and discards the rest. Its definitions are
marked external. `ReuseChannels` says whether it hands out a channel again.

### Router

`sendMu` is free or held, and `unlockers` counts who will unlock it: goroutines
that `Send` starts ("pause") and timers of inhibitions ("timer"). The mutex stays
locked after `Send` has returned, and Go would let anybody unlock it: `Unlock`
sets it free whatever it was, so that it is for `FlowControl` to say that nothing
is transmitted while one of them is still to come, and that none of them unlocks
a free lock. A message stands for one call of `Send`.
`resendLost` takes messages out of the retainer and starts a goroutine that
sends them one by one (`batches`); each transmission retains the message again
and trims. A send that fails retains nothing, in a resend as in a call.

### Socket

`worker` and `held` are the receiver goroutine, blocked at `inbound <- payload`
while it holds a packet. `sock`, chosen at the start, is one of the five sockets
the repository makes, with the code at its other end: a router's server, which
reads until the channel is closed; a tunnel's (UDP or TCP), which leaves before
`Close`; `DescribeTunnel`, which leaves at the first answer;
`DiscoverOnInterface`, which collects answers until its timeout. Only UDP
sockets of tunnels and descriptions check where a datagram comes from; only a
TCP stream can be torn. The TCP worker peeks at a header before it takes the
frame, so a header that gives the length 0 stays where it is (`Stays`). The
deferred `Close` of a lookup and its return are one step.

### Group layer and Service

`at[e]` follows a message from the bus to its reader: into a goroutine of
`pushInbound` ("pushed", any number at once, in no order), through
`serveGroupInbound` (`Take`: filtered out, or "held" at `inbound <- event`,
which blocks the worker), to whoever receives it. When the client ends, what is
still with goroutines of `pushInbound` is lost, what the worker holds is not,
and the worker closes its channel. The client underneath is the abstraction that
`Delivery` and `Router` give of it: each message comes once, in no order.

`program` is one of the four readers. Of the API, `Record`, `Store` and
`ListenEnds` are the loop of `api.listen` (receive, give a time, store, in that
order, with a failed `CreateEvent` only reported), and `Ask`, `Sent`, `Poll` and
`TimesOut` are the handlers of `v1.go`, a goroutine per request: the group is
found, a read takes its time *before* `Send`, looks once a second at the last
event of the group and compares times. The clock does not go back, but two calls
of `time.Now` may return the same time. `log` is the table, external, and any
of its operations may fail. `Signal` and `Exit` are the end of `Run`: the
context is cancelled, and the process exits as soon as `ListenAndServe` has
returned, whoever is still being served. Of `knxctl`, `Drain`, `Drained`,
`CommandSent`, `Await` and `AwaitEnds` are `drainInbound`, the send and the wait
for a response.

### Bridge

`at` is the program counter of the one goroutine: the two connections of
`newBridge` with the error path that closes the first (`Undo`), `serve` with its
select over both sides, `relay`, the two halves of `close`, and the pause of
`runBridgeLoop`. A `Send` that returns an error may have transmitted the
message. `open` counts the clients that nobody has closed.

### Wire, CEMI, KNXnet, Addresses, DPT, GAC, Arguments, Codecs

These modules are operators; `Codecs` gives them a life. An item (a service, a
value of a datapoint type, a text given as a value, an address, a catalog
document) is written, its packet may be cut short or have one octet changed, it
is read, and what was read is written and read once more. Packets and values
that only peers write start on the wire.

A packet is a sequence of bytes. Reading one has three outcomes: a value, an
error, and `"outside"`, a slice past the end, where Go panics or, since the
receiver's buffer is longer than the packet, goes on with what an earlier packet
left there. A text is what its reader can tell of it: the numbers between the
separators of an address; what JSON, `ParseInt`, `ParseFloat` and `ParseBool`
make of a value. A value of a 2-byte float counts hundredths, one of a fraction
255ths, and either may be `NaN`, which passes every comparison with a limit; an
infinite one is as a number beyond all limits. What the multiplication by 100 and
the cut to an integer make of a number in `float32` is a set of outcomes: itself
or one nearer to zero, and from 131072 on up to 5 hundredths to either side
(`FloatCut`), since those are farther apart there than a hundredth; of NaN, 0 or
what amd64 makes of it, which is sent as -327.68. A 4-byte float is its bit
pattern, since nothing in the code calculates with it. A date and time carries
whether its location has summer time at that moment (`dst`), which `Pack` reads
and only UTC dates, those that `Unpack` makes, surely have not. Two types of the
registry differ in the model only where they differ in format or limits.

## Runs

Each run asks one component everything that its bounds can answer. The
"violation" run states what a comment of the code says and TLC refutes.

| Run | Question | Bounds worth knowing |
|---|---|---|
| `tunnel_send` | Does `seqMu` protect number and connection? | 2 calls, 2 channels, 3 connections, all faults, numbers modulo 2 so that they wrap |
| `tunnel_tcp` | Can a stale heartbeat end a connection? | 2 workers over 3 connections, 1 call, 1 telegram, all faults |
| `tunnel_live` | Do `Send` and `Close` return, and does every goroutine end after `Close`? | 2 calls, 2 connections: a reconnect meets a call that holds `seqMu` and one that waits for it; a heartbeat worker and a relay of each kind |
| `system_inbound` | Does the tunnel implement `Delivery` for telegrams: each handed over once, none lost once acknowledged? | 3 telegrams (one more than are in flight), 2 connections, loss, repetition |
| `system_outbound` | Does it for messages: each accepted once at most? And does `nil` mean accepted? | 2 calls, 2 connections on fresh channels, loss, repetition, timeouts |
| `system_live` | Is a forgotten connection noticed? | a gateway that drops once, its request perhaps lost |
| `system_race` | violation: `Close` during a reconnect | no fault at all |
| `router_all` | Is the retainer in order, without copies or gaps? Is the lock the flow control? Does whoever waits for it get it? | 3 messages, a retainer of 2, two reports of up to 3 lost messages, one indication, any number of busy indications; sends fail once the socket is closed |
| `socket_all` | Do worker and reader end? | 3 packets of any kind waiting, each of the five sockets |
| `service_all` | Is the answer of a read new, its timeout silence? Is every event stored, every request answered, and does every command return? | each of the four programs; a response, a read and a frame for a device; one request of each kind, 2 looks; the store, `Send` and the tunnel may fail, a signal at any time |
| `bridge_all` | Is nothing relayed twice, held up or left open? | 2 telegrams from each side and a confirmation, 3 restarts, every error |
| `codecs_all` | Is what was written read as what was meant, by every reader on the way? | every service and message type with two or three values per field; every datapoint type at its limits and beyond, NaN and dates with summer time included; every octet of every packet lost or changed to 5 others; 65536 values of one 2-byte float type |

Why the bounds are enough:

- Two calls are all that a mutex can order; two connections give a frame, a
  relay and a worker of an earlier one, three let one be two connections late;
  numbers modulo 2 or 3 wrap within a run; two frames on the way let one
  overtake nothing but meet a repetition of itself. A frame on its way to the
  gateway is not looked at in `Tunnel.tla`, so the runs of that module keep none
  (`MaxNet = 0`, every frame is lost); `TunnelSystem` keeps two.
- A report of 3 lost messages asks for more than the retainer of 2 has, one of 0
  for none, and the resend runs beside calls of `Send` and a second transmission
  of everything. The second report takes what the first has put back and what was
  sent in between, or comes while the first batch is still being sent; the safety
  properties are proved for any number of reports. One routing indication is
  enough, since it touches neither the lock nor the retainer.
- Three events let one be in the worker's hands while another waits and a third
  is being stored; one request is enough since requests share only the store,
  the clock and the bus, and what other requests put there are events; the
  second look is the one that must not forget the first. `ServiceProofs` has no
  such bounds.
- Each error path of the bridge takes one restart; three let the loop come back
  to a path after another one, with telegrams still held by the clients.
- The codecs have no state that a second item could disturb. A field has values
  on both sides of each bit or limit where the code decides something. Damage is
  one cut or one octet: two changed octets are another packet of the same form.

Bounds cut behaviours off in guards: `MaxConns` in the steps that lead to
another connection, `MaxRestarts` in `Restart`, `MaxLost` in reports,
`MaxTelegrams` in routing indications, the sizes of the bags where a goroutine
would start. The clock of `Service` needs none, as it moves only with events and
requests.

Calls, channels and messages only compare for equality, so the safety runs with
several calls use symmetry; runs with liveness properties do not. Deadlock is
not checked: a closed client, an exited process, a bridge without restarts and
an item that has been read all stop.

## Fairness

`Tunnel!Fairness`, `Router!Fairness`, `Socket!Spec`, `Service!Fairness` and
`Bridge!Fairness` assume what the Go runtime provides. A goroutine that can run
does and a timer that is set expires: weak fairness on the steps of a goroutine
that nothing can disable again. A mutex is handed to each waiter in the end,
since a `sync.Mutex` in starvation mode is first come, first served, and
`select` picks among ready cases at random: strong fairness on taking a mutex
and on the cases `done`, socket closed and heartbeat. Nothing is assumed of the
gateway, the network, the application, the callers, the signal or the resend
tickers; only `TunnelSystem!SystemLiveSpec`, for the one property that is about
the gateway as well, has it handle frames. That a timeout expires needs
`"timeout"` in `Faults` and the runs with liveness have it.

In `Router` pauses and timers end (weak fairness on all `Unlock`s together), and
three kinds of waiter compete for the lock, each with strong fairness of its own:
the server (`Inhibit \/ ResendLost`), some call (`Send`) and some resend
(`BatchSend`).

In `Service` the reader of events is one goroutine, so that weak fairness on all
its steps together (`Listen`, `Command`) is what it has; requests are a
goroutine each. In `Bridge`, `Connect`, `Send` and `Close` come to an end
because `tunnel_live` and `router_all` show that they do. A bridge that finds a
message and a closed channel ready at once may take either, and each goes on.

## Refinement

`Delivery.tla` says what the two ends of a tunnel may rely on: a telegram is
handed over (to the application or a goroutine that holds it for the
application) once, and acknowledged only after that or once the tunnel has
ended; a message of a call is accepted once. `TunnelSystem` implements it under

| `Delivery` | `TunnelSystem` |
|---|---|
| `held` | `pushers`, the goroutines of `pushInbound` |
| `received` | `delivered` |
| `acknowledged` | `confirmed`, the telegrams whose acknowledgement has reached the gateway |
| `ended` | `srv \in {"inboundClosed", "exited"}`, from the close of `inbound` on |
| `accepted` | `accepted`, the messages the gateway has taken |

`system_inbound` and `system_outbound` check `Delivers == D!Spec` as a property;
`SystemProofs` proves it for all values of the constants but those named there
as `Plain`, and `DeliveryProofs` what follows from it. The
layers above use the promise: `GroupClient` and `Bridge` let each message come
once and be held by a goroutine until it is taken or the client ends.

## Proofs

TLAPS checks these for all values of the constants. The assumptions are
`ConstAssumption` (numbers wrap at more than one, at least one connection),
`SystemAssumption` (telegrams are positive numbers, so that 0 is none; "no
channel" is no channel), `RouterAssumption` (a retainer of at least one
message), `ServiceAssumption` (at least one look), `BridgeAssumption` with the
two that say that "nothing" and "no event" are no message, and those of `Codecs`
(below).

`TunnelProofs`: `TypeCorrect`, `MutexCorrect`, `NumberCorrect`,
`ConnectionCorrect`, `HeartbeatCorrect`. The inductive invariant `Inv` joins
`TypeOK`, `SeqMuHeld`, `AwaitsOwnNumber`, `AwaitsOnThisConnection` and two
strengthenings. `Counted`: a connection being made is within the bound, which
types `epoch`. `BeatsOfConnections`: the workers are of connections made so far
and those of the one in use have asked for its channel, which is what makes
their report its own. The three safety properties need each other: the number
cannot be reset under a waiting call because the reset needs `seqMu`, which the
call owns; and as the connection is only served after the reset, no call can be
waiting with a request of an earlier one.

`SystemProofs`: `Refinement` (`TunnelSystem` implements `Delivery`),
`SystemTypeCorrect`, `ConfirmedUndisturbedCorrect`, and with `DeliveryProofs`
what the promise means for the tunnel itself: `TelegramsOnce`,
`ConfirmedIsHanded`, `MessagesOnce`. Nothing is bounded: any calls, telegrams,
channels and size of the numbers, any number of connections, frames on the way,
losses, repetitions and timeouts. The hypothesis `Plain` leaves out what breaks
the promise in the code itself: with TCP there are no numbers; a transform that
refuses a telegram drops one that is acknowledged; and with channels that are
handed out again see [below](#what-the-models-show-about-the-code).

- *Telegrams.* The handler takes a telegram if it has the expected number, so
  the invariant has to know what frames with that number may be on their way.
  `TelegramsInOrder` says it for every channel the client uses or may begin to
  use (`Live`, with the number `Expects` gives): the frames are repetitions of
  the telegram before, then of the expected one, which nobody has. It needs
  `InStep`, that the gateway is at the client's number or one behind, and that
  needs `AcksInOrder`: an acknowledgement that would move the gateway on is of a
  telegram that was handed over. That one holds on channels that are not in use
  any more, too, since the gateway goes on to believe them; the reader of the
  telegrams may be gone then, which is why `Delivery` has `ended`. Whether a
  channel is live changes in the middle of `requestConn`, hence `OfferedOnce`.
- *Messages.* The gateway takes a request with the number it expects. A call
  repeats its request under `seqMu`, so requests on their way come in blocks, one
  call after the other (`Blocks`), with the number of their call (`Requested`);
  and when one is accepted the gateway's number moves past it and does not come
  back before the last repetition has arrived (`AcceptedBehind`), whatever calls
  time out and leave theirs behind.
- *`nil` means accepted.* `ConfirmedUndisturbed` is about the first connection
  and calls that have not timed out (`Undisturbed`). Then both ends count the
  same requests (`InCount`), and an acknowledgement that is relayed late has a
  number the client has left (`RelaysBehind`). Two hypotheses, each with a
  counterexample without it: `Writable`, since a repetition that cannot be
  written ends the call without counting it, though the gateway may have
  accepted the first; and fewer accepted messages than numbers, since a relay
  has no bound in the model on how late it comes (in the code it has
  `ResendInterval`), and a number that comes round makes it valid again.

`DeliveryProofs`: `ReceivedOnceCorrect`, `AcknowledgedCorrect`,
`AcceptedOnceCorrect`. The strengthening is that no telegram is held twice,
without which a received one could still be held.

`RouterProofs`: `TypeCorrect`, `BoundedCorrect`, `NoCopiesCorrect`,
`FlowControlCorrect`, `InOrderOfLastSendCorrect`, `NothingSkippedCorrect`.
`FlowControl` needs `OneUnlocker`: the goroutines and timers that will unlock
`sendMu` are one while it is held and none while it is free, which every step
that locks or unlocks has to keep, in whatever order calls, resends, pauses and
inhibitions come. `NoCopies` is inductive with `NotSentYet`: a message whose
call has not had the lock is nowhere. The steps reduce to three lemmas on
sequences, that retaining a message from nowhere (`Retained`), taking the first
of a batch (`Popped`) and moving the end of the retainer to a new batch
(`Split`) keep all messages distinct. The order is that of the last transmission
of each message on the wire. `InOrderOfLastSend` is inductive once it is said of
the batches as well (`SortedInv`), because `resendLost` takes the end of the
retainer. `NothingSkipped` needs `KeptInv`, which joins retainer and batches: a
message that was sent after one of those is among them. A batch may be sent
while others are, and what it sends goes to the end of both orders at once.

`SocketProofs`: `TypeCorrect`, and `ClosedByOwnerCorrect`: a lookup has returned
exactly when its socket is closed, so that a socket is never closed under a
reader that goes on reading, but for a router's, whose reader ends by it.

`ServiceProofs`: `TypeCorrect`, `AnswerIsNewCorrect`, `TimeoutIsSilenceCorrect`.
That an answer is new cannot be read off the step that gives it, which compares
times: the invariant carries the past. `StoredIsOld` says that what was in the
store when a read came has a time that is not after the read's; it holds when
the read takes its time because times are those of a clock that does not go
back, and later because no stored event is ever given a time again. `SeenIsOld`
says the same of what the read has seen in the store when it looked in vain,
since the event it compares with is the latest of its group. `Quiet` gathers
what a step that answers no request has to leave as it is, `OneRequest` what a
step of one request has to show; the steps are instances of the two.

`BridgeProofs`: `TypeCorrect`, `NoConnectionLeftCorrect`, `RelayedOnceCorrect`.
`Connected` says which clients are open at each place of the goroutine;
`SentOnce` that what was transmitted, or is in hand, is held by no client.

Also in `ServiceProofs`, of the group layer: `EventsSurvive`, that
`serveGroupInbound` takes from a frame of `buildGroupOutbound` the event it was
made of, whatever the event; `HopsIsAddressType`, see below.

`CodecProofs`: `PacketsArriveCorrect`, `AcceptedIsForwardableCorrect`,
`CutIsNoTelegramCorrect`, `AddressesArriveCorrect`, `ValuesArriveCorrect`,
`TextsArriveCorrect`. `MCCodecs` has two or three
values for each field; here the octets are any octets, the addresses any of 16
bits, and information, application data, raw bodies, names and families have any
length the wire has room for (`ServicePackable` of `KNXnet.tla`).

- *Whole packets.* For each part a lemma `...Arrives` says that its decoder,
  given anything that begins with what the encoder wrote, returns the part and
  its length; `PacketArrives` puts them together for each service, `PeerArrives`
  for those that only gateways send. `PacketInv` carries this through the stages
  of an item: what is on the wire is `Whole`, or what the network made of such a
  packet, and `got` is what `Unpack` makes of it.
- *Relayed packets.* `PacketRead`: `Unpack` of any octets whatever is a member of
  `Services` or one of the services that are never packed; so the round trip
  applies to what was read of a damaged packet, too.
- *Cut packets.* `CutPacket` compares `Unpack` of a packet with that of one of
  its beginnings (`Starts`): as long as no field is read beyond the end, the two
  read the same fields at the same places, so that only the parts that take what
  is left can differ. The theorem leaves descriptions out. Their blocks are
  walked in a loop, each with a length of its own, and a later block replaces an
  earlier one of its type: a gateway that sent two device blocks would have its
  description cut to the first of them, which the property excludes. TLC checks
  descriptions without such repetitions.
- *Addresses.* `AddressesReturn` and `TextsReturn` say that all 65535 group and
  individual addresses and their free and three-level notations stand for each
  other, and that 0 is written but not read; `AddressInv` carries them, and the
  two-level notation as far as it is `Consistent`, through the items.
- *Values.* `ValueArrives`: for each format that the registered types have
  (`FormatNames`), what `Pack` makes of any value its Go type holds `Arrives`:
  it is read as a value `Near` it, or it is an invalid date and time, or NaN,
  and refused. Fractions and 2-byte floats need the arithmetic. A mantissa is
  cut towards zero by a power of two (`Powers`), and there is a first exponent
  with which it fits, since the numbers that fit grow with it (`FitsBounds`). A
  number that `float32` rounded up may need the next exponent, but no other
  (`RoundedResolution`), and stays within what the type accepts (`F16Arrives`).
  NaN is followed to the octets of -327.68 (`NaNArrives`). Dates need that years
  of two digits are told apart at 90; texts, that what is cut, filled up and cut
  at the first zero is what was written. `AnyDataRead`: any octets, of any
  length, are refused or read as a value that can be sent (`Sendable`); so
  `ValueInv` holds of data a bus brings as well, and one round trip covers both
  what was sent and what is sent on.
- *Texts.* `TextWritten`: what `EncodeDPTFromStringN` or knxctl makes of a text
  is an error or what `Pack` makes of a value the text stands for, which fits
  its type or is NaN (`StandsWell`), so `ValueArrives` applies again. knxctl
  encodes through the types of the catalog, which are another instance of `DPT`;
  `SamePack` says that the two pack alike.

The assumptions of `Codecs.tla`: `PacketAssumption` (a service that is sent has
fields that fit their octets, and its length 16 bits), `PeerAssumption` (a
gateway sends what the standard's layout says, a description being anything that
is read as it), `FloatAssumption` (NaN is no number), `ValueAssumption` (values
are what the Go types hold, `ValuesOf` of `DPT.tla`; what is received has
octets; what a text is to the parsers of whole numbers has 32 bits; what
`ParseFloat` makes of it may be NaN, but not of a JSON number) and
`AddressAssumption` (texts are numbers between separators; no device has the
address 0). TLC checks them for the constants of `MCCodecs`.

Only model-checked:

- Liveness, since fairness and ENABLED are out of the prover's reach:
  `SendReturns`, `CloseReturns`, `GoroutinesEnd`, `LostConnectionNoticed`,
  `EverythingSent`, `LookupReturns`, `WorkerEndsUnlessStuck`, `EventsRecorded`,
  `RequestsReturn`, `CommandReturns`, `ServerGoesOn` and `Progress`.
- `CatalogSurvives` of `Codecs`: a document is imported and exported by recursion
  over its tree of ranges, and induction over data is out of the provers' reach.
- `CutIsNoTelegram` for descriptions, whose blocks are walked in a loop (above).

## What the models show about the code

A run shows it:

- `system_race`: `Close` during a reconnect disconnects the old channel; the new
  connection stays open at the gateway. Comment at `tunnel.go:673`.

Visible in the models; no run is spent on them, since no line of the code says
otherwise, they are of less weight, or the property that is checked says
precisely how far it holds:

- *Tunnel.* After a timeout, or a repetition that could not be written, the
  number is used again for another message; if the gateway had accepted the
  first, it acknowledges and drops the second, and `Send` returns nil (comments
  at `tunnel.go:251` and `321`). An acknowledgement whose relay is still waiting
  when the client reconnects confirms a call on the new connection if the
  numbers agree. Hence `ConfirmedUndisturbed` speaks of the first connection and
  of calls that have not timed out.
- `Close` says that it waits for the server routine to exit (`tunnel.go:673`),
  but `wait.Done` is the first deferred call to run (602): `CloseSocket` is
  enabled from `srv = "unwaited"` on, before `inbound` and `ack` are closed.
- A call that takes `seqMu` between the write of the channel and the reset of
  the number sends on the new channel with a number of the old connection, and
  can only time out.
- With a gateway that hands out channels again, a call that still repeats its
  request during a reconnect can have it accepted a second time. A connection
  request that is repeated may leave a second connection open that the client
  never learns of.
- *Router.* `resendLost` says that messages are resent "in the order in which the
  have been sent initially" (`router.go:84`). That order is kept only for
  messages sent once. A message that is sent again is retained behind those sent
  in the meantime: after m1 and m2, a first report has m2 resent while m3 goes
  out before it, and a second report has m3 resent before m2. So
  `InOrderOfLastSend` speaks of the last transmissions, and the two reports of
  `router_all` reach such orders.
- *Sockets.* A TCP frame of length 0 is not discarded, as the comment at
  `socket.go:274` says, but read again for good, after `Close` too. The worker
  of a lookup's socket is stuck for good if it holds a packet when the lookup
  leaves, though `Close` promises to terminate it (`socket.go:110`, `191`).
  `WorkerEndsUnlessStuck` says that these two are all.
- *API.* A read is answered by the next event of its group whatever it is,
  another client's write or read included; and an event that was on its way to
  the store when the read came may answer it, as it is given its time only when
  it is received. So `AnswerIsNew` says "stored after the request" and not "sent
  after it". After the tunnel's end the API goes on without a listener, and
  every read fails; of an error of `Send` the client gets an empty 200.
  `ListenAndServe` returns as soon as `Shutdown` is called, so that requests
  being served are cut off by the end of the process. The handlers take the last
  group whose name or address matches. A history without descending order has no
  order at all between pages.
- *knxctl.* `drainInbound` receives for ever from a channel that is closed
  (`read.go:137`); `CommandReturns` names it as the one way a command does not
  return. `null` as a value is the zero of its type, and a JSON number is refused
  for text types, which the API accepts. `canonicalizeDatapointType` accepts more
  dashes than `NormaliseDPTID`.
- *Codecs.* An `L_Raw.ind` is packed with the code of `L_Raw.con`
  (`lraw.go:60`), and arrives as one. `Hops` returns the address type and not
  the hop count (`control.go:61`, `HopsIsAddressType`). Packing a search or a
  description response panics, as the pointer receivers of its blocks are not
  found; so the overrun of `PackString` by a name that fills its field is never
  reached. A packet cut short is read as one with zeros at the end.
- *Addresses.* In two levels the parser and the formatter disagree:
  `AddressesArrive` says that only addresses below 256 come back.
- *Datapoints.* A 2-byte float is cut towards zero, and a value that is unpacked
  and packed again may lose one more step each time; from 131072 on it may be
  rounded away from zero before, so that 131563.51 is read as 131563.52. NaN is
  compared with the limits and passes (`formats.go:96`, the types of main number
  9), and what `int` makes of it (`formats.go:102`) depends on the processor: on
  amd64 it is sent as -327.68, which 9.001, 9.004 to 9.008 and 9.028 refuse to
  read and the other types read as that. The API accepts the text NaN for all of
  them (`encode.go:64`). `Arrives` states both, and nothing else, as exceptions
  for NaN. `Pack` of a date and time sets the summer-time flag from the date's
  location (`types_19.go:49`); as `Unpack` makes UTC dates, a flag that was
  received is gone when the value is sent on. `DPT 28.001` slices past the data
  of a telegram without a string.

## Not modelled

Logging, wording and layout of output; host information and dialling; durations
(a timer expires or does not). Flags, configuration files and their
precedence; HTTP routing, the JSON of answers and the OpenAPI document; XML
itself; SQL: they are calls of libraries, without a state of this program that
a property could be about. The list, the details and the history of groups in
the API only read the catalog and the store. `discover` and `catalog` of knxctl
print what `Socket` and `GAC` have. The arithmetic of `float32` stands as its
set of outcomes; units and texts of values are left out. 64-bit integers can be
packed but nothing does. A gateway, a database and the operating system are
external, and modelled from what this code expects of them.

## Plan

Done: the tunnel, its system and what it promises, with the refinement proved;
the router; the sockets; the group layer with its readers; the bridge; every
codec, the catalog and the arguments of the commands. Left, all of it proofs:

1. `CatalogSurvives` for documents without nested ranges.
2. `ConfirmedUndisturbed` on later connections, for calls that begin when no
   relay of an earlier connection is left.
