------------------------------- MODULE Socket -------------------------------
(***************************************************************************)
(* A KNXnet/IP socket of knx/knxnet/socket.go: the receiver goroutine      *)
(* (serveUDPSocket, serveTCPSocket) that hands packets to one reader over  *)
(* the unbuffered channel inbound, and the reader.  The readers of the     *)
(* repository are                                                          *)
(*   "server"    Router.serve, which reads until the channel is closed,    *)
(*   "client"    the tunnel's server goroutine, which stops reading when   *)
(*               it exits, before Tunnel.Close closes the socket,          *)
(*   "describe"  DescribeTunnel, which stops at the first answer or at its *)
(*               timeout and then closes the socket,                       *)
(*   "discover"  DiscoverOnInterface, which collects answers until then.   *)
(* A packet is what the reader can tell apart, or why it is discarded.     *)
(***************************************************************************)
EXTENDS Naturals, Sequences

CONSTANTS
  Readers,       \* which of the readers above
  MaxQueue,      \* bound: packets in the operating system's buffer
  MaxResults     \* bound: answers collected by discover

ASSUME SocketAssumption ==
  /\ Readers \subseteq {"server", "client", "describe", "discover"}
  /\ MaxQueue \in Nat /\ MaxResults \in Nat

(* The sockets the repository makes.  A router socket has no peer whose    *)
(* address it could check; only a tunnel's client can ask for TCP.         *)
Sockets ==
  {[reader |-> "server",   tcp |-> FALSE, anyOrigin |-> TRUE],
   [reader |-> "client",   tcp |-> FALSE, anyOrigin |-> FALSE],
   [reader |-> "client",   tcp |-> TRUE,  anyOrigin |-> FALSE],
   [reader |-> "describe", tcp |-> FALSE, anyOrigin |-> FALSE],
   [reader |-> "discover", tcp |-> FALSE, anyOrigin |-> TRUE]}

(* answer: the response a lookup waits for; other: any other service;      *)
(* foreign: from another address; empty: a datagram of no bytes, or a TCP  *)
(* header that gives 0 as the length of its frame; broken: not a service;  *)
(* torn: the rest of a TCP stream whose header cannot be read.             *)
Packets == {"answer", "other", "foreign", "empty", "broken", "torn"}

Idle == "nothing"

VARIABLES
  sock,     \* what the socket is, from its creation on
  queue,    \* packets received and not yet read
  worker,   \* where the receiver goroutine is
  held,     \* the packet it is about to hand over
  reader,   \* reading, left, or returned after its deferred Close
  results,  \* answers the lookup will return
  closed    \* Socket.Close was called

vars == <<sock, queue, worker, held, reader, results, closed>>

TypeOK ==
  /\ sock \in Sockets
  /\ queue \in Seq(Packets)
  /\ worker \in {"reading", "sending", "exited"}
  /\ held \in Packets \cup {Idle}
  /\ (held # Idle) = (worker = "sending")
  /\ reader \in {"reading", "left", "returned"}
  /\ results \in Nat
  /\ closed \in BOOLEAN

Init ==
  /\ sock \in {s \in Sockets : s.reader \in Readers}
  /\ queue = <<>> /\ worker = "reading" /\ held = Idle
  /\ reader = "reading" /\ results = 0 /\ closed = FALSE

Lookup == sock.reader \in {"describe", "discover"}
-----------------------------------------------------------------------------
(* The receiver goroutine.                                                 *)

Arrives(p) ==
  /\ ~closed /\ Len(queue) < MaxQueue /\ queue' = Append(queue, p)
  /\ (p = "torn" => sock.tcp) /\ (p = "foreign" => ~sock.tcp)
  /\ UNCHANGED <<sock, worker, held, reader, results, closed>>

Discarded(p) == p \in {"empty", "broken"} \/ (p = "foreign" /\ ~sock.anyOrigin)

(* Peek leaves the header in the buffer, and reading 0 bytes takes nothing *)
(* out of it: a TCP worker finds the same header again.                    *)
Stays(p) == p = "empty" /\ sock.tcp

(* One packet is read: discarded, or on its way to the reader.  What a TCP *)
(* worker has buffered it reads even after Close.                          *)
Read ==
  /\ worker = "reading" /\ (~closed \/ sock.tcp) /\ queue # <<>> /\ Head(queue) # "torn"
  /\ queue' = IF Stays(Head(queue)) THEN queue ELSE Tail(queue)
  /\ IF Discarded(Head(queue)) THEN UNCHANGED <<worker, held>>
     ELSE worker' = "sending" /\ held' = Head(queue)
  /\ UNCHANGED <<sock, reader, results, closed>>

(* Mutant: an error of the read on a closed socket is skipped.             *)
ReadEnds_notOnClose == queue # <<>> /\ Head(queue) = "torn"

(* The next read fails for good.                                           *)
ReadEnds ==
  \/ queue # <<>> /\ Head(queue) = "torn"
  \/ closed /\ ~(sock.tcp /\ queue # <<>> /\ Stays(Head(queue)))

(* The worker returns, which closes inbound: as it must, or after an error *)
(* of the network.                                                         *)
WorkerExits ==
  /\ worker = "reading" /\ worker' = "exited"
  /\ UNCHANGED <<sock, queue, held, reader, results, closed>>

ReadFails == ReadEnds /\ WorkerExits
-----------------------------------------------------------------------------
(* The reader.                                                             *)

(* Mutant: the packet stays with the worker and is sent again.             *)
Taken_again == worker' = "reading" /\ held' = held

Taken == worker' = "reading" /\ held' = Idle

(* It takes a packet.  DescribeTunnel returns with its answer; discover    *)
(* collects answers; the servers handle any packet and go on.              *)
HandOver ==
  /\ worker = "sending" /\ reader = "reading"
  /\ Taken
  /\ IF Lookup /\ held = "answer"
     THEN /\ results < MaxResults /\ results' = results + 1
          /\ reader' = IF sock.reader = "describe" THEN "left" ELSE "reading"
     ELSE UNCHANGED <<reader, results>>
  /\ UNCHANGED <<sock, queue, closed>>

(* A lookup's timeout is over or its request could not be sent, or the     *)
(* tunnel's server goroutine exits.                                        *)
StopsReading == Lookup \/ sock.reader = "client"

Leave ==
  /\ reader = "reading" /\ StopsReading
  /\ reader' = "left"
  /\ UNCHANGED <<sock, queue, worker, held, results, closed>>

(* The servers return when the channel is closed.  A lookup takes nil      *)
(* packets from it until its timeout.                                      *)
ReaderEnds ==
  /\ reader = "reading" /\ worker = "exited" /\ ~Lookup
  /\ reader' = "left"
  /\ UNCHANGED <<sock, queue, worker, held, results, closed>>

(* Mutant: a lookup returns without its deferred Close.                    *)
LookupCloses_not == FALSE

LookupCloses == Lookup

(* The deferred Close of a lookup, with its return.                        *)
Return ==
  /\ reader = "left" /\ LookupCloses
  /\ reader' = "returned" /\ closed' = TRUE
  /\ UNCHANGED <<sock, queue, worker, held, results>>

(* Close by the owner of a router, or by Tunnel.Close after its server.    *)
Close ==
  /\ ~closed /\ (sock.reader = "server" \/ (sock.reader = "client" /\ reader = "left"))
  /\ closed' = TRUE
  /\ UNCHANGED <<sock, queue, worker, held, reader, results>>

Next ==
  \/ \E p \in Packets : Arrives(p)
  \/ Read \/ WorkerExits \/ HandOver \/ Leave \/ ReaderEnds \/ Return \/ Close

(* Goroutines that can run do; the timeout of a lookup expires.            *)
Spec ==
  /\ Init /\ [][Next]_vars
  /\ WF_vars(Read) /\ WF_vars(ReadFails) /\ WF_vars(HandOver)
  /\ WF_vars(Lookup /\ Leave) /\ WF_vars(ReaderEnds) /\ WF_vars(Return)
-----------------------------------------------------------------------------
(* A lookup returns with its socket closed, whatever arrives and even when *)
(* the receiver has ended before it.                                       *)
LookupReturns == Lookup => <>(reader = "returned" /\ closed)

(* The worker of a closed socket ends.  A router's takes every packet      *)
(* until the channel is closed; the others may leave the worker with a     *)
(* packet nobody will take, and a TCP worker with a frame of length 0 in   *)
(* its stream (serveUDPSocket, serveTCPSocket).                            *)
WorkerEndsUnlessStuck ==
  closed ~> \/ worker = "exited"
            \/ sock.reader # "server" /\ worker = "sending" /\ reader # "reading"
            \/ worker = "reading" /\ queue # <<>> /\ Stays(Head(queue))
=============================================================================
