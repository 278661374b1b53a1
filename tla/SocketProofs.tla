---------------------------- MODULE SocketProofs ----------------------------
(***************************************************************************)
(* Type correctness of Socket.tla, for any bounds and any of the readers,  *)
(* and who may still read when a socket is closed.                         *)
(***************************************************************************)
EXTENDS Socket, TLAPS

(* Who closes a socket, and when: a lookup closes it as it returns, the    *)
(* client's owner after the server goroutine has left; only a router is    *)
(* closed while its server reads.                                          *)
ClosedByOwner ==
  /\ Lookup => (closed = (reader = "returned"))
  /\ closed /\ reader = "reading" => sock.reader = "server"
  /\ reader = "returned" => Lookup

Inv == TypeOK /\ ClosedByOwner
-----------------------------------------------------------------------------
(* The socket has every type it should when it is made, and nothing has    *)
(* been closed.                                                            *)
LEMMA InitInv == Init => Inv
<1> SUFFICES ASSUME Init
             PROVE  TypeOK /\ ClosedByOwner
  BY DEF Inv
<1>1. ClosedByOwner
  BY DEF Init, ClosedByOwner
<1>2. queue \in Seq(Packets) /\ sock \in Sockets
  BY DEF Init
<1> QED
  BY <1>1, <1>2 DEF Init, TypeOK, Idle

(* The first packet of the queue is one, and not the mark of an idle       *)
(* worker.                                                                 *)
LEMMA FirstIsPacket ==
  ASSUME TypeOK, queue # <<>>
  PROVE  /\ Head(queue) \in Packets /\ Head(queue) # Idle
         /\ Tail(queue) \in Seq(Packets)
<1>1. queue \in Seq(Packets) /\ queue # <<>>
  BY DEF TypeOK
<1>2. Head(queue) \in Packets /\ Tail(queue) \in Seq(Packets)
  BY <1>1
<1>3. Idle \notin Packets
  BY DEF Idle, Packets
<1> QED
  BY <1>2, <1>3

(* What the receiver goroutine does to the types, one step at a time.      *)
LEMMA ReceiverInv ==
  ASSUME Inv, (\E p \in Packets : Arrives(p)) \/ Read \/ WorkerExits
  PROVE  Inv'
<1> USE DEF Inv
<1>0. UNCHANGED <<sock, reader, results, closed>>
  BY DEF Arrives, Read, WorkerExits
<1>1. ClosedByOwner'
  BY <1>0 DEF ClosedByOwner, Lookup
<1>2. ASSUME NEW p \in Packets, Arrives(p)
      PROVE  TypeOK'
  <2>1. queue' \in Seq(Packets) /\ worker' = worker /\ held' = held
    BY <1>2 DEF TypeOK, Arrives
  <2> QED
    BY <1>0, <2>1 DEF TypeOK
<1>3. CASE Read
  <2>1. Head(queue) \in Packets /\ Head(queue) # Idle /\ Tail(queue) \in Seq(Packets)
    BY <1>3, FirstIsPacket DEF Read
  <2>2. queue' \in Seq(Packets)
    BY <1>3, <2>1 DEF Read, TypeOK
  <2>3. /\ worker' \in {"reading", "sending", "exited"}
        /\ held' \in Packets \cup {Idle}
        /\ (held' # Idle) = (worker' = "sending")
    BY <1>3, <2>1 DEF Read, TypeOK
  <2> QED
    BY <1>0, <1>1, <2>2, <2>3 DEF TypeOK
<1>4. CASE WorkerExits
  <2>1. held' = held /\ held = Idle /\ worker' = "exited" /\ queue' = queue
    BY <1>4 DEF TypeOK, WorkerExits
  <2> QED
    BY <1>0, <1>1, <2>1 DEF TypeOK
<1> QED
  BY <1>1, <1>2, <1>3, <1>4

(* What the reader and the owner of the socket do.                         *)
LEMMA ReaderInv ==
  ASSUME Inv, HandOver \/ Leave \/ ReaderEnds \/ Return \/ Close
  PROVE  Inv'
<1> USE DEF Inv
<1>0. sock' = sock /\ queue' = queue
  BY DEF HandOver, Leave, ReaderEnds, Return, Close
<1>1. CASE HandOver
  <2>1. worker' = "reading" /\ held' = Idle /\ closed' = closed
    BY <1>1 DEF HandOver, Taken
  <2>2. /\ reader' \in {"reading", "left"} /\ reader = "reading"
        /\ results' \in Nat
    BY <1>1 DEF HandOver, TypeOK
  <2>3. TypeOK'
    BY <1>0, <2>1, <2>2 DEF TypeOK
  <2>4. ClosedByOwner'
    BY <1>0, <2>1, <2>2 DEF ClosedByOwner, Lookup
  <2> QED
    BY <2>3, <2>4
<1>2. CASE Leave
  BY <1>0, <1>2 DEF Leave, TypeOK, ClosedByOwner, Lookup
<1>3. CASE ReaderEnds
  BY <1>0, <1>3 DEF ReaderEnds, TypeOK, ClosedByOwner, Lookup
<1>4. CASE Return
  BY <1>0, <1>4 DEF Return, LookupCloses, TypeOK, ClosedByOwner, Lookup
<1>5. CASE Close
  BY <1>0, <1>5 DEF Close, TypeOK, ClosedByOwner, Lookup
<1> QED
  BY <1>1, <1>2, <1>3, <1>4, <1>5

(* Every reachable state of the socket satisfies Inv.                      *)
THEOREM Invariance == Spec => []Inv
<1>1. ASSUME Inv, [Next]_vars
      PROVE  Inv'
  <2>1. CASE Next
    BY <1>1, <2>1, ReceiverInv, ReaderInv DEF Next
  <2>2. CASE UNCHANGED vars
    BY <1>1, <2>2 DEF vars, Inv, TypeOK, ClosedByOwner, Lookup
  <2> QED
    BY <1>1, <2>1, <2>2
<1> QED
  BY InitInv, <1>1, PTL DEF Spec

(* The worker holds a packet exactly while it waits for its reader, and    *)
(* what it holds is one that was read (serveUDPSocket, serveTCPSocket).    *)
THEOREM TypeCorrect == Spec => []TypeOK
<1>1. Inv => TypeOK
  BY DEF Inv
<1> QED
  BY Invariance, <1>1, PTL

(* A lookup has returned exactly when its socket is closed, and a tunnel's *)
(* socket is not closed under its server goroutine: only a router's reader *)
(* can meet a socket that is closed while it reads.                        *)
THEOREM ClosedByOwnerCorrect == Spec => []ClosedByOwner
<1>1. Inv => ClosedByOwner
  BY DEF Inv
<1> QED
  BY Invariance, <1>1, PTL
=============================================================================
