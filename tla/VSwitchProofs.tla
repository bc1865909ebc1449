--------------------------- MODULE VSwitchProofs ---------------------------
(***************************************************************************)
(* Proofs about VSwitch, for every set of connections and addresses and    *)
(* every number of peers, length of queues and number of frames.           *)
(*                                                                         *)
(* None of the switch's invariants is inductive alone.  TableInv says how  *)
(* the port table, the numbers the goroutines remember and the goroutines  *)
(* go together; with it Switch.peers is the number of peer ports and an    *)
(* address on a port has a reader that will clean up.  RouteInv follows a  *)
(* frame from lookup to the queues and shows that it never turns back.     *)
(* OrderInv is about time: until the last peer, the guest or the uplink    *)
(* loses its port, either there never was a peer and nothing was ever      *)
(* queued, or whoever sends inline has no frame in any queue.              *)
(***************************************************************************)
EXTENDS VSwitch, FiniteSetTheorems, TLAPS

USE SwitchConstants

\* The two wires that are no peers have fixed numbers.
FixedPorts == portOf[Up] = Uplink /\ portOf[Loc] = Local

\* A connection gets a peer port before its goroutines start.
PortsGiven ==
    \A c \in Conn :
        /\ portOf[c] \in PeerPort \cup {NoPort}
        /\ reader[c] = "none" => portOf[c] = NoPort
        /\ reader[c] \notin {"none", "gone"} => portOf[c] \in PeerPort
        /\ writer[c] # "none" => portOf[c] \in PeerPort

\* Behind a number is the wire that remembers it.
PortsRemembered == \A p \in Port : ports[p] # None => portOf[ports[p]] = p

\* The uplink comes first, then the guest, then the peers, and until a port of
\* theirs is removed the first two stay.
PortsInOrder ==
    /\ writer[Loc] # "none" => writer[Up] # "none"
    /\ \A p \in PeerPort : ports[p] # None => writer[Loc] # "none"
    /\ ~thinned => /\ writer[Up] # "none" => ports[Uplink] # None
                   /\ writer[Loc] # "none" => ports[Local] # None

TableInv == FixedPorts /\ PortsGiven /\ PortsRemembered /\ PortsInOrder

\* A frame that is forwarded has been read, one that is looked up has an
\* address, one that was found on a port goes to another port than its own, and
\* no queue holds a frame of its own wire.
RouteInv ==
    /\ \A k \in Caller :
          /\ reader[k] \in Forwarding => read[k] # 0
          /\ reader[k] = "lookup" => dst[k] \in Mac
          /\ reader[k] = "emit" => via[k] \in Port \ {portOf[WireOf(k)]}
          /\ WireOf(k) \notin targets[k]
    /\ \A w \in Wire :
          /\ \A i \in DOMAIN out[w] : WireOf(out[w][i].from) # w
          /\ \A i \in DOMAIN hand[w] : WireOf(hand[w][i].from) # w

\* Before the first peer there is nothing in the queues.
NothingQueued ==
    (peers = 0 /\ ~thinned) =>
        /\ \A w \in Wire : out[w] = <<>> /\ hand[w] = <<>>
        /\ \A k \in Caller : reader[k] # "queue"
        /\ \A c \in Conn : reader[c] = "none"

\* Whoever sends inline has nothing in the queues.
InlineAlone ==
    ~thinned =>
        \A k \in Caller : reader[k] = "send" =>
            \A t \in Wire :
                /\ \A i \in DOMAIN out[t] : out[t][i].from # k
                /\ \A i \in DOMAIN hand[t] : hand[t][i].from # k

\* No frame is younger than the one its caller works on,
NothingAhead ==
    \A t \in Wire :
        /\ \A i \in DOMAIN out[t] : out[t][i].n <= read[out[t][i].from]
        /\ \A i \in DOMAIN hand[t] : hand[t][i].n <= read[hand[t][i].from]

\* and what is on its way to a wire is in order: what the writer holds, what is
\* in the queue.
InOrder ==
    ~thinned =>
        /\ ~overtaken
        /\ \A t \in Wire :
             /\ \A i \in DOMAIN hand[t], j \in DOMAIN out[t] :
                   hand[t][i].from = out[t][j].from => hand[t][i].n <= out[t][j].n
             /\ \A i, j \in DOMAIN out[t] :
                   i < j /\ out[t][i].from = out[t][j].from => out[t][i].n <= out[t][j].n

OrderInv == NothingQueued /\ InlineAlone /\ NothingAhead /\ InOrder

IInv == TypeOK /\ TableInv /\ PeersCounted /\ MacsBacked /\ RouteInv /\ NoEcho /\ OrderInv

-----------------------------------------------------------------------------
(* Facts about the operators                                                *)

\* There are finitely many wires and callers.
LEMMA WireFinite == IsFiniteSet(Wire) /\ IsFiniteSet(Caller)
<1>1. IsFiniteSet(Conn \cup {Up}) /\ IsFiniteSet(Conn \cup {Loc})
  BY FS_AddElement
<1>2. IsFiniteSet((Conn \cup {Up}) \cup {Loc})
  BY <1>1, FS_AddElement
<1>3. Wire \in SUBSET ((Conn \cup {Up}) \cup {Loc})
  BY DEF Wire
<1>4. IsFiniteSet((Conn \cup {Loc}) \cup UpCaller)
  BY <1>1, FS_Union
<1> QED
  BY <1>2, <1>3, <1>4, FS_Subset DEF Caller

\* A caller forwards for one wire; that of a connection is the connection.
LEMMA CallerWire ==
    /\ \A k \in Caller : WireOf(k) \in Wire
    /\ \A c \in Conn : c \in Wire /\ c \in Caller /\ WireOf(c) = c
    /\ \A k \in Caller : WireOf(k) \in Conn => k \in Conn /\ WireOf(k) = k
    /\ Up \in Wire /\ Loc \in Wire
  BY DEF Caller, Wire, WireOf

\* The bound on all frames together bounds the frames of every caller.
LEMMA ReadBound ==
    ASSUME TypeOK, Cardinality(FramesRead) < MaxFrames, NEW k \in Caller
    PROVE  read[k] + 1 \in 1 .. MaxFrames
<1> SUFFICES ASSUME read[k] = MaxFrames PROVE FALSE
  BY DEF TypeOK
<1> DEFINE f == [n \in 1 .. MaxFrames |-> <<k, n>>]
<1>1. IsFiniteSet(FramesRead)
  <2>1. IsFiniteSet(Caller)
    BY WireFinite
  <2>2. IsFiniteSet(Caller \X (1 .. MaxFrames))
    <3>1. IsFiniteSet(1 .. MaxFrames)
      BY FS_Interval
    <3> QED
      BY <2>1, <3>1, FS_Product
  <2> QED
    BY <2>2, FS_Subset DEF FramesRead
<1>2. f \in Injection(1 .. MaxFrames, FramesRead)
  BY DEF FramesRead, Injection, IsInjective
<1>3. Cardinality(1 .. MaxFrames) = MaxFrames
  BY FS_Interval
<1>4. Cardinality(1 .. MaxFrames) <= Cardinality(FramesRead)
  BY <1>1, <1>2, FS_Injection
<1>5. Cardinality(FramesRead) \in Nat
  BY <1>1, FS_CardinalityType
<1> QED
  BY <1>3, <1>4, <1>5

\* What a caller's frame is made of.
LEMMA FrameType ==
    ASSUME TypeOK, NEW k \in Caller, read[k] # 0
    PROVE  Frame(k) \in Frames
  BY DEF TypeOK, Frames, Frame

\* A wire has a number when its goroutines have something to do.
LEMMA PortOfType ==
    ASSUME TableInv, NEW w \in Wire,
           (w \in Conn /\ reader[w] \notin {"none", "gone"}) \/ writer[w] = "failed" \/ w \notin Conn
    PROVE  portOf[w] \in Port /\ portOf[w] # NoPort
  BY DEF TableInv, FixedPorts, PortsGiven, Wire, Port, PeerPort, Uplink, Local, NoPort

\* RemovePort keeps the types of what it changes.
LEMMA RemovePortType ==
    ASSUME TypeOK, NEW p \in Port, RemovePort(p)
    PROVE  /\ ports' \in [Port -> Wire \cup {None}]
           /\ macs' \in [Mac -> Port \cup {NoPort}]
           /\ peers' \in Int
           /\ done' \in [Wire -> BOOLEAN]
           /\ thinned' \in BOOLEAN
<1>0. /\ ports \in [Port -> Wire \cup {None}] /\ macs \in [Mac -> Port \cup {NoPort}]
      /\ done \in [Wire -> BOOLEAN] /\ peers \in Int /\ thinned \in BOOLEAN
  BY DEF TypeOK
<1>1. macs' \in [Mac -> Port \cup {NoPort}]
  BY <1>0 DEF RemovePort
<1>2. CASE ports[p] = None
  BY <1>0, <1>1, <1>2 DEF RemovePort
<1>3. CASE ports[p] # None
  <2>1. ports' = [ports EXCEPT ![p] = None]
    BY <1>3 DEF RemovePort
  <2>2. done' = [done EXCEPT ![ports[p]] = TRUE]
    BY <1>3 DEF RemovePort
  <2>3. ports' \in [Port -> Wire \cup {None}]
    BY <1>0, <2>1
  <2>4. done' \in [Wire -> BOOLEAN]
    BY <1>0, <2>2
  <2>5. peers' \in Int
    BY <1>0, <1>3 DEF RemovePort
  <2>6. thinned' \in BOOLEAN
    BY <1>3, Zenon DEF RemovePort
  <2> QED
    BY <1>1, <2>3, <2>4, <2>5, <2>6
<1> QED
  BY <1>2, <1>3

\* A delivery keeps the types of the history.
LEMMA DeliverType ==
    ASSUME TypeOK, NEW f, NEW w, Deliver(f, w)
    PROVE  echoed' \in BOOLEAN /\ overtaken' \in BOOLEAN /\ thinned' \in BOOLEAN
<1> USE DEF Deliver
<1>1. echoed' \in BOOLEAN /\ overtaken' \in BOOLEAN
  BY Zenon
<1> QED
  BY <1>1 DEF TypeOK

-----------------------------------------------------------------------------
(* Type correctness                                                         *)

\* Every step of the switch keeps every variable in its type.
LEMMA TypeStep == TypeOK /\ TableInv /\ RouteInv /\ [Next]_vars => TypeOK'
<1> SUFFICES ASSUME TypeOK, TableInv, RouteInv, [Next]_vars PROVE TypeOK'
  OBVIOUS
<1> USE DEF table, queues, flow, ghost, ReaderPc, Forwarding
<1>1. CASE UNCHANGED vars
  BY <1>1 DEF vars, TypeOK
<1>2. ASSUME NEW c \in Conn, AddPeer(c) PROVE TypeOK'
  <2>1. c \in Wire /\ c \in Caller
    BY CallerWire
  <2>2. PICK p \in PeerPort : Open(c, p) /\ portOf' = [portOf EXCEPT ![c] = p]
    BY <1>2 DEF AddPeer
  <2>3. p \in Port
    BY DEF Port
  <2> QED
    BY <1>2, <2>1, <2>2, <2>3 DEF AddPeer, Open, TypeOK
<1>3. ASSUME NEW c \in Conn, RefusePeer(c) \/ ReaderEnds(c) PROVE TypeOK'
  BY <1>3, CallerWire DEF RefusePeer, ReaderEnds, TypeOK
<1>16. ASSUME NEW w \in Wire, WireGone(w) PROVE TypeOK'
  BY <1>16 DEF WireGone, TypeOK
<1>4. ASSUME NEW c \in Conn, ReaderRemoves(c) PROVE TypeOK'
  <2>1. c \in Wire /\ c \in Caller /\ RemovePort(portOf[c]) /\ portOf[c] \in Port
    BY <1>4, PortOfType, CallerWire DEF ReaderRemoves
  <2> QED
    BY <1>4, <2>1, RemovePortType DEF ReaderRemoves, TypeOK
<1>5. ASSUME NEW w \in Wire, AddPort(w) PROVE TypeOK'
  <2>1. portOf[w] \in Port
    BY <1>5 DEF AddPort, TableInv, FixedPorts, Port
  <2> QED
    BY <1>5, <2>1 DEF AddPort, Open, TypeOK
<1>6. ASSUME NEW k \in Caller, NEW src \in Mac \cup {Group}, NEW d \in Mac \cup {Group},
             Learn(k, src, d)
      PROVE  TypeOK'
  <2>1. portOf[WireOf(k)] \in Port \cup {NoPort}
    BY CallerWire DEF TypeOK
  <2>2. macs' \in [Mac -> Port \cup {NoPort}]
    BY <1>6, <2>1 DEF Learn, TypeOK
  <2> QED
    BY <1>6, <2>2, ReadBound DEF Learn, TypeOK
<1>7. ASSUME NEW k \in Caller, Lookup(k) PROVE TypeOK'
  <2>0. /\ macs \in [Mac -> Port \cup {NoPort}] /\ via \in [Caller -> Port \cup {NoPort}]
        /\ reader \in [Caller -> ReaderPc] /\ dst \in [Caller -> Mac \cup {None}]
    BY DEF TypeOK
  <2>1. dst[k] \in Mac
    BY <1>7 DEF Lookup, RouteInv
  <2>2. macs' \in [Mac -> Port \cup {NoPort}] /\ via' \in [Caller -> Port \cup {NoPort}]
    BY <1>7, <2>0, <2>1 DEF Lookup
  <2>3. reader' \in [Caller -> ReaderPc]
    BY <1>7, <2>0 DEF Lookup
  <2>4. dst' \in [Caller -> Mac \cup {None}]
    BY <1>7, <2>0 DEF Lookup
  <2> QED
    BY <1>7, <2>2, <2>3, <2>4 DEF Lookup, TypeOK
<1>8. ASSUME NEW k \in Caller, Emit(k) PROVE TypeOK'
  <2>1. via[k] \in Port
    BY <1>8 DEF Emit, RouteInv
  <2>2. CASE ports[via[k]] = None
    <3>1. reader' \in [Caller -> ReaderPc] /\ via' \in [Caller -> Port \cup {NoPort}]
      BY <1>8, <2>2 DEF Emit, TypeOK
    <3> QED
      BY <1>8, <2>2, <3>1 DEF Emit, TypeOK
  <2>3. CASE ports[via[k]] # None
    <3>1. {ports[via[k]]} \in SUBSET Wire
      BY <2>1, <2>3 DEF TypeOK
    <3>2. targets' \in [Caller -> SUBSET Wire]
      BY <1>8, <2>3, <3>1 DEF Emit, TypeOK
    <3>3. reader' \in [Caller -> ReaderPc]
      <4>1. reader' = [reader EXCEPT ![k] = IF peers = 0 THEN "send" ELSE "queue"]
        BY <1>8, <2>3 DEF Emit
      <4>2. {"send", "queue"} \subseteq ReaderPc /\ reader \in [Caller -> ReaderPc]
        BY DEF ReaderPc, Forwarding, TypeOK
      <4> QED
        BY <4>1, <4>2
    <3>4. via' \in [Caller -> Port \cup {NoPort}]
      BY <1>8 DEF Emit, TypeOK
    <3>5. UNCHANGED <<table, queues, read, dst, alive, ghost>>
      BY <1>8 DEF Emit
    <3> QED
      BY <3>2, <3>3, <3>4, <3>5 DEF TypeOK
  <2> QED
    BY <2>2, <2>3
<1>9. ASSUME NEW k \in Caller, Flood(k) PROVE TypeOK'
  BY <1>9 DEF Flood, TypeOK
<1>10. ASSUME NEW k \in Caller, SendInline(k) PROVE TypeOK'
  <2>1. PICK t \in Wire : IF alive[t] THEN Deliver(Frame(k), t) ELSE UNCHANGED ghost
    BY <1>10 DEF SendInline, TypeOK
  <2>2. Frame(k) \in Frames
    BY <1>10, FrameType DEF SendInline, RouteInv, Forwarding
  <2>3. /\ echoed' \in BOOLEAN /\ overtaken' \in BOOLEAN /\ thinned' \in BOOLEAN
    BY <2>1, <2>2, DeliverType DEF TypeOK
  <2> QED
    BY <1>10, <2>3 DEF SendInline, TypeOK
<1>11. ASSUME NEW k \in Caller, Enqueue(k) PROVE TypeOK'
  <2>1. PICK t \in targets[k] :
            /\ out' = IF Len(out[t]) < OutQueue /\ writer[t] # "exited"
                      THEN [out EXCEPT ![t] = Append(@, Frame(k))] ELSE out
            /\ targets' = [targets EXCEPT ![k] = @ \ {t}]
            /\ reader' = [reader EXCEPT ![k] = IF targets[k] = {t} THEN "read" ELSE "queue"]
    BY <1>11 DEF Enqueue
  <2> t \in Wire
    BY DEF TypeOK
  <2>2. Frame(k) \in Frames
    BY <1>11, FrameType DEF Enqueue, RouteInv, Forwarding
  <2>3. out' \in [Wire -> Seq(Frames)] /\ \A v \in Wire : Len(out'[v]) <= OutQueue
    <3>1. /\ Append(out[t], Frame(k)) \in Seq(Frames)
          /\ Len(Append(out[t], Frame(k))) = Len(out[t]) + 1
          /\ Len(out[t]) \in Nat
      BY <2>2 DEF TypeOK
    <3>2. out \in [Wire -> Seq(Frames)] /\ \A v \in Wire : Len(out[v]) <= OutQueue
      BY DEF TypeOK
    <3>3. CASE Len(out[t]) < OutQueue /\ writer[t] # "exited"
      <4>1. out' = [out EXCEPT ![t] = Append(out[t], Frame(k))]
        BY <2>1, <3>3
      <4> QED
        BY <3>1, <3>2, <3>3, <4>1
    <3> QED
      BY <2>1, <3>2, <3>3
  <2>4. targets' \in [Caller -> SUBSET Wire]
    BY <2>1 DEF TypeOK
  <2>5. reader' \in [Caller -> ReaderPc]
    BY <2>1 DEF TypeOK
  <2> QED
    BY <1>11, <2>3, <2>4, <2>5 DEF Enqueue, TypeOK
<1>12. ASSUME NEW w \in Wire, WriterTakes(w) PROVE TypeOK'
  <2>1. Head(out[w]) \in Frames /\ Tail(out[w]) \in Seq(Frames)
        /\ Len(Tail(out[w])) <= OutQueue
    BY <1>12 DEF WriterTakes, TypeOK
  <2> QED
    BY <1>12, <2>1 DEF WriterTakes, TypeOK
<1>13. ASSUME NEW w \in Wire, WriterSends(w) PROVE TypeOK'
  <2>1. hand[w][1] \in Frames
    BY <1>13 DEF WriterSends, TypeOK
  <2>2. /\ echoed' \in BOOLEAN /\ overtaken' \in BOOLEAN /\ thinned' \in BOOLEAN
    BY <1>13, <2>1, DeliverType DEF WriterSends, TypeOK
  <2> QED
    BY <1>13, <2>2 DEF WriterSends, TypeOK
<1>14. ASSUME NEW w \in Wire, WriterRemoves(w) PROVE TypeOK'
  <2>1. RemovePort(portOf[w]) /\ portOf[w] \in Port
    BY <1>14, PortOfType DEF WriterRemoves
  <2> QED
    BY <1>14, <2>1, RemovePortType DEF WriterRemoves, TypeOK
<1>15. ASSUME NEW w \in Wire, WriterStops(w) PROVE TypeOK'
  BY <1>15 DEF WriterStops, TypeOK
<1> QED
  BY <1>1, <1>2, <1>3, <1>4, <1>5, <1>6, <1>7, <1>8, <1>9, <1>10, <1>11, <1>12, <1>13, <1>14, <1>15, <1>16
     DEF Next, ReaderStep, ForwardStep, WriterStep

-----------------------------------------------------------------------------
(* The port table                                                           *)

\* A reader that has started goes on; nothing else of the table changes.
LEMMA ReaderMoves ==
    ASSUME TypeOK, TableInv, UNCHANGED <<ports, portOf, writer, thinned>>,
           NEW k \in Caller, NEW l \in ReaderPc \ {"none"}, reader[k] \notin {"none", "gone"},
           reader' = [reader EXCEPT ![k] = l]
    PROVE  TableInv'
<1>1. FixedPorts' /\ PortsRemembered' /\ PortsInOrder'
  BY DEF TableInv, FixedPorts, PortsRemembered, PortsInOrder
<1>2. \A v \in Caller : /\ v # k => reader'[v] = reader[v]
                        /\ reader'[k] # "none" /\ (reader'[k] # "gone" => reader[k] # "gone")
  BY DEF TypeOK, ReaderPc
<1>3. Conn \subseteq Caller
  BY DEF Caller
<1>4. PortsGiven'
  BY <1>2, <1>3 DEF TableInv, PortsGiven
<1> QED
  BY <1>1, <1>4 DEF TableInv

\* RemovePort takes no port but one, and whoever loses the guest or the uplink
\* will know.
LEMMA RemovePortTable ==
    ASSUME TypeOK, TableInv, NEW p \in Port, RemovePort(p), UNCHANGED portOf
    PROVE  /\ PortsRemembered'
           /\ thinned' \/ (ports'[Local] = ports[Local] /\ ports'[Uplink] = ports[Uplink])
           /\ \A q \in Port : ports'[q] \in {ports[q], None}
           /\ thinned => thinned'
<1>1. Local \in Port /\ Uplink \in Port /\ (p \in {Local, Uplink} => p < 0)
  BY DEF PeerPort, Port, Local, Uplink
<1>2. ports' = ports \/ (ports' = [ports EXCEPT ![p] = None] /\ ports[p] # None)
  BY DEF RemovePort
<1>3. ports[p] # None /\ p < 0 => thinned'
  BY DEF RemovePort
<1>4. thinned => thinned'
  <2>1. CASE ports[p] = None
    BY <2>1, Zenon DEF RemovePort
  <2>2. CASE ports[p] # None
    BY <2>2, Zenon DEF RemovePort
  <2> QED
    BY <2>1, <2>2
<1> QED
  BY <1>1, <1>2, <1>3, <1>4 DEF TypeOK, TableInv, PortsRemembered

\* A step that removes a port keeps the table.
LEMMA TableRemoves ==
    ASSUME TypeOK, TableInv, NEW p \in Port, RemovePort(p), UNCHANGED portOf,
           \A w \in Wire : writer'[w] = "none" <=> writer[w] = "none",
           \A c \in Conn : /\ reader'[c] = "none" => reader[c] = "none"
                           /\ reader'[c] \notin {"none", "gone"} => reader[c] \notin {"none", "gone"}
    PROVE  TableInv'
<1>1. PortsRemembered' /\ FixedPorts'
  BY RemovePortTable DEF TableInv, FixedPorts
<1>2. PortsGiven'
  BY CallerWire DEF TableInv, PortsGiven
<1>3. PortsInOrder'
  <2>1. PeerPort \subseteq Port
    BY DEF Port
  <2> QED
    BY <2>1, RemovePortTable, CallerWire DEF TableInv, PortsInOrder
<1> QED
  BY <1>1, <1>2, <1>3 DEF TableInv

\* Every step keeps numbers, goroutines and table together.
LEMMA TableStep == TypeOK /\ TableInv /\ [Next]_vars => TableInv'
<1> SUFFICES ASSUME TypeOK, TableInv, [Next]_vars PROVE TableInv'
  OBVIOUS
<1> USE DEF table, queues, flow, ghost
<1>0. Up \in Wire /\ Loc \in Wire /\ Conn \subseteq Wire /\ Conn \subseteq Caller
  BY CallerWire
<1>1. CASE UNCHANGED vars
  BY <1>1 DEF vars, TableInv, FixedPorts, PortsGiven, PortsRemembered, PortsInOrder
<1>2. ASSUME NEW c \in Conn, AddPeer(c) PROVE TableInv'
  <2>1. PICK p \in PeerPort : ports[p] = None /\ Open(c, p) /\ portOf' = [portOf EXCEPT ![c] = p]
    BY <1>2 DEF AddPeer
  <2>2. p \in Port /\ Local \in Port /\ Uplink \in Port /\ p # Local /\ p # Uplink
    BY DEF Port, PeerPort, Local, Uplink
  <2>3. \A q \in Port : ports[q] # c
    BY <1>2 DEF AddPeer, TableInv, PortsGiven, PortsRemembered, Port, PeerPort, Local, Uplink, NoPort, Wire
  <2>4. /\ \A v \in Wire : v # c => portOf'[v] = portOf[v] /\ writer'[v] = writer[v]
        /\ \A v \in Conn : v # c => reader'[v] = reader[v]
        /\ portOf'[c] = p /\ reader'[c] = "read" /\ UNCHANGED thinned
    BY <1>0, <1>2, <2>1 DEF AddPeer, Open, TypeOK
  <2>5. FixedPorts' /\ PortsGiven'
    BY <1>0, <2>1, <2>4 DEF TableInv, FixedPorts, PortsGiven
  <2>6. PortsRemembered'
    BY <1>0, <2>1, <2>2, <2>3 DEF Open, TypeOK, TableInv, PortsRemembered
  <2>7. PortsInOrder'
    <3>1. writer[Loc] # "none" /\ writer'[Loc] = writer[Loc] /\ writer'[Up] = writer[Up]
      BY <1>0, <1>2, <2>4 DEF AddPeer
    <3>2. ports'[Uplink] = ports[Uplink] /\ ports'[Local] = ports[Local]
      BY <2>1, <2>2 DEF Open, TypeOK
    <3> QED
      BY <2>4, <3>1, <3>2 DEF TableInv, PortsInOrder
  <2> QED
    BY <2>5, <2>6, <2>7 DEF TableInv
<1>3. ASSUME NEW c \in Conn, RefusePeer(c) PROVE TableInv'
  <2>1. /\ UNCHANGED <<ports, portOf, writer, thinned>> /\ reader[c] = "none" /\ reader'[c] = "gone"
        /\ \A v \in Conn : v # c => reader'[v] = reader[v]
    BY <1>0, <1>3 DEF RefusePeer, TypeOK
  <2> QED
    BY <2>1 DEF TableInv, FixedPorts, PortsGiven, PortsRemembered, PortsInOrder
<1>4. ASSUME NEW c \in Conn, ReaderEnds(c) PROVE TableInv'
  BY <1>0, <1>4, ReaderMoves DEF ReaderEnds, ReaderPc
<1>5. ASSUME NEW w \in Wire, WireGone(w) PROVE TableInv'
  BY <1>5 DEF WireGone, TableInv, FixedPorts, PortsGiven, PortsRemembered, PortsInOrder
<1>6. ASSUME NEW c \in Conn, ReaderRemoves(c) PROVE TableInv'
  <2>1. portOf[c] \in Port /\ RemovePort(portOf[c])
    BY <1>6 DEF ReaderRemoves, TableInv, PortsGiven, Port
  <2>2. /\ UNCHANGED <<portOf, writer>> /\ reader'[c] = "gone" /\ reader[c] = "remove"
        /\ \A v \in Conn : v # c => reader'[v] = reader[v]
    BY <1>0, <1>6 DEF ReaderRemoves, TypeOK
  <2> QED
    BY <2>1, <2>2, TableRemoves
<1>7. ASSUME NEW w \in Wire, AddPort(w) PROVE TableInv'
  <2>1. /\ Local \in Port /\ Uplink \in Port /\ Local # Uplink
        /\ Local \notin PeerPort /\ Uplink \notin PeerPort /\ PeerPort \subseteq Port
    BY DEF Port, PeerPort, Local, Uplink
  <2>2. portOf[w] = IF w = Up THEN Uplink ELSE Local
    BY <1>7 DEF AddPort, TableInv, FixedPorts
  <2>3. w \notin Conn /\ w \in {Up, Loc}
    BY <1>7 DEF AddPort
  <2>4. /\ UNCHANGED <<portOf, reader, thinned>> /\ writer'[w] = "take"
        /\ \A v \in Wire : v # w => writer'[v] = writer[v]
        /\ ports' = [ports EXCEPT ![portOf[w]] = w]
        /\ w = Loc => writer[Up] # "none"
    BY <1>7 DEF AddPort, Open, TypeOK
  <2>5. FixedPorts' /\ PortsGiven'
    BY <1>0, <2>3, <2>4 DEF TableInv, FixedPorts, PortsGiven
  <2>6. PortsRemembered'
    BY <2>1, <2>2, <2>4 DEF TypeOK, TableInv, PortsRemembered
  <2>7. PortsInOrder'
    <3>1. /\ \A p \in PeerPort : ports'[p] = ports[p]
          /\ \A p \in {Uplink, Local} : ports'[p] = IF p = portOf[w] THEN w ELSE ports[p]
          /\ w # None
      BY <2>1, <2>2, <2>4 DEF TypeOK
    <3> QED
      BY <1>0, <2>2, <2>3, <2>4, <3>1 DEF TableInv, PortsInOrder
  <2> QED
    BY <2>5, <2>6, <2>7 DEF TableInv
<1>8. ASSUME NEW k \in Caller, NEW src \in Mac \cup {Group}, NEW d \in Mac \cup {Group},
             Learn(k, src, d)
      PROVE  TableInv'
  BY <1>8, ReaderMoves DEF Learn, ReaderPc, Forwarding
<1>9. ASSUME NEW k \in Caller, ForwardStep(k) PROVE TableInv'
  <2>1. \E l \in ReaderPc \ {"none"} : reader' = [reader EXCEPT ![k] = l]
    BY <1>9 DEF ForwardStep, Lookup, Emit, Flood, SendInline, Enqueue, ReaderPc, Forwarding
  <2>2. UNCHANGED <<ports, portOf, writer, thinned>> /\ reader[k] \notin {"none", "gone"}
    BY <1>9 DEF ForwardStep, Lookup, Emit, Flood, SendInline, Enqueue, Deliver
  <2> QED
    BY <2>1, <2>2, ReaderMoves
<1>10. ASSUME NEW w \in Wire, WriterTakes(w) \/ WriterSends(w) \/ WriterStops(w) PROVE TableInv'
  <2>1. UNCHANGED <<ports, portOf, reader, thinned>>
    BY <1>10 DEF WriterTakes, WriterSends, WriterStops, Deliver
  <2>2. \A v \in Wire : writer'[v] = "none" <=> writer[v] = "none"
    BY <1>10 DEF WriterTakes, WriterSends, WriterStops, TypeOK
  <2> QED
    BY <1>0, <2>1, <2>2 DEF TableInv, FixedPorts, PortsGiven, PortsRemembered, PortsInOrder
<1>11. ASSUME NEW w \in Wire, WriterRemoves(w) PROVE TableInv'
  <2>1. portOf[w] \in Port /\ RemovePort(portOf[w]) /\ UNCHANGED <<portOf, reader>>
    BY <1>11, PortOfType DEF WriterRemoves
  <2>2. \A v \in Wire : writer'[v] = "none" <=> writer[v] = "none"
    BY <1>11 DEF WriterRemoves, TypeOK
  <2> QED
    BY <2>1, <2>2, TableRemoves
<1> QED
  BY <1>1, <1>2, <1>3, <1>4, <1>5, <1>6, <1>7, <1>8, <1>9, <1>10, <1>11
     DEF Next, ReaderStep, WriterStep

-----------------------------------------------------------------------------
(* Switch.peers                                                             *)

\* There are finitely many peer ports.
LEMMA UsedFinite == IsFiniteSet(UsedPeerPorts)
<1>1. IsFiniteSet(PeerPort)
  BY FS_Interval DEF PeerPort
<1>2. UsedPeerPorts \in SUBSET PeerPort
  BY DEF UsedPeerPorts
<1> QED
  BY <1>1, <1>2, FS_Subset

\* A step that leaves the table alone leaves the count right.
LEMMA CountKept ==
    ASSUME PeersCounted, UNCHANGED <<ports, peers>>
    PROVE  PeersCounted'
  BY DEF PeersCounted, UsedPeerPorts

\* RemovePort counts a peer out when it takes its port, and only then.
LEMMA RemovePortCount ==
    ASSUME TypeOK, PeersCounted, NEW p \in Port, RemovePort(p)
    PROVE  PeersCounted' /\ (peers' = 0 => peers = 0 \/ thinned')
<1> p \in Int /\ (p \in PeerPort <=> p >= 0)
  BY DEF Port, PeerPort, Uplink, Local
<1>1. CASE ports[p] = None
  BY <1>1, CountKept DEF RemovePort
<1>2. CASE ports[p] # None /\ p \in PeerPort
  <2>1. UsedPeerPorts' = UsedPeerPorts \ {p} /\ p \in UsedPeerPorts
    BY <1>2 DEF RemovePort, UsedPeerPorts, TypeOK, Port
  <2>2. Cardinality(UsedPeerPorts \ {p}) = Cardinality(UsedPeerPorts) - 1
    BY <2>1, UsedFinite, FS_RemoveElement
  <2>3. Cardinality(UsedPeerPorts') = Cardinality(UsedPeerPorts) - 1
    BY <2>1, <2>2
  <2>4. peers' = peers - 1 /\ (peers = 1 => thinned')
    BY <1>2 DEF RemovePort
  <2> QED
    BY <2>3, <2>4 DEF PeersCounted, TypeOK
<1>3. CASE ports[p] # None /\ p \notin PeerPort
  <2>1. UsedPeerPorts' = UsedPeerPorts /\ peers' = peers
    BY <1>3 DEF RemovePort, UsedPeerPorts, TypeOK, Port
  <2> QED
    BY <2>1 DEF PeersCounted
<1> QED
  BY <1>1, <1>2, <1>3

\* Every step keeps the count.
LEMMA CountStep == TypeOK /\ TableInv /\ PeersCounted /\ [Next]_vars => PeersCounted'
<1> SUFFICES ASSUME TypeOK, TableInv, PeersCounted, [Next]_vars PROVE PeersCounted'
  OBVIOUS
<1> USE DEF table, queues, flow, ghost
<1>1. CASE UNCHANGED vars
  BY <1>1, CountKept DEF vars
<1>2. ASSUME NEW c \in Conn, AddPeer(c) PROVE PeersCounted'
  <2>1. PICK p \in PeerPort : ports[p] = None /\ Open(c, p)
    BY <1>2 DEF AddPeer
  <2>2. UsedPeerPorts' = UsedPeerPorts \cup {p} /\ p \notin UsedPeerPorts
    <3>1. PeerPort \subseteq Port /\ c # None /\ DOMAIN ports = Port
      BY DEF TypeOK, Port, Wire
    <3>2. \A q \in PeerPort : ports'[q] = IF q = p THEN c ELSE ports[q]
      BY <2>1, <3>1 DEF Open
    <3> QED
      BY <2>1, <3>1, <3>2 DEF UsedPeerPorts
  <2>3. Cardinality(UsedPeerPorts \cup {p}) = Cardinality(UsedPeerPorts) + 1
    BY <2>2, UsedFinite, FS_AddElement
  <2>4. Cardinality(UsedPeerPorts') = Cardinality(UsedPeerPorts) + 1
    BY <2>2, <2>3
  <2> QED
    BY <1>2, <2>4 DEF AddPeer, PeersCounted
<1>3. ASSUME NEW c \in Conn, RefusePeer(c) \/ ReaderEnds(c) PROVE PeersCounted'
  BY <1>3, CountKept DEF RefusePeer, ReaderEnds
<1>4. ASSUME NEW c \in Conn, ReaderRemoves(c) PROVE PeersCounted'
  <2>1. portOf[c] \in Port /\ RemovePort(portOf[c])
    BY <1>4 DEF ReaderRemoves, TableInv, PortsGiven, Port
  <2> QED
    BY <2>1, RemovePortCount
<1>10. ASSUME NEW w \in Wire, WireGone(w) PROVE PeersCounted'
  BY <1>10, CountKept DEF WireGone
<1>5. ASSUME NEW w \in Wire, AddPort(w) PROVE PeersCounted'
  <2>1. portOf[w] \notin PeerPort
    BY <1>5 DEF AddPort, TableInv, FixedPorts, PeerPort, Uplink, Local
  <2>2. UsedPeerPorts' = UsedPeerPorts
    BY <1>5, <2>1 DEF AddPort, Open, UsedPeerPorts, TypeOK, Port
  <2> QED
    BY <1>5, <2>2 DEF AddPort, PeersCounted
<1>6. ASSUME NEW k \in Caller, NEW src \in Mac \cup {Group}, NEW d \in Mac \cup {Group},
             Learn(k, src, d)
      PROVE  PeersCounted'
  BY <1>6, CountKept DEF Learn
<1>7. ASSUME NEW k \in Caller, ForwardStep(k) PROVE PeersCounted'
  BY <1>7, CountKept DEF ForwardStep, Lookup, Emit, Flood, SendInline, Enqueue
<1>8. ASSUME NEW w \in Wire, WriterTakes(w) \/ WriterSends(w) \/ WriterStops(w) PROVE PeersCounted'
  BY <1>8, CountKept DEF WriterTakes, WriterSends, WriterStops
<1>9. ASSUME NEW w \in Wire, WriterRemoves(w) PROVE PeersCounted'
  BY <1>9, PortOfType, RemovePortCount DEF WriterRemoves
<1> QED
  BY <1>1, <1>2, <1>3, <1>4, <1>5, <1>6, <1>7, <1>8, <1>9, <1>10 DEF Next, ReaderStep, WriterStep

-----------------------------------------------------------------------------
(* Switch.macs                                                              *)

\* An address that stays where it was keeps its reader, unless that goes.
LEMMA MacsKept ==
    ASSUME MacsBacked, \A m \in Mac : macs'[m] \in {macs[m], NoPort},
           \A c \in Conn : portOf[c] \in PeerPort =>
               portOf'[c] = portOf[c] /\ (reader'[c] = "gone" => reader[c] = "gone")
    PROVE  MacsBacked'
  BY DEF MacsBacked, PeerPort, NoPort

\* Every step leaves an address on a peer's port only to a reader that will
\* remove it.
LEMMA MacsStep == TypeOK /\ TableInv /\ MacsBacked /\ [Next]_vars => MacsBacked'
<1> SUFFICES ASSUME TypeOK, TableInv, MacsBacked, [Next]_vars PROVE MacsBacked'
  OBVIOUS
<1> USE DEF table, queues, flow, ghost
<1>0. Conn \subseteq Wire /\ Conn \subseteq Caller
  BY CallerWire
<1>1. CASE UNCHANGED vars
  BY <1>1, MacsKept DEF vars
<1>2. ASSUME NEW c \in Conn, AddPeer(c) PROVE MacsBacked'
  <2>1. portOf[c] \notin PeerPort /\ UNCHANGED macs
    BY <1>2 DEF AddPeer, TableInv, PortsGiven, NoPort, PeerPort
  <2>2. \A v \in Conn : v # c => portOf'[v] = portOf[v] /\ reader'[v] = reader[v]
    BY <1>0, <1>2 DEF AddPeer, TypeOK
  <2> QED
    BY <2>1, <2>2, MacsKept
<1>3. ASSUME NEW c \in Conn, RefusePeer(c) PROVE MacsBacked'
  <2>1. portOf[c] \notin PeerPort /\ UNCHANGED <<macs, portOf>>
    BY <1>3 DEF RefusePeer, TableInv, PortsGiven, NoPort, PeerPort
  <2>2. \A v \in Conn : v # c => reader'[v] = reader[v]
    BY <1>0, <1>3 DEF RefusePeer, TypeOK
  <2> QED
    BY <2>1, <2>2, MacsKept
<1>4. ASSUME NEW c \in Conn, ReaderEnds(c) PROVE MacsBacked'
  <2>1. UNCHANGED <<macs, portOf>> /\ \A v \in Conn : reader'[v] = "gone" => reader[v] = "gone"
    BY <1>0, <1>4 DEF ReaderEnds, TypeOK
  <2> QED
    BY <2>1, MacsKept
<1>11. ASSUME NEW w \in Wire, WireGone(w) PROVE MacsBacked'
  BY <1>11, MacsKept DEF WireGone
<1>5. ASSUME NEW c \in Conn, ReaderRemoves(c) PROVE MacsBacked'
  <2>1. /\ portOf' = portOf
        /\ \A m \in Mac : macs'[m] = IF macs[m] = portOf[c] THEN NoPort ELSE macs[m]
        /\ \A v \in Conn : v # c => reader'[v] = reader[v]
    BY <1>0, <1>5 DEF ReaderRemoves, RemovePort, TypeOK
  <2> QED
    BY <2>1 DEF MacsBacked, PeerPort, NoPort
<1>6. ASSUME NEW w \in Wire, AddPort(w) PROVE MacsBacked'
  BY <1>6, MacsKept DEF AddPort
<1>7. ASSUME NEW k \in Caller, NEW src \in Mac \cup {Group}, NEW d \in Mac \cup {Group},
             Learn(k, src, d)
      PROVE  MacsBacked'
  <2>1. /\ portOf' = portOf /\ reader[k] = "read" /\ reader'[k] # "gone"
        /\ \A v \in Caller : v # k => reader'[v] = reader[v]
        /\ \A m \in Mac : macs'[m] = macs[m] \/ macs'[m] = portOf[WireOf(k)]
    BY <1>7 DEF Learn, TypeOK
  <2>2. portOf[WireOf(k)] \in PeerPort => k \in Conn /\ WireOf(k) = k
    <3>1. portOf[Up] \notin PeerPort /\ portOf[Loc] \notin PeerPort
      BY DEF TableInv, FixedPorts, PeerPort, Uplink, Local
    <3> QED
      BY <3>1, CallerWire DEF Wire
  <2> QED
    BY <1>0, <2>1, <2>2 DEF MacsBacked
<1>8. ASSUME NEW k \in Caller, ForwardStep(k) PROVE MacsBacked'
  <2>1. UNCHANGED portOf
    BY <1>8 DEF ForwardStep, Lookup, Emit, Flood, SendInline, Enqueue
  <2>2. \A v \in Caller : reader'[v] = "gone" => reader[v] = "gone"
    BY <1>8 DEF ForwardStep, Lookup, Emit, Flood, SendInline, Enqueue, TypeOK
  <2>3. \A m \in Mac : macs'[m] \in {macs[m], NoPort}
    BY <1>8 DEF ForwardStep, Lookup, Emit, Flood, SendInline, Enqueue, TypeOK
  <2> QED
    BY <1>0, <2>1, <2>2, <2>3, MacsKept
<1>9. ASSUME NEW w \in Wire, WriterTakes(w) \/ WriterSends(w) \/ WriterStops(w) PROVE MacsBacked'
  BY <1>9, MacsKept DEF WriterTakes, WriterSends, WriterStops
<1>10. ASSUME NEW w \in Wire, WriterRemoves(w) PROVE MacsBacked'
  BY <1>10, MacsKept DEF WriterRemoves, RemovePort
<1> QED
  BY <1>1, <1>2, <1>3, <1>4, <1>5, <1>6, <1>7, <1>8, <1>9, <1>10, <1>11 DEF Next, ReaderStep, WriterStep

-----------------------------------------------------------------------------
(* The way of a frame                                                       *)

\* A reader moves on; the queues and the targets stay as they are.
LEMMA RouteMoves ==
    ASSUME TypeOK, RouteInv, NEW k \in Caller, NEW l \in ReaderPc,
           reader' = [reader EXCEPT ![k] = l], UNCHANGED <<portOf, targets, out, hand>>,
           \A v \in Caller : v # k => read'[v] = read[v] /\ dst'[v] = dst[v] /\ via'[v] = via[v],
           l \in Forwarding => read'[k] # 0,
           l = "lookup" => dst'[k] \in Mac,
           l = "emit" => via'[k] \in Port \ {portOf[WireOf(k)]}
    PROVE  RouteInv'
<1>1. reader'[k] = l /\ \A v \in Caller : v # k => reader'[v] = reader[v]
  BY DEF TypeOK
<1> QED
  BY <1>1 DEF RouteInv

\* The queues lose frames, or get some of other wires.
LEMMA RouteQueues ==
    ASSUME TypeOK, RouteInv, UNCHANGED <<portOf, reader, targets, read, dst, via>>,
           \A w \in Wire : \A i \in DOMAIN out'[w] : WireOf(out'[w][i].from) # w,
           \A w \in Wire : \A i \in DOMAIN hand'[w] : WireOf(hand'[w][i].from) # w
    PROVE  RouteInv'
  BY DEF RouteInv

\* Every step keeps a frame on its way, away from where it came from.
LEMMA RouteStep == TypeOK /\ TableInv /\ RouteInv /\ [Next]_vars => RouteInv'
<1> SUFFICES ASSUME TypeOK, TableInv, RouteInv, [Next]_vars PROVE RouteInv'
  OBVIOUS
<1> USE DEF table, queues, flow, ghost
<1>0. Conn \subseteq Wire /\ Conn \subseteq Caller
  BY CallerWire
<1>1. CASE UNCHANGED vars
  BY <1>1 DEF vars, RouteInv
<1>2. ASSUME NEW c \in Conn, AddPeer(c) PROVE RouteInv'
  <2>1. \A k \in Caller : k # c => portOf'[WireOf(k)] = portOf[WireOf(k)] /\ reader'[k] = reader[k]
    <3>1. \A v \in Wire : v # c => portOf'[v] = portOf[v]
      BY <1>0, <1>2 DEF AddPeer, TypeOK
    <3>2. \A k \in Caller : k # c => WireOf(k) \in Wire /\ WireOf(k) # c
      BY CallerWire
    <3> QED
      BY <1>0, <1>2, <3>1, <3>2 DEF AddPeer, TypeOK
  <2>2. reader'[c] = "read"
    BY <1>0, <1>2 DEF AddPeer, TypeOK
  <2> QED
    BY <1>2, <2>1, <2>2 DEF AddPeer, RouteInv, Forwarding
<1>3. ASSUME NEW c \in Conn, RefusePeer(c) \/ ReaderEnds(c) PROVE RouteInv'
  BY <1>0, <1>3, RouteMoves DEF RefusePeer, ReaderEnds, Forwarding, ReaderPc
<1>4. ASSUME NEW c \in Conn, ReaderRemoves(c) PROVE RouteInv'
  BY <1>0, <1>4, RouteMoves DEF ReaderRemoves, Forwarding, ReaderPc
<1>5. ASSUME NEW w \in Wire, WireGone(w) PROVE RouteInv'
  BY <1>5 DEF WireGone, RouteInv
<1>6. ASSUME NEW w \in Wire, AddPort(w) PROVE RouteInv'
  BY <1>6 DEF AddPort, RouteInv
<1>7. ASSUME NEW k \in Caller, NEW src \in Mac \cup {Group}, NEW d \in Mac \cup {Group},
             Learn(k, src, d)
      PROVE  RouteInv'
  <2>1. read'[k] # 0 /\ dst'[k] = IF d = Group THEN None ELSE d
    BY <1>7 DEF Learn, TypeOK
  <2>2. \A v \in Caller : v # k => read'[v] = read[v] /\ dst'[v] = dst[v] /\ via'[v] = via[v]
    BY <1>7 DEF Learn, TypeOK
  <2>3. CASE d = Group
    BY <1>7, <2>1, <2>2, <2>3, RouteMoves DEF Learn, ReaderPc, Forwarding
  <2>4. CASE d # Group
    <3>1. reader' = [reader EXCEPT ![k] = "lookup"] /\ UNCHANGED <<portOf, targets, out, hand>>
      BY <1>7, <2>4 DEF Learn
    <3>2. dst'[k] \in Mac /\ "lookup" \in ReaderPc
      BY <2>1, <2>4 DEF ReaderPc, Forwarding
    <3> QED
      BY <2>1, <2>2, <3>1, <3>2, RouteMoves
  <2> QED
    BY <2>3, <2>4
<1>8. ASSUME NEW k \in Caller, Lookup(k) PROVE RouteInv'
  <2>1. read[k] # 0 /\ dst[k] \in Mac
    BY <1>8 DEF Lookup, RouteInv, Forwarding
  <2>2. \A v \in Caller : v # k => read'[v] = read[v] /\ dst'[v] = dst[v] /\ via'[v] = via[v]
    BY <1>8 DEF Lookup, TypeOK
  <2>3. CASE macs[dst[k]] \notin {NoPort, portOf[WireOf(k)]} /\ via' = [via EXCEPT ![k] = macs[dst[k]]]
             /\ reader' = [reader EXCEPT ![k] = "emit"]
    <3>1. via'[k] \in Port \ {portOf[WireOf(k)]}
      BY <2>1, <2>3 DEF TypeOK
    <3> QED
      BY <1>8, <2>1, <2>2, <2>3, <3>1, RouteMoves DEF Lookup, ReaderPc, Forwarding
  <2>4. CASE \E l \in {"read", "flood"} : reader' = [reader EXCEPT ![k] = l]
    BY <1>8, <2>1, <2>2, <2>4, RouteMoves DEF Lookup, ReaderPc, Forwarding
  <2> QED
    BY <1>8, <2>3, <2>4 DEF Lookup
<1>9. ASSUME NEW k \in Caller, Emit(k) \/ Flood(k) PROVE RouteInv'
  <2>1. read[k] # 0 /\ UNCHANGED <<portOf, read, dst, out, hand>>
    BY <1>9 DEF Emit, Flood, RouteInv, Forwarding
  <2>2. \A v \in Caller : v # k => reader'[v] = reader[v] /\ via'[v] = via[v] /\ targets'[v] = targets[v]
    BY <1>9 DEF Emit, Flood, TypeOK
  <2>3. reader'[k] \notin {"lookup", "emit"}
    BY <1>9 DEF Emit, Flood, TypeOK
  <2>4. \A p \in Port \ {portOf[WireOf(k)]} : ports[p] # WireOf(k)
    <3>1. WireOf(k) # None
      BY CallerWire
    <3> QED
      BY <3>1 DEF TableInv, PortsRemembered
  <2>5. WireOf(k) \notin targets'[k]
    <3>1. CASE Emit(k)
      <4>1. via[k] \in Port \ {portOf[WireOf(k)]} /\ WireOf(k) \notin targets[k]
        BY <3>1 DEF Emit, RouteInv
      <4> QED
        BY <2>4, <3>1, <4>1 DEF Emit, TypeOK
    <3>2. CASE Flood(k)
      <4>1. targets'[k] = {ports[p] : p \in Port \ {portOf[WireOf(k)]}} \ {None}
        BY <3>2 DEF Flood, TypeOK
      <4> QED
        BY <2>4, <4>1
    <3> QED
      BY <1>9, <3>1, <3>2
  <2> QED
    BY <2>1, <2>2, <2>3, <2>5 DEF RouteInv
<1>10. ASSUME NEW k \in Caller, SendInline(k) PROVE RouteInv'
  <2>1. \A v \in Caller : v # k => reader'[v] = reader[v] /\ targets'[v] = targets[v]
    BY <1>10 DEF SendInline, TypeOK
  <2>2. reader'[k] = "read" /\ targets'[k] = {}
    BY <1>10 DEF SendInline, TypeOK
  <2> QED
    BY <1>10, <2>1, <2>2 DEF SendInline, RouteInv, Forwarding
<1>11. ASSUME NEW k \in Caller, Enqueue(k) PROVE RouteInv'
  <2>1. PICK t \in targets[k] :
            /\ out' = IF Len(out[t]) < OutQueue /\ writer[t] # "exited"
                      THEN [out EXCEPT ![t] = Append(@, Frame(k))] ELSE out
            /\ targets' = [targets EXCEPT ![k] = @ \ {t}]
            /\ reader' = [reader EXCEPT ![k] = IF targets[k] = {t} THEN "read" ELSE "queue"]
    BY <1>11 DEF Enqueue
  <2>2. t \in Wire /\ t # WireOf(k) /\ read[k] # 0
    BY <1>11 DEF Enqueue, TypeOK, RouteInv, Forwarding
  <2>3. Frame(k) \in Frames /\ Frame(k).from = k
    BY <2>2, FrameType DEF Frame
  <2>4. \A v \in Wire : \A i \in DOMAIN out'[v] : WireOf(out'[v][i].from) # v
    <3>1. \A i \in DOMAIN Append(out[t], Frame(k)) : WireOf(Append(out[t], Frame(k))[i].from) # t
      <4>1. out[t] \in Seq(Frames) /\ \A i \in 1 .. Len(out[t]) : WireOf(out[t][i].from) # t
        BY <2>2 DEF TypeOK, RouteInv
      <4> QED
        BY <2>2, <2>3, <4>1
    <3> QED
      BY <2>1, <2>2, <3>1 DEF TypeOK, RouteInv
  <2>5. \A v \in Caller : v # k => reader'[v] = reader[v] /\ targets'[v] = targets[v]
    BY <2>1 DEF TypeOK
  <2>6. reader'[k] \in {"read", "queue"} /\ WireOf(k) \notin targets'[k]
    BY <2>1 DEF TypeOK, RouteInv
  <2> QED
    BY <1>11, <2>2, <2>4, <2>5, <2>6 DEF Enqueue, RouteInv
<1>12. ASSUME NEW w \in Wire, WriterTakes(w) PROVE RouteInv'
  <2>1. out[w] \in Seq(Frames) /\ out[w] # <<>>
    BY <1>12 DEF WriterTakes, TypeOK
  <2>2. \A i \in DOMAIN Tail(out[w]) : WireOf(Tail(out[w])[i].from) # w
    BY <2>1 DEF RouteInv
  <2>3. WireOf(Head(out[w]).from) # w
    BY <2>1 DEF RouteInv
  <2>4. \A v \in Wire : \A i \in DOMAIN out'[v] : WireOf(out'[v][i].from) # v
    BY <1>12, <2>2 DEF WriterTakes, TypeOK, RouteInv
  <2>5. \A v \in Wire : \A i \in DOMAIN hand'[v] : WireOf(hand'[v][i].from) # v
    BY <1>12, <2>3 DEF WriterTakes, TypeOK, RouteInv
  <2> QED
    BY <1>12, <2>4, <2>5, RouteQueues DEF WriterTakes
<1>13. ASSUME NEW w \in Wire, WriterSends(w) PROVE RouteInv'
  <2>1. \A v \in Wire : \A i \in DOMAIN hand'[v] : WireOf(hand'[v][i].from) # v
    BY <1>13 DEF WriterSends, TypeOK, RouteInv
  <2> QED
    BY <1>13, <2>1, RouteQueues DEF WriterSends, RouteInv
<1>14. ASSUME NEW w \in Wire, WriterRemoves(w) \/ WriterStops(w) PROVE RouteInv'
  <2>1. \A v \in Wire : \A i \in DOMAIN out'[v] : WireOf(out'[v][i].from) # v
    <3>1. out'[w] = <<>> /\ \A v \in Wire : v # w => out'[v] = out[v]
      BY <1>14 DEF WriterRemoves, WriterStops, TypeOK
    <3> QED
      BY <3>1 DEF RouteInv
  <2> QED
    BY <1>14, <2>1, RouteQueues DEF WriterRemoves, WriterStops, RouteInv
<1> QED
  BY <1>1, <1>2, <1>3, <1>4, <1>5, <1>6, <1>7, <1>8, <1>9, <1>10, <1>11, <1>12, <1>13, <1>14
     DEF Next, ReaderStep, ForwardStep, WriterStep

\* What the queues and the writers hold are frames.
LEMMA QueuedFrames ==
    ASSUME TypeOK, NEW t \in Wire
    PROVE  /\ \A i \in DOMAIN out[t] : out[t][i].from \in Caller /\ out[t][i].n \in 1 .. MaxFrames
           /\ \A i \in DOMAIN hand[t] : hand[t][i].from \in Caller /\ hand[t][i].n \in 1 .. MaxFrames
<1>1. out[t] \in Seq(Frames)
  BY DEF TypeOK
<1>2. \A i \in DOMAIN out[t] : out[t][i] \in Frames
  BY <1>1
<1>3. hand[t] = <<>> \/ \E f \in Frames : hand[t] = <<f>>
  BY DEF TypeOK
<1>4. \A i \in DOMAIN hand[t] : hand[t][i] \in Frames
  BY <1>3
<1> QED
  BY <1>2, <1>4 DEF Frames

\* RemovePort never forgets that a port was lost.
LEMMA ThinnedStays ==
    ASSUME NEW p, RemovePort(p), thinned
    PROVE  thinned'
<1>1. thinned' = thinned \/ thinned' = (thinned \/ p < 0 \/ peers = 1)
  BY Zenon DEF RemovePort
<1> QED
  BY <1>1, Zenon

\* Only the two sends write the history, and a port is lost for good.
LEMMA HistoryMoves ==
    ASSUME [Next]_vars
    PROVE  /\ \/ UNCHANGED <<echoed, overtaken>>
              \/ \E k \in Caller : SendInline(k)
              \/ \E w \in Wire : WriterSends(w)
           /\ thinned => thinned'
<1> USE DEF table, queues, flow, ghost
<1>1. CASE UNCHANGED vars
  BY <1>1 DEF vars
<1>2. ASSUME NEW c \in Conn, AddPeer(c) \/ RefusePeer(c) \/ ReaderStep(c)
      PROVE  UNCHANGED <<echoed, overtaken>> /\ (thinned => thinned')
  BY <1>2, ThinnedStays DEF AddPeer, RefusePeer, ReaderStep, ReaderEnds, ReaderRemoves
<1>3. ASSUME NEW w \in Wire, AddPort(w) \/ WireGone(w)
      PROVE  UNCHANGED <<echoed, overtaken>> /\ (thinned => thinned')
  BY <1>3 DEF AddPort, WireGone
<1>4. ASSUME NEW k \in Caller, ForwardStep(k)
      PROVE  (UNCHANGED <<echoed, overtaken>> \/ SendInline(k)) /\ (thinned => thinned')
  BY <1>4 DEF ForwardStep, Lookup, Emit, Flood, SendInline, Enqueue, Deliver
<1>5. ASSUME NEW w \in Wire, WriterStep(w)
      PROVE  (UNCHANGED <<echoed, overtaken>> \/ WriterSends(w)) /\ (thinned => thinned')
  BY <1>5, ThinnedStays DEF WriterStep, WriterTakes, WriterSends, WriterRemoves, WriterStops, Deliver
<1>6. ASSUME NEW k \in Caller, NEW src \in Mac \cup {Group}, NEW d \in Mac \cup {Group},
             Learn(k, src, d)
      PROVE  UNCHANGED <<echoed, overtaken>> /\ (thinned => thinned')
  BY <1>6 DEF Learn
<1> QED
  BY <1>1, <1>2, <1>3, <1>4, <1>5, <1>6 DEF Next

\* What an inline send delivers, and to whom.
LEMMA InlineDelivers ==
    ASSUME TypeOK, RouteInv, NEW k \in Caller, SendInline(k)
    PROVE  /\ Frame(k) \in Frames /\ Frame(k).from = k /\ Frame(k).n = read[k]
           /\ \/ UNCHANGED ghost
              \/ \E t \in Wire \ {WireOf(k)} : Deliver(Frame(k), t)
<1>1. Frame(k) \in Frames /\ Frame(k).from = k /\ Frame(k).n = read[k]
  BY FrameType DEF SendInline, RouteInv, Forwarding, Frame
<1>2. targets[k] \subseteq Wire \ {WireOf(k)}
  BY DEF TypeOK, RouteInv
<1> QED
  BY <1>1, <1>2 DEF SendInline

\* What a writer delivers.
LEMMA WriterDelivers ==
    ASSUME TypeOK, RouteInv, NEW w \in Wire, WriterSends(w)
    PROVE  /\ hand[w][1] \in Frames /\ hand[w] = <<hand[w][1]>>
           /\ WireOf(hand[w][1].from) # w
           /\ UNCHANGED ghost \/ Deliver(hand[w][1], w)
<1>1. hand[w][1] \in Frames /\ hand[w] = <<hand[w][1]>> /\ 1 \in DOMAIN hand[w]
  BY DEF WriterSends, TypeOK
<1>2. WireOf(hand[w][1].from) # w
  BY <1>1 DEF RouteInv
<1> QED
  BY <1>1, <1>2 DEF WriterSends

\* Every step keeps frames from the wire they came from.
LEMMA EchoStep == TypeOK /\ RouteInv /\ NoEcho /\ [Next]_vars => NoEcho'
<1> SUFFICES ASSUME TypeOK, RouteInv, NoEcho, [Next]_vars PROVE NoEcho'
  OBVIOUS
<1>1. ASSUME NEW f, NEW t, WireOf(f.from) # t, Deliver(f, t) PROVE NoEcho'
  BY <1>1, Zenon DEF Deliver, NoEcho
<1>2. CASE UNCHANGED echoed
  BY <1>2 DEF NoEcho
<1>3. ASSUME NEW k \in Caller, SendInline(k) PROVE NoEcho'
  <2>1. CASE UNCHANGED ghost
    BY <1>2, <2>1 DEF ghost
  <2>2. ASSUME NEW t \in Wire \ {WireOf(k)}, Deliver(Frame(k), t) PROVE NoEcho'
    <3>1. WireOf(Frame(k).from) # t
      BY <1>3, InlineDelivers
    <3> QED
      BY <1>1, <2>2, <3>1
  <2> QED
    BY <1>3, <2>1, <2>2, InlineDelivers
<1>4. ASSUME NEW w \in Wire, WriterSends(w) PROVE NoEcho'
  <2>1. CASE UNCHANGED ghost
    BY <1>2, <2>1 DEF ghost
  <2>2. CASE Deliver(hand[w][1], w)
    BY <1>1, <1>4, <2>2, WriterDelivers
  <2> QED
    BY <1>4, <2>1, <2>2, WriterDelivers
<1> QED
  BY <1>2, <1>3, <1>4, HistoryMoves

-----------------------------------------------------------------------------
(* The order of frames                                                      *)

\* A step that touches neither queues nor history and makes no reader send or
\* queue keeps the order, unless it is the first to count no peers.
LEMMA OrderQuiet ==
    ASSUME TypeOK, OrderInv, UNCHANGED <<out, hand, overtaken>>,
           read' \in [Caller -> 0 .. MaxFrames], \A k \in Caller : read[k] <= read'[k],
           thinned => thinned',
           \A k \in Caller : reader'[k] \in {"send", "queue"} => reader'[k] = reader[k],
           peers' = 0 /\ ~thinned' =>
               peers = 0 /\ \A c \in Conn : reader'[c] = reader[c]
    PROVE  OrderInv'
<1>1. NothingQueued'
  BY DEF OrderInv, NothingQueued
<1>2. InlineAlone'
  BY DEF OrderInv, InlineAlone
<1>3. NothingAhead'
  <2> SUFFICES ASSUME NEW t \in Wire
               PROVE  /\ \A i \in DOMAIN out[t] : out[t][i].n <= read'[out[t][i].from]
                      /\ \A i \in DOMAIN hand[t] : hand[t][i].n <= read'[hand[t][i].from]
    BY DEF NothingAhead
  <2>1. \A k \in Caller : read[k] \in Int /\ read'[k] \in Int
    BY DEF TypeOK
  <2> QED
    BY <2>1, QueuedFrames DEF OrderInv, NothingAhead
<1>4. InOrder'
  BY DEF OrderInv, InOrder
<1> QED
  BY <1>1, <1>2, <1>3, <1>4 DEF OrderInv

\* The two fixed ports are behind every peer, until one is lost.
LEMMA FixedBehindPeers ==
    ASSUME TypeOK, TableInv, ~thinned, NEW p \in PeerPort, ports[p] # None
    PROVE  ports[Local] = Loc /\ ports[Uplink] = Up
<1>1. Local \in Port /\ Uplink \in Port /\ Local # Uplink
      /\ Local \notin PeerPort \cup {NoPort} /\ Uplink \notin PeerPort \cup {NoPort}
  BY DEF Local, Uplink, Port, PeerPort, NoPort
<1>2. ports[Uplink] # None /\ ports[Local] # None
  BY DEF TableInv, PortsInOrder
<1>3. ports[Uplink] \in Wire /\ ports[Local] \in Wire
  BY <1>1, <1>2 DEF TypeOK
<1>4. portOf[ports[Local]] = Local /\ portOf[ports[Uplink]] = Uplink
  BY <1>1, <1>2 DEF TableInv, PortsRemembered
<1> QED
  BY <1>1, <1>3, <1>4 DEF TableInv, FixedPorts, PortsGiven, Wire

\* A flood is sent inline only where nothing was ever queued: with a peer there
\* are two targets at least, and before the first peer there is one at most.
LEMMA FloodCounts ==
    ASSUME TypeOK, TableInv, PeersCounted, NothingQueued,
           NEW k \in Caller, reader[k] = "flood", NEW all,
           all = {ports[p] : p \in Port \ {portOf[WireOf(k)]}} \ {None}
    PROVE  /\ Cardinality(all) = 1 /\ ~thinned => peers = 0
           /\ Cardinality(all) \notin {0, 1} => peers # 0 \/ thinned
<1>1. IsFiniteSet(all)
  <2>1. IsFiniteSet(Wire)
    BY WireFinite
  <2>2. all \in SUBSET Wire
    BY DEF TypeOK
  <2> QED
    BY <2>1, <2>2, FS_Subset
<1>2. /\ Local \in Port /\ Uplink \in Port /\ Local # Uplink /\ PeerPort \subseteq Port
      /\ Local \notin PeerPort /\ Uplink \notin PeerPort /\ Port = PeerPort \cup {Uplink, Local}
  BY DEF Local, Uplink, Port, PeerPort
<1>3. ASSUME peers # 0, ~thinned PROVE Cardinality(all) # 1
  <2>1. UsedPeerPorts # {}
    BY <1>3, FS_EmptySet DEF PeersCounted
  <2>2. PICK p \in PeerPort : ports[p] # None
    BY <2>1 DEF UsedPeerPorts
  <2>3. ports[Local] = Loc /\ ports[Uplink] = Up
    BY <1>3, <2>2, FixedBehindPeers
  <2>4. ports[p] # Up /\ ports[p] # Loc
    BY <1>2, <2>2 DEF TableInv, FixedPorts, PortsRemembered
  <2>5. Up # None /\ Loc # None
    BY DEF Wire
  <2>6. \E x, y \in all : x # y
    BY <1>2, <2>2, <2>3, <2>4, <2>5
  <2> QED
    BY <1>1, <2>6, FS_Singleton
<1>4. ASSUME peers = 0, ~thinned PROVE Cardinality(all) \in {0, 1}
  <2>1. UsedPeerPorts = {}
    BY <1>4, UsedFinite, FS_EmptySet DEF PeersCounted
  <2>2. \A p \in PeerPort : ports[p] = None
    BY <2>1 DEF UsedPeerPorts
  <2>3. WireOf(k) \in {Up, Loc}
    <3>1. k \notin Conn
      BY <1>4 DEF NothingQueued
    <3> QED
      BY <3>1, CallerWire DEF Wire
  <2>4. PICK x : all \subseteq {x}
    <3>1. portOf[WireOf(k)] = IF WireOf(k) = Up THEN Uplink ELSE Local
      BY <2>3 DEF TableInv, FixedPorts
    <3>2. PICK o \in Port : Port \ {portOf[WireOf(k)]} = PeerPort \cup {o}
      BY <1>2, <3>1
    <3>3. ASSUME NEW q \in Port \ {portOf[WireOf(k)]}, ports[q] # None PROVE q = o
      BY <2>2, <3>2, <3>3
    <3>4. all \subseteq {ports[o]}
      BY <3>3
    <3> QED
      BY <3>4
  <2>5. all = {} \/ all = {x}
    BY <2>4
  <2> QED
    BY <2>5, FS_EmptySet, FS_Singleton
<1> QED
  BY <1>3, <1>4

\* Emit and Flood: who goes on to send inline has nothing in the queues.
LEMMA OrderRouted ==
    ASSUME TypeOK, TableInv, PeersCounted, OrderInv, NEW k \in Caller, Emit(k) \/ Flood(k)
    PROVE  OrderInv'
<1> USE DEF table, queues, flow, ghost
<1>1. UNCHANGED <<peers, thinned, out, hand, overtaken, read>>
  BY DEF Emit, Flood
<1>2. \A v \in Caller : v # k => reader'[v] = reader[v]
  BY DEF Emit, Flood, TypeOK
<1>3. /\ reader'[k] = "send" /\ ~thinned => peers = 0
      /\ reader'[k] = "queue" => peers # 0 \/ thinned
  <2>1. CASE Emit(k)
    BY <2>1 DEF Emit, TypeOK
  <2>2. CASE Flood(k)
    <3> DEFINE all == {ports[p] : p \in Port \ {portOf[WireOf(k)]}} \ {None}
    <3>1. /\ reader'[k] = "send" => Cardinality(all) = 1
          /\ reader'[k] = "queue" => Cardinality(all) \notin {0, 1}
      BY <2>2 DEF Flood, TypeOK
    <3>2. reader[k] = "flood" /\ NothingQueued
      BY <2>2 DEF Flood, OrderInv
    <3> HIDE DEF all
    <3>3. all = {ports[p] : p \in Port \ {portOf[WireOf(k)]}} \ {None}
      BY DEF all
    <3> QED
      BY <3>1, <3>2, <3>3, FloodCounts
  <2> QED
    BY <2>1, <2>2
<1>4. reader[k] \in {"emit", "flood"}
  BY DEF Emit, Flood
<1>5. NothingQueued'
  <2>1. peers = 0 /\ ~thinned => k \notin Conn
    BY <1>4 DEF OrderInv, NothingQueued
  <2> QED
    BY <1>1, <1>2, <1>3, <2>1 DEF OrderInv, NothingQueued, Caller
<1>6. InlineAlone'
  BY <1>1, <1>2, <1>3 DEF OrderInv, NothingQueued, InlineAlone
<1>7. NothingAhead' /\ InOrder'
  BY <1>1 DEF OrderInv, NothingAhead, InOrder
<1> QED
  BY <1>5, <1>6, <1>7 DEF OrderInv

\* A delivery that is not younger than what is on its way keeps the order.
LEMMA OrderDelivers ==
    ASSUME TypeOK, OrderInv, NEW f, NEW t \in Wire,
           Deliver(f, t) \/ UNCHANGED ghost, UNCHANGED <<out, read, peers>>,
           \A v \in Wire : hand'[v] = hand[v] \/ hand'[v] = <<>>,
           ~thinned => \A g \in Waiting(t) : g.from = f.from => ~(g.n < f.n),
           \A k \in Caller : reader'[k] \in {reader[k], "read"},
           \A c \in Conn : reader[c] = "none" => reader'[c] = "none"
    PROVE  OrderInv'
<1>1. UNCHANGED thinned
  BY Zenon DEF Deliver, ghost
<1>2. ~thinned => ~overtaken'
  <2>1. ~thinned => ~overtaken
    BY DEF OrderInv, InOrder
  <2> QED
    BY <2>1, Zenon DEF Deliver, ghost
<1>3. NothingQueued'
  BY <1>1 DEF OrderInv, NothingQueued
<1>4. InlineAlone'
  BY <1>1 DEF OrderInv, InlineAlone
<1>5. NothingAhead'
  BY DEF OrderInv, NothingAhead
<1>6. InOrder'
  BY <1>1, <1>2 DEF OrderInv, InOrder
<1> QED
  BY <1>3, <1>4, <1>5, <1>6 DEF OrderInv

\* Enqueue: the frame is the youngest of its caller.
LEMMA OrderEnqueued ==
    ASSUME TypeOK, RouteInv, OrderInv, NEW k \in Caller, Enqueue(k)
    PROVE  OrderInv'
<1> USE DEF table, queues, flow, ghost
<1>1. PICK t \in targets[k] :
          /\ out' = IF Len(out[t]) < OutQueue /\ writer[t] # "exited"
                    THEN [out EXCEPT ![t] = Append(@, Frame(k))] ELSE out
          /\ reader' = [reader EXCEPT ![k] = IF targets[k] = {t} THEN "read" ELSE "queue"]
  BY DEF Enqueue
<1>2. UNCHANGED <<peers, thinned, hand, overtaken, read>> /\ reader[k] = "queue"
  BY DEF Enqueue
<1>3. t \in Wire /\ Frame(k) \in Frames /\ Frame(k).from = k /\ Frame(k).n = read[k]
  BY <1>2, FrameType DEF TypeOK, RouteInv, Forwarding, Frame
<1>4. /\ \A v \in Caller : v # k => reader'[v] = reader[v]
      /\ reader'[k] \in {"read", "queue"}
  BY <1>1 DEF TypeOK
<1>5. peers # 0 \/ thinned
  BY <1>2 DEF OrderInv, NothingQueued
<1>6. CASE out' = out
  BY <1>2, <1>4, <1>5, <1>6
     DEF OrderInv, NothingQueued, InlineAlone, NothingAhead, InOrder
<1>7. CASE out' = [out EXCEPT ![t] = Append(out[t], Frame(k))]
  <2>1. /\ out[t] \in Seq(Frames) /\ Len(out[t]) \in Nat
        /\ \A v \in Wire : v # t => out'[v] = out[v]
        /\ out'[t] = Append(out[t], Frame(k))
    BY <1>3, <1>7 DEF TypeOK
  <2>0. read[k] \in Int
    BY DEF TypeOK
  <2>2. \A v \in Wire : \A i \in DOMAIN out'[v] :
            \/ i \in DOMAIN out[v] /\ out'[v][i] = out[v][i]
            \/ /\ v = t /\ out'[v][i].from = k /\ out'[v][i].n = read[k]
               /\ i \in Int /\ \A j \in DOMAIN out[v] : j \in Int /\ j < i
    <3>1. \A i \in DOMAIN Append(out[t], Frame(k)) :
            \/ i \in DOMAIN out[t] /\ Append(out[t], Frame(k))[i] = out[t][i]
            \/ /\ Append(out[t], Frame(k))[i] = Frame(k)
               /\ i \in Int /\ \A j \in DOMAIN out[t] : j \in Int /\ j < i
      BY <1>3, <2>1
    <3> QED
      BY <1>3, <2>1, <3>1
  <2>3. NothingQueued'
    BY <1>2, <1>5 DEF NothingQueued
  <2>4. InlineAlone'
    BY <1>2, <1>4, <2>2 DEF OrderInv, InlineAlone
  <2>5. NothingAhead'
    <3>1. ASSUME NEW v \in Wire, NEW i \in DOMAIN out'[v]
          PROVE  out'[v][i].n <= read[out'[v][i].from]
      BY <2>0, <2>2, <3>1 DEF OrderInv, NothingAhead
    <3> QED
      BY <1>2, <3>1 DEF OrderInv, NothingAhead
  <2>6. InOrder'
    <3> SUFFICES ASSUME ~thinned PROVE InOrder'
      BY <1>2 DEF InOrder
    <3>2. ASSUME NEW v \in Wire, NEW i \in DOMAIN hand[v], NEW j \in DOMAIN out'[v],
                 hand[v][i].from = out'[v][j].from
          PROVE  hand[v][i].n <= out'[v][j].n
      BY <2>2, <3>2 DEF OrderInv, NothingAhead, InOrder
    <3>3. ASSUME NEW v \in Wire, NEW i \in DOMAIN out'[v], NEW j \in DOMAIN out'[v],
                 i < j, out'[v][i].from = out'[v][j].from
          PROVE  out'[v][i].n <= out'[v][j].n
      <4>1. CASE i \in DOMAIN out[v] /\ out'[v][i] = out[v][i]
        BY <2>0, <2>2, <3>3, <4>1 DEF OrderInv, NothingAhead, InOrder
      <4>2. CASE /\ out'[v][i].n = read[k]
                 /\ i \in Int /\ \A x \in DOMAIN out[v] : x \in Int /\ x < i
        <5>1. j \notin DOMAIN out[v]
          BY <3>3, <4>2
        <5>2. out'[v][j].n = read[k]
          BY <2>2, <3>3, <5>1
        <5> QED
          BY <2>0, <4>2, <5>2
      <4> QED
        BY <2>2, <4>1, <4>2
    <3> QED
      BY <1>2, <3>2, <3>3 DEF OrderInv, InOrder
  <2> QED
    BY <2>3, <2>4, <2>5, <2>6 DEF OrderInv
<1> QED
  BY <1>1, <1>6, <1>7

\* A writer takes the oldest frame of its queue.
LEMMA OrderTaken ==
    ASSUME TypeOK, OrderInv, NEW w \in Wire, WriterTakes(w)
    PROVE  OrderInv'
<1> USE DEF table, queues, flow, ghost
<1>1. UNCHANGED <<peers, thinned, reader, overtaken, read>> /\ out[w] # <<>>
  BY DEF WriterTakes
<1>2. /\ out[w] \in Seq(Frames) /\ Len(out[w]) \in Nat \ {0}
      /\ out'[w] = Tail(out[w]) /\ hand'[w] = <<out[w][1]>>
  BY <1>1 DEF WriterTakes, TypeOK
<1>9. \A v \in Wire : v # w => out'[v] = out[v] /\ hand'[v] = hand[v]
  BY DEF WriterTakes, TypeOK
<1>3. /\ \A i \in DOMAIN out'[w] : /\ i \in Nat \ {0} /\ i + 1 \in DOMAIN out[w]
                                   /\ out'[w][i] = out[w][i + 1]
      /\ \A i \in DOMAIN hand'[w] : hand'[w][i] = out[w][1]
      /\ 1 \in DOMAIN out[w]
  <2>1. \A i \in DOMAIN Tail(out[w]) : /\ i \in Nat \ {0} /\ i + 1 \in DOMAIN out[w]
                                      /\ Tail(out[w])[i] = out[w][i + 1]
    BY <1>1, <1>2
  <2>2. \A i \in DOMAIN <<out[w][1]>> : <<out[w][1]>>[i] = out[w][1]
    OBVIOUS
  <2>3. 1 \in DOMAIN out[w]
    BY <1>2
  <2> QED
    BY <1>2, <2>1, <2>2, <2>3
<1>4. NothingQueued'
  BY <1>1 DEF OrderInv, NothingQueued
<1>5. InlineAlone'
  <2> SUFFICES ASSUME ~thinned, NEW v \in Caller, reader[v] = "send", NEW t \in Wire
               PROVE  /\ \A i \in DOMAIN out'[t] : out'[t][i].from # v
                      /\ \A i \in DOMAIN hand'[t] : hand'[t][i].from # v
    BY <1>1 DEF InlineAlone
  <2> QED
    BY <1>3, <1>9 DEF OrderInv, InlineAlone
<1>6. NothingAhead'
  <2>1. ASSUME NEW v \in Wire
        PROVE  /\ \A i \in DOMAIN out'[v] : out'[v][i].n <= read[out'[v][i].from]
               /\ \A i \in DOMAIN hand'[v] : hand'[v][i].n <= read[hand'[v][i].from]
    BY <1>3, <1>9, <2>1 DEF OrderInv, NothingAhead
  <2> QED
    BY <1>1, <2>1 DEF OrderInv, NothingAhead
<1>7. InOrder'
  <2> SUFFICES ASSUME ~thinned PROVE InOrder'
    BY <1>1 DEF InOrder
  <2>2. ASSUME NEW v \in Wire, NEW i \in DOMAIN hand'[v], NEW j \in DOMAIN out'[v],
               hand'[v][i].from = out'[v][j].from
        PROVE  hand'[v][i].n <= out'[v][j].n
    BY <1>3, <1>9, <2>2 DEF OrderInv, InOrder
  <2>3. ASSUME NEW v \in Wire, NEW i \in DOMAIN out'[v], NEW j \in DOMAIN out'[v],
               i < j, out'[v][i].from = out'[v][j].from
        PROVE  out'[v][i].n <= out'[v][j].n
    BY <1>3, <1>9, <2>3 DEF OrderInv, InOrder
  <2> QED
    BY <1>1, <2>2, <2>3 DEF OrderInv, InOrder
<1> QED
  BY <1>4, <1>5, <1>6, <1>7 DEF OrderInv

\* A writer that ends drops what its queue still holds.
LEMMA OrderDropped ==
    ASSUME TypeOK, OrderInv, NEW w \in Wire, out' = [out EXCEPT ![w] = <<>>],
           UNCHANGED <<hand, reader, read, overtaken>>, thinned => thinned',
           peers' = 0 /\ ~thinned' => peers = 0
    PROVE  OrderInv'
<1>1. \A v \in Wire : out'[v] = out[v] \/ out'[v] = <<>>
  BY DEF TypeOK
<1>2. NothingQueued'
  BY <1>1 DEF OrderInv, NothingQueued
<1>3. InlineAlone'
  BY <1>1 DEF OrderInv, InlineAlone
<1>4. NothingAhead'
  BY <1>1 DEF OrderInv, NothingAhead
<1>5. InOrder'
  BY <1>1 DEF OrderInv, InOrder
<1> QED
  BY <1>2, <1>3, <1>4, <1>5 DEF OrderInv

\* Every step keeps the order of frames.
LEMMA OrderStep ==
    TypeOK /\ TableInv /\ PeersCounted /\ RouteInv /\ OrderInv /\ [Next]_vars => OrderInv'
<1> SUFFICES ASSUME TypeOK, TableInv, PeersCounted, RouteInv, OrderInv, [Next]_vars
             PROVE  OrderInv'
  OBVIOUS
<1> USE DEF table, queues, flow, ghost
<1>0. Conn \subseteq Wire /\ Conn \subseteq Caller /\ (thinned => thinned')
  BY HistoryMoves, CallerWire
<1>a. \A w \in Caller : read[w] \in Int /\ read[w] <= read[w]
  BY DEF TypeOK
<1>b. read \in [Caller -> 0 .. MaxFrames]
  BY DEF TypeOK
<1>1. CASE UNCHANGED vars
  BY <1>1 DEF vars, OrderInv, NothingQueued, InlineAlone, NothingAhead, InOrder
<1>2. ASSUME NEW c \in Conn, AddPeer(c) PROVE OrderInv'
  <2>1. peers \in Nat
    BY UsedFinite, FS_CardinalityType DEF PeersCounted
  <2>2. peers' # 0
    BY <1>2, <2>1 DEF AddPeer
  <2>3. \A w \in Caller : reader'[w] \in {"send", "queue"} => reader'[w] = reader[w]
    BY <1>0, <1>2 DEF AddPeer, TypeOK
  <2> QED
    BY <1>0, <1>2, <1>a, <1>b, <2>2, <2>3, OrderQuiet DEF AddPeer
<1>3. ASSUME NEW c \in Conn, RefusePeer(c) PROVE OrderInv'
  <2>1. 0 \in UsedPeerPorts
    BY <1>3 DEF RefusePeer, PeerPort
  <2>2. peers # 0
    BY <2>1, UsedFinite, FS_EmptySet DEF PeersCounted
  <2>3. \A w \in Caller : reader'[w] \in {"send", "queue"} => reader'[w] = reader[w]
    BY <1>0, <1>3 DEF RefusePeer, TypeOK
  <2> QED
    BY <1>0, <1>3, <1>a, <1>b, <2>2, <2>3, OrderQuiet DEF RefusePeer
<1>4. ASSUME NEW c \in Conn, ReaderEnds(c) PROVE OrderInv'
  <2>1. reader[c] # "none" => peers # 0 \/ thinned
    BY DEF OrderInv, NothingQueued
  <2>2. \A w \in Caller : reader'[w] \in {"send", "queue"} => reader'[w] = reader[w]
    BY <1>0, <1>4 DEF ReaderEnds, TypeOK
  <2> QED
    BY <1>0, <1>4, <1>a, <1>b, <2>1, <2>2, OrderQuiet DEF ReaderEnds
<1>5. ASSUME NEW c \in Conn, ReaderRemoves(c) PROVE OrderInv'
  <2>1. peers # 0 \/ thinned
    BY <1>5 DEF ReaderRemoves, OrderInv, NothingQueued
  <2>2. peers' = 0 => peers = 0 \/ thinned'
    BY <1>5, RemovePortCount DEF ReaderRemoves, TableInv, PortsGiven, Port
  <2>3. \A w \in Caller : reader'[w] \in {"send", "queue"} => reader'[w] = reader[w]
    BY <1>0, <1>5 DEF ReaderRemoves, TypeOK
  <2>4. UNCHANGED <<out, hand, overtaken, read>>
    BY <1>5 DEF ReaderRemoves
  <2> QED
    BY <1>0, <1>a, <1>b, <2>1, <2>2, <2>3, <2>4, OrderQuiet
<1>6. ASSUME NEW w \in Wire, AddPort(w) \/ WireGone(w) PROVE OrderInv'
  BY <1>6 DEF AddPort, WireGone, OrderInv, NothingQueued, InlineAlone, NothingAhead, InOrder
<1>7. ASSUME NEW k \in Caller, NEW src \in Mac \cup {Group}, NEW d \in Mac \cup {Group},
             Learn(k, src, d)
      PROVE  OrderInv'
  <2>1. read' \in [Caller -> 0 .. MaxFrames] /\ \A v \in Caller : read[v] <= read'[v]
    BY <1>7, ReadBound DEF Learn, TypeOK
  <2>2. /\ \A v \in Caller : reader'[v] \in {"send", "queue"} => reader'[v] = reader[v]
        /\ \A v \in Caller : v # k => reader'[v] = reader[v]
        /\ reader[k] = "read"
    BY <1>7 DEF Learn, TypeOK
  <2>3. peers = 0 /\ ~thinned => \A c \in Conn : c # k
    BY <2>2 DEF OrderInv, NothingQueued
  <2> QED
    BY <1>0, <1>7, <2>1, <2>2, <2>3, OrderQuiet DEF Learn
<1>8. ASSUME NEW k \in Caller, Lookup(k) PROVE OrderInv'
  <2>1. /\ \A v \in Caller : reader'[v] \in {"send", "queue"} => reader'[v] = reader[v]
        /\ \A v \in Caller : v # k => reader'[v] = reader[v]
        /\ reader[k] = "lookup"
    BY <1>8 DEF Lookup, TypeOK
  <2>2. peers = 0 /\ ~thinned => \A c \in Conn : c # k
    BY <2>1 DEF OrderInv, NothingQueued
  <2>3. UNCHANGED <<out, hand, overtaken, read, peers, thinned>>
    BY <1>8 DEF Lookup
  <2> QED
    BY <1>0, <1>a, <1>b, <2>1, <2>2, <2>3, OrderQuiet
<1>9. ASSUME NEW k \in Caller, Emit(k) \/ Flood(k) PROVE OrderInv'
  BY <1>9, OrderRouted
<1>10. ASSUME NEW k \in Caller, SendInline(k) PROVE OrderInv'
  <2>1. /\ Frame(k).from = k
        /\ UNCHANGED ghost \/ \E t \in Wire : Deliver(Frame(k), t)
    BY <1>10, InlineDelivers
  <2>2. PICK t \in Wire : Deliver(Frame(k), t) \/ UNCHANGED ghost
    BY <1>0, <2>1, CallerWire
  <2>3. UNCHANGED <<out, hand, read, peers>> /\ reader[k] = "send"
    BY <1>10 DEF SendInline
  <2>4. /\ \A v \in Caller : reader'[v] \in {reader[v], "read"}
        /\ \A c \in Conn : reader[c] = "none" => reader'[c] = "none"
    BY <1>0, <1>10 DEF SendInline, TypeOK
  <2>5. ~thinned => \A g \in Waiting(t) : g.from # Frame(k).from
    BY <2>1, <2>3 DEF OrderInv, InlineAlone, Waiting
  <2> HIDE DEF ghost
  <2> QED
    BY <2>2, <2>3, <2>4, <2>5, OrderDelivers
<1>11. ASSUME NEW k \in Caller, Enqueue(k) PROVE OrderInv'
  BY <1>11, OrderEnqueued
<1>12. ASSUME NEW w \in Wire, WriterTakes(w) PROVE OrderInv'
  BY <1>12, OrderTaken
<1>13. ASSUME NEW w \in Wire, WriterSends(w) PROVE OrderInv'
  <2> DEFINE f == hand[w][1]
  <2>1. f \in Frames /\ hand[w] = <<f>> /\ (UNCHANGED ghost \/ Deliver(f, w))
    BY <1>13, WriterDelivers
  <2>2. UNCHANGED <<out, read, peers, reader>>
    BY <1>13 DEF WriterSends
  <2>3. \A v \in Wire : hand'[v] = hand[v] \/ hand'[v] = <<>>
    BY <1>13 DEF WriterSends, TypeOK
  <2>4. \A i \in DOMAIN hand[w] : hand[w][i] = f
    BY <2>1
  <2>5. 1 \in DOMAIN hand[w]
    BY <2>1
  <2>6. ~thinned => \A i \in DOMAIN out[w] : out[w][i].from = f.from => f.n <= out[w][i].n
    BY <2>5 DEF OrderInv, InOrder
  <2>7. f.n \in Int /\ \A i \in DOMAIN out[w] : out[w][i].n \in Int
    BY <2>1, QueuedFrames DEF Frames
  <2> HIDE DEF f
  <2>8. ~thinned => \A g \in Waiting(w) : g.from = f.from => ~(g.n < f.n)
    BY <2>4, <2>6, <2>7 DEF Waiting
  <2>9. /\ \A v \in Caller : reader'[v] \in {reader[v], "read"}
        /\ \A c \in Conn : reader[c] = "none" => reader'[c] = "none"
    BY <2>2
  <2> HIDE DEF ghost
  <2> QED
    BY <2>1, <2>2, <2>3, <2>8, <2>9, OrderDelivers
<1>14. ASSUME NEW w \in Wire, WriterRemoves(w) PROVE OrderInv'
  <2>1. peers' = 0 => peers = 0 \/ thinned'
    BY <1>14, PortOfType, RemovePortCount DEF WriterRemoves
  <2> QED
    BY <1>0, <1>14, <2>1, OrderDropped DEF WriterRemoves
<1>15. ASSUME NEW w \in Wire, WriterStops(w) PROVE OrderInv'
  BY <1>15, OrderDropped DEF WriterStops
<1> QED
  BY <1>1, <1>2, <1>3, <1>4, <1>5, <1>6, <1>7, <1>8, <1>9, <1>10, <1>11, <1>12, <1>13, <1>14, <1>15
     DEF Next, ReaderStep, ForwardStep, WriterStep

-----------------------------------------------------------------------------
(* The theorems                                                             *)

\* The invariant is inductive, so it always holds.
LEMMA IInvHolds == Spec => []IInv
<1>1. Init => IInv
  <2> SUFFICES ASSUME Init PROVE IInv
    OBVIOUS
  <2> USE DEF Init
  <2>1. Up \in Wire /\ Loc \in Wire /\ Up # None /\ Loc # None
    BY DEF Wire
  <2>2. TypeOK
    <3>1. /\ ports \in [Port -> Wire \cup {None}]
          /\ macs \in [Mac -> Port \cup {NoPort}]
          /\ peers \in Int
      OBVIOUS
    <3>2. portOf \in [Wire -> Port \cup {NoPort}]
      BY DEF Port
    <3>3. out \in [Wire -> Seq(Frames)] /\ \A w \in Wire : Len(out[w]) <= OutQueue
      OBVIOUS
    <3>4. /\ done \in [Wire -> BOOLEAN] /\ alive \in [Wire -> BOOLEAN]
          /\ echoed \in BOOLEAN /\ overtaken \in BOOLEAN /\ thinned \in BOOLEAN
      BY Zenon
    <3>5. /\ writer \in [Wire -> {"none", "take", "failed", "exited"}]
          /\ hand \in [Wire -> {<<>>} \cup {<<f>> : f \in Frames}]
          /\ reader \in [Caller -> ReaderPc]
      BY DEF ReaderPc
    <3>6. /\ read \in [Caller -> 0 .. MaxFrames]
          /\ dst \in [Caller -> Mac \cup {None}]
          /\ via \in [Caller -> Port \cup {NoPort}]
          /\ targets \in [Caller -> SUBSET Wire]
      OBVIOUS
    <3> QED
      BY <3>1, <3>2, <3>3, <3>4, <3>5, <3>6 DEF TypeOK
  <2>3. TableInv
    BY <2>1 DEF TableInv, FixedPorts, PortsGiven, PortsRemembered, PortsInOrder, Port, PeerPort, Caller,
                Wire, Local, Uplink
  <2>4. PeersCounted
    <3>1. UsedPeerPorts = {}
      BY DEF UsedPeerPorts, Port
    <3> QED
      BY <3>1, FS_EmptySet DEF PeersCounted
  <2>5. MacsBacked /\ NoEcho
    BY DEF MacsBacked, NoEcho, PeerPort, NoPort
  <2>6. RouteInv
    BY DEF RouteInv, Forwarding
  <2>7. OrderInv
    <3>1. \A w \in Wire : out[w] = <<>> /\ hand[w] = <<>>
      OBVIOUS
    <3>2. \A k \in Caller : reader[k] \notin {"send", "queue"}
      OBVIOUS
    <3>3. \A c \in Conn : reader[c] = "none"
      BY DEF Caller
    <3>4. DOMAIN <<>> = {}
      OBVIOUS
    <3> HIDE DEF Init
    <3>5. NothingQueued
      BY <3>1, <3>2, <3>3 DEF NothingQueued
    <3>6. InlineAlone
      BY <3>2 DEF InlineAlone
    <3>7. NothingAhead
      BY <3>1, <3>4 DEF NothingAhead
    <3>8. ~overtaken
      BY DEF Init
    <3>9. InOrder
      BY <3>1, <3>4, <3>8 DEF InOrder
    <3> QED
      BY <3>5, <3>6, <3>7, <3>9 DEF OrderInv
  <2> QED
    BY <2>2, <2>3, <2>4, <2>5, <2>6, <2>7 DEF IInv
<1>2. IInv /\ [Next]_vars => IInv'
  BY TypeStep, TableStep, CountStep, MacsStep, RouteStep, EchoStep, OrderStep DEF IInv
<1> QED
  BY <1>1, <1>2, PTL DEF Spec

\* Every variable of the switch keeps its type; no queue is ever longer than
\* its bound.
THEOREM SwitchTypeCorrect == Spec => []TypeOK
  BY IInvHolds, PTL DEF IInv

\* Switch.peers is the number of peer ports, however often a port is removed.
THEOREM PeersAreCounted == Spec => []PeersCounted
  BY IInvHolds, PTL DEF IInv

\* An address on a peer's port always has a reader that will still remove it.
THEOREM MacsAreBacked == Spec => []MacsBacked
  BY IInvHolds, PTL DEF IInv

\* No frame comes back on the wire it was read from.
THEOREM FramesDoNotEcho == Spec => []NoEcho
  BY IInvHolds, PTL DEF IInv

\* What one caller forwards to a wire is sent in order until the last peer, the
\* guest or the uplink loses its port.
THEOREM FramesKeepOrder == Spec => []OvertakenOnlyThinned
<1>1. IInv => OvertakenOnlyThinned
  BY DEF IInv, OrderInv, InOrder, OvertakenOnlyThinned
<1> QED
  BY <1>1, IInvHolds, PTL

-----------------------------------------------------------------------------
(* What is left of PeerKeepsPort                                            *)

\* Goroutines give a port up only after the far end went away.
GivenUpWhenGone ==
    \A c \in Conn : reader[c] = "remove" \/ writer[c] = "failed" => ~alive[c]

\* A live peer is without its port only if the same number had been given to
\* another connection that has gone away.
LostOnlyByReuse ==
    \A c \in Conn : alive[c] /\ reader[c] \notin {"none", "gone"} =>
        \/ ports[portOf[c]] = c
        \/ \E d \in Conn \ {c} : portOf[d] = portOf[c] /\ ~alive[d]

\* RemovePort takes no port but the one of its number.
LEMMA RemovePortOthers ==
    ASSUME TypeOK, NEW p \in Port, RemovePort(p)
    PROVE  \A q \in PeerPort \ {p} : ports'[q] = ports[q]
  BY DEF RemovePort, TypeOK, Port

\* A connection that ends takes away the port of its own number, which may be
\* somebody else's by now.
LEMMA ReuseRemoved ==
    ASSUME TypeOK, TableInv, LostOnlyByReuse, NEW d \in Conn, ~alive[d],
           portOf[d] \in PeerPort, RemovePort(portOf[d]), UNCHANGED <<portOf, alive>>,
           \A c \in Conn : reader'[c] \notin {"none", "gone"} => reader[c] \notin {"none", "gone"}
    PROVE  LostOnlyByReuse'
<1> SUFFICES ASSUME NEW c \in Conn, alive[c], reader[c] \notin {"none", "gone"}
             PROVE  \/ ports'[portOf[c]] = c
                    \/ \E e \in Conn \ {c} : portOf[e] = portOf[c] /\ ~alive[e]
  BY DEF LostOnlyByReuse
<1>1. d # c
  OBVIOUS
<1>2. CASE portOf[d] = portOf[c]
  BY <1>1, <1>2
<1>3. CASE portOf[d] # portOf[c]
  <2>1. portOf[c] \in PeerPort
    BY DEF TableInv, PortsGiven
  <2>2. ports'[portOf[c]] = ports[portOf[c]]
    BY <1>3, <2>1, RemovePortOthers DEF Port
  <2> QED
    BY <2>2 DEF LostOnlyByReuse
<1> QED
  BY <1>2, <1>3

\* A step that moves readers and leaves ports and wires alone.
LEMMA ReuseQuiet ==
    ASSUME LostOnlyByReuse, UNCHANGED <<ports, portOf, alive>>,
           \A c \in Conn : reader'[c] \notin {"none", "gone"} => reader[c] \notin {"none", "gone"}
    PROVE  LostOnlyByReuse'
  BY DEF LostOnlyByReuse

LEMMA ReuseStep ==
    TypeOK /\ TableInv /\ GivenUpWhenGone /\ LostOnlyByReuse /\ [Next]_vars
        => GivenUpWhenGone' /\ LostOnlyByReuse'
<1> SUFFICES ASSUME TypeOK, TableInv, GivenUpWhenGone, LostOnlyByReuse, [Next]_vars
             PROVE  GivenUpWhenGone' /\ LostOnlyByReuse'
  OBVIOUS
<1> USE DEF table, queues, flow, ghost
<1>0. Conn \subseteq Wire /\ Conn \subseteq Caller /\ alive \in [Wire -> BOOLEAN] /\ reader \in [Caller -> ReaderPc]
      /\ writer \in [Wire -> {"none", "take", "failed", "exited"}]
  BY CallerWire DEF TypeOK
<1>1. CASE UNCHANGED vars
  BY <1>1 DEF vars, GivenUpWhenGone, LostOnlyByReuse
<1>2. ASSUME NEW c \in Conn, AddPeer(c) PROVE GivenUpWhenGone' /\ LostOnlyByReuse'
  <2>1. PICK p \in PeerPort : ports[p] = None /\ Open(c, p) /\ portOf' = [portOf EXCEPT ![c] = p]
    BY <1>2 DEF AddPeer
  <2>2. /\ ports' = [ports EXCEPT ![p] = c] /\ writer' = [writer EXCEPT ![c] = "take"]
        /\ reader' = [reader EXCEPT ![c] = "read"] /\ alive' = alive /\ reader[c] = "none"
    BY <1>2, <2>1 DEF AddPeer, Open
  <2>3. GivenUpWhenGone'
    BY <1>0, <2>2 DEF GivenUpWhenGone
  <2>4. /\ p \in Port /\ portOf'[c] = p /\ ports'[p] = c
        /\ \A d \in Conn \ {c} : portOf'[d] = portOf[d] /\ reader'[d] = reader[d]
        /\ \A q \in Port \ {p} : ports'[q] = ports[q]
    BY <1>0, <2>1, <2>2 DEF TypeOK, Port
  <2>5. ASSUME NEW d \in Conn \ {c}, alive[d], reader[d] \notin {"none", "gone"}
        PROVE  \/ ports'[portOf'[d]] = d
               \/ \E e \in Conn \ {d} : portOf'[e] = portOf'[d] /\ ~alive[e]
    <3>1. portOf[d] \in Port
      BY <2>5 DEF TableInv, PortsGiven, Port
    <3>2. CASE ports[portOf[d]] = d
      <4>1. portOf[d] # p
        BY <2>1, <2>5, <3>2 DEF Wire
      <4> QED
        BY <2>4, <3>1, <3>2, <4>1
    <3>3. ASSUME NEW e \in Conn \ {d}, portOf[e] = portOf[d], ~alive[e]
          PROVE  \E x \in Conn \ {d} : portOf'[x] = portOf'[d] /\ ~alive[x]
      <4>1. e # c
        BY <1>2, <2>2, <2>5, <3>1, <3>3 DEF TableInv, PortsGiven, Port, PeerPort, NoPort, Uplink, Local
      <4> QED
        BY <2>4, <3>3, <4>1
    <3> QED
      BY <2>5, <3>2, <3>3 DEF LostOnlyByReuse
  <2>6. LostOnlyByReuse'
    BY <2>2, <2>4, <2>5 DEF LostOnlyByReuse
  <2> QED
    BY <2>3, <2>6
<1>3. ASSUME NEW c \in Conn, RefusePeer(c) PROVE GivenUpWhenGone' /\ LostOnlyByReuse'
  <2>1. /\ UNCHANGED <<ports, portOf, writer>> /\ ~alive'[c]
        /\ \A d \in Conn \ {c} : alive'[d] = alive[d] /\ reader'[d] = reader[d]
    BY <1>0, <1>3, Zenon DEF RefusePeer
  <2> QED
    BY <2>1 DEF GivenUpWhenGone, LostOnlyByReuse
<1>10. ASSUME NEW w \in Wire, WireGone(w) PROVE GivenUpWhenGone' /\ LostOnlyByReuse'
  <2>1. /\ UNCHANGED <<ports, portOf, writer, reader>> /\ ~alive'[w]
        /\ \A d \in Wire \ {w} : alive'[d] = alive[d]
    BY <1>0, <1>10, Zenon DEF WireGone
  <2> QED
    BY <1>0, <2>1 DEF GivenUpWhenGone, LostOnlyByReuse
<1>4. ASSUME NEW c \in Conn, ReaderEnds(c) PROVE GivenUpWhenGone' /\ LostOnlyByReuse'
  <2>1. UNCHANGED <<ports, portOf, alive, writer>> /\ reader' = [reader EXCEPT ![c] = "remove"]
        /\ reader[c] = "read" /\ ~alive[c]
    BY <1>4 DEF ReaderEnds
  <2>2. GivenUpWhenGone'
    BY <1>0, <2>1 DEF GivenUpWhenGone
  <2> QED
    BY <1>0, <2>1, <2>2, ReuseQuiet
<1>5. ASSUME NEW c \in Conn, ReaderRemoves(c) PROVE GivenUpWhenGone' /\ LostOnlyByReuse'
  <2>1. /\ UNCHANGED <<portOf, alive, writer>> /\ reader' = [reader EXCEPT ![c] = "gone"]
        /\ RemovePort(portOf[c]) /\ reader[c] = "remove" /\ ~alive[c]
    BY <1>5 DEF ReaderRemoves, GivenUpWhenGone
  <2>2. portOf[c] \in PeerPort
    BY <2>1 DEF TableInv, PortsGiven
  <2>3. GivenUpWhenGone'
    BY <1>0, <2>1 DEF GivenUpWhenGone
  <2> QED
    BY <1>0, <2>1, <2>2, <2>3, ReuseRemoved
<1>6. ASSUME NEW w \in Wire, AddPort(w) PROVE GivenUpWhenGone' /\ LostOnlyByReuse'
  <2>1. /\ w \notin Conn /\ portOf[w] \notin PeerPort /\ portOf[w] \in Port
        /\ ports' = [ports EXCEPT ![portOf[w]] = w] /\ writer' = [writer EXCEPT ![w] = "take"]
        /\ UNCHANGED <<portOf, alive, reader>>
    BY <1>6 DEF AddPort, Open, TableInv, FixedPorts, PeerPort, Port, Uplink, Local
  <2>2. \A q \in PeerPort : ports'[q] = ports[q]
    BY <2>1 DEF TypeOK, Port
  <2>3. GivenUpWhenGone'
    BY <1>0, <2>1 DEF GivenUpWhenGone
  <2>4. \A c \in Conn : reader[c] \notin {"none", "gone"} => portOf[c] \in PeerPort
    BY DEF TableInv, PortsGiven
  <2> QED
    BY <2>1, <2>2, <2>3, <2>4 DEF LostOnlyByReuse
<1>7. ASSUME NEW k \in Caller, ForwardStep(k) \/ \E src, d \in Mac \cup {Group} : Learn(k, src, d)
      PROVE  GivenUpWhenGone' /\ LostOnlyByReuse'
  <2>1. /\ UNCHANGED <<ports, portOf, alive, writer>> /\ reader[k] \notin {"none", "gone"}
        /\ \E l \in ReaderPc \ {"none", "remove", "gone"} : reader' = [reader EXCEPT ![k] = l]
    BY <1>7 DEF ForwardStep, Lookup, Emit, Flood, SendInline, Enqueue, Learn, ReaderPc, Forwarding
  <2>2. GivenUpWhenGone'
    BY <1>0, <2>1 DEF GivenUpWhenGone
  <2> QED
    BY <1>0, <2>1, <2>2, ReuseQuiet
<1>8. ASSUME NEW w \in Wire, WriterTakes(w) \/ WriterSends(w) \/ WriterStops(w)
      PROVE  GivenUpWhenGone' /\ LostOnlyByReuse'
  <2>1. /\ UNCHANGED <<ports, portOf, alive, reader>>
        /\ \/ UNCHANGED writer
           \/ ~alive[w] /\ writer' = [writer EXCEPT ![w] = "failed"]
           \/ writer' = [writer EXCEPT ![w] = "exited"]
    BY <1>8 DEF WriterTakes, WriterSends, WriterStops
  <2>2. GivenUpWhenGone'
    BY <1>0, <2>1 DEF GivenUpWhenGone
  <2> QED
    BY <2>1, <2>2, ReuseQuiet
<1>9. ASSUME NEW w \in Wire, WriterRemoves(w) PROVE GivenUpWhenGone' /\ LostOnlyByReuse'
  <2>1. /\ UNCHANGED <<portOf, alive, reader>> /\ writer' = [writer EXCEPT ![w] = "exited"]
        /\ RemovePort(portOf[w]) /\ writer[w] = "failed"
    BY <1>9 DEF WriterRemoves
  <2>2. GivenUpWhenGone'
    BY <1>0, <2>1 DEF GivenUpWhenGone
  <2>3. CASE w \in Conn
    <3>1. ~alive[w] /\ portOf[w] \in PeerPort
      BY <2>1, <2>3 DEF GivenUpWhenGone, TableInv, PortsGiven
    <3> QED
      BY <2>1, <2>2, <2>3, <3>1, ReuseRemoved
  <2>4. CASE w \notin Conn
    <3>1. portOf[w] \in Port \ PeerPort
      BY <2>4 DEF TableInv, FixedPorts, Wire, Port, PeerPort, Uplink, Local
    <3>2. \A q \in PeerPort : ports'[q] = ports[q]
      BY <2>1, <3>1, RemovePortOthers
    <3>3. \A c \in Conn : reader[c] \notin {"none", "gone"} => portOf[c] \in PeerPort
      BY DEF TableInv, PortsGiven
    <3> QED
      BY <2>1, <2>2, <3>2, <3>3 DEF LostOnlyByReuse
  <2> QED
    BY <2>3, <2>4
<1> QED
  BY <1>1, <1>2, <1>3, <1>4, <1>5, <1>6, <1>7, <1>8, <1>9, <1>10 DEF Next, ReaderStep, WriterStep

\* PeerKeepsPort fails, but only in one way: a peer whose pipe works loses its
\* port (and from then on is sent nothing) only to the late RemovePort of a
\* connection that had its number before it.
THEOREM PortsAreLostByReuse == Spec => []LostOnlyByReuse
<1>1. Init => GivenUpWhenGone /\ LostOnlyByReuse
  <2>1. Init => \A c \in Conn : reader[c] = "none" /\ writer[c] = "none"
    BY DEF Init, Wire, Caller
  <2> QED
    BY <2>1 DEF GivenUpWhenGone, LostOnlyByReuse
<1>2. IInv => TypeOK /\ TableInv
  BY DEF IInv
<1> QED
  BY <1>1, <1>2, ReuseStep, IInvHolds, PTL DEF Spec
=============================================================================
