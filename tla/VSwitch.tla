------------------------------ MODULE VSwitch ------------------------------
(***************************************************************************)
(* The hub's learning switch: internal/vswitch and the goroutines of       *)
(* main.go that drive it (acceptPeers, peerReader, the guest wire, the     *)
(* uplink).                                                                *)
(*                                                                         *)
(* Every wire has a goroutine that drains its port's queue and goroutines  *)
(* that call Forward: one for a peer (peerReader) and for the guest        *)
(* (wire), several for the uplink, where the netstack's TX pump or the tap *)
(* reader, the beacons, the echo relay and the DHCP server's replies call  *)
(* Forward(Uplink) side by side.  The switch's mutex is taken anew by      *)
(* learn, lookup, emit, flood, AddPeer and RemovePort: one critical        *)
(* section is one step here, and so is what is done between two of them (a *)
(* send, a put on a queue).  A port NUMBER is free for the next peer as    *)
(* soon as RemovePort returns, whoever still works for the old one.        *)
(***************************************************************************)
EXTENDS FiniteSets, Integers, Sequences

CONSTANTS
    Conn,       \* connections of peers, each used once
    Up, Loc,    \* the uplink and the guest's own wire
    UpCaller,   \* the goroutines that forward what comes from the uplink
    Mac,        \* unicast addresses
    Group,      \* a multicast or broadcast address
    None,       \* nobody
    MaxPeers,   \* 32 in the code
    OutQueue,   \* length of an outbound queue, 1024 in the code
    MaxFrames,  \* bound: frames read, by all callers together
    MaxLost     \* bound: wires that go away

Wire == Conn \cup {Up, Loc}

\* Who calls Forward: the goroutine that reads a peer's or the guest's wire is
\* named after it.
Caller == Conn \cup {Loc} \cup UpCaller
WireOf(k) == IF k \in UpCaller THEN Up ELSE k

ASSUME SwitchConstants ==
    /\ Up \notin Conn /\ Loc \notin Conn /\ Up # Loc /\ None \notin Wire
    /\ UpCaller \cap Wire = {}
    /\ Group \notin Mac
    /\ IsFiniteSet(Conn) /\ IsFiniteSet(UpCaller)
    /\ MaxPeers \in Nat \ {0} /\ OutQueue \in Nat \ {0}
    /\ MaxFrames \in Nat /\ MaxLost \in Nat

Uplink == -1
Local == -2
NoPort == -3
PeerPort == 0 .. MaxPeers - 1
Port == PeerPort \cup {Uplink, Local}

VARIABLES
    ports,      \* Switch.ports: the wire behind every port number
    macs,       \* Switch.macs: the port every address was learned on
    peers,      \* Switch.peers
    portOf,     \* the port number a wire was given
    out,        \* the queue of every wire's port,
    done,       \*   closed by RemovePort,
    writer,     \*   its goroutine: none, take, failed, exited
    hand,       \*   and the frame it is sending
    reader,     \* a caller of Forward: where it is,
    read,       \*   how many frames it has read,
    dst,        \*   the address its frame is for,
    via,        \*   the port lookup found,
    targets,    \*   the wires it still has to serve
    alive,      \* the far end of the wire is open
    echoed,     \* history: a frame went back to the wire it came from,
    overtaken,  \*   a frame was sent before an older one that still waited,
    thinned     \*   the last peer, the guest or the uplink lost its port

table  == <<ports, macs, peers, portOf>>
queues == <<out, done, writer, hand>>
flow   == <<read, dst, via, targets>>
ghost  == <<echoed, overtaken, thinned>>
vars   == <<table, queues, reader, flow, alive, ghost>>

\* The guest's wire and the uplink are read before they have a port.
Init ==
    /\ ports = [p \in Port |-> None]
    /\ macs = [m \in Mac |-> NoPort]
    /\ peers = 0
    /\ portOf = [w \in Wire |-> CASE w = Up -> Uplink [] w = Loc -> Local [] OTHER -> NoPort]
    /\ out = [w \in Wire |-> <<>>]
    /\ done = [w \in Wire |-> FALSE]
    /\ writer = [w \in Wire |-> "none"]
    /\ hand = [w \in Wire |-> <<>>]
    /\ reader = [k \in Caller |-> IF k \in Conn THEN "none" ELSE "read"]
    /\ read = [k \in Caller |-> 0]
    /\ dst = [k \in Caller |-> None]
    /\ via = [k \in Caller |-> NoPort]
    /\ targets = [k \in Caller |-> {}]
    /\ alive = [w \in Wire |-> TRUE]
    /\ echoed = FALSE
    /\ overtaken = FALSE
    /\ thinned = FALSE

FramesRead == {f \in Caller \X (1 .. MaxFrames) : f[2] <= read[f[1]]}

UsedPeerPorts == {p \in PeerPort : ports[p] # None}

-----------------------------------------------------------------------------
(* Faulty variants of steps defined below.                                  *)

\* RemovePort returns at once when the port is gone already.
RemovePortEarlyReturn(p) ==
    IF ports[p] = None
    THEN UNCHANGED <<ports, done, peers, thinned, macs>>
    ELSE /\ done' = [done EXCEPT ![ports[p]] = TRUE]
         /\ ports' = [ports EXCEPT ![p] = None]
         /\ peers' = IF p >= 0 THEN peers - 1 ELSE peers
         /\ thinned' = (thinned \/ p < 0 \/ peers = 1)
         /\ macs' = [m \in Mac |-> IF macs[m] = p THEN NoPort ELSE macs[m]]

\* RemovePort counts the peer out whether or not it still had a port.
RemovePortCountsTwice(p) ==
    /\ IF ports[p] = None
       THEN UNCHANGED <<ports, done>>
       ELSE /\ done' = [done EXCEPT ![ports[p]] = TRUE]
            /\ ports' = [ports EXCEPT ![p] = None]
    /\ peers' = IF p >= 0 THEN peers - 1 ELSE peers
    /\ thinned' = (thinned \/ p < 0 \/ peers = 1)
    /\ macs' = [m \in Mac |-> IF macs[m] = p THEN NoPort ELSE macs[m]]

\* A frame goes to whatever port its address is on.
LookupHairpins(k) ==
    /\ reader[k] = "lookup"
    /\ \/ /\ macs[dst[k]] # NoPort
          /\ via' = [via EXCEPT ![k] = macs[dst[k]]]
          /\ reader' = [reader EXCEPT ![k] = "emit"]
          /\ UNCHANGED macs
       \/ /\ macs' = [macs EXCEPT ![dst[k]] = NoPort]
          /\ reader' = [reader EXCEPT ![k] = "flood"]
          /\ UNCHANGED via
    /\ dst' = [dst EXCEPT ![k] = None]
    /\ UNCHANGED <<ports, peers, portOf, queues, read, targets, alive, ghost>>

\* peerReader leaves the port to the writer.
ReaderKeepsPort(c) ==
    /\ reader[c] = "remove"
    /\ reader' = [reader EXCEPT ![c] = "gone"]
    /\ UNCHANGED <<table, queues, flow, alive, ghost>>

-----------------------------------------------------------------------------
(* Ports                                                                    *)

\* A port and its writer.
Open(w, p) ==
    /\ ports' = [ports EXCEPT ![p] = w]
    /\ writer' = [writer EXCEPT ![w] = "take"]

\* runInstance adds the uplink, then the guest, then starts acceptPeers.
AddPort(w) ==
    /\ w \in {Up, Loc} /\ writer[w] = "none"
    /\ w = Loc => writer[Up] # "none"
    /\ Open(w, portOf[w])
    /\ UNCHANGED <<macs, peers, portOf, out, done, hand, reader, flow, alive, ghost>>

\* A new connection gets the lowest free peer port and a reader.
AddPeer(c) ==
    /\ writer[Loc] # "none"
    /\ reader[c] = "none"
    /\ \E p \in PeerPort :
          /\ ports[p] = None
          /\ \A q \in 0 .. p - 1 : ports[q] # None
          /\ Open(c, p)
          /\ portOf' = [portOf EXCEPT ![c] = p]
    /\ peers' = peers + 1
    /\ reader' = [reader EXCEPT ![c] = "read"]
    /\ UNCHANGED <<macs, out, done, hand, flow, alive, ghost>>

\* No port is free: the connection is closed.
RefusePeer(c) ==
    /\ writer[Loc] # "none"
    /\ reader[c] = "none"
    /\ PeerPort \subseteq UsedPeerPorts
    /\ reader' = [reader EXCEPT ![c] = "gone"]
    /\ alive' = [alive EXCEPT ![c] = FALSE]
    /\ UNCHANGED <<table, queues, flow, ghost>>

\* By number.  A port that is gone already is not counted out again, but its
\* addresses are forgotten again.
RemovePort(p) ==
    /\ IF ports[p] = None
       THEN UNCHANGED <<ports, done, peers, thinned>>
       ELSE /\ done' = [done EXCEPT ![ports[p]] = TRUE]
            /\ ports' = [ports EXCEPT ![p] = None]
            /\ peers' = IF p >= 0 THEN peers - 1 ELSE peers
            /\ thinned' = (thinned \/ p < 0 \/ peers = 1)
    /\ macs' = [m \in Mac |-> IF macs[m] = p THEN NoPort ELSE macs[m]]

-----------------------------------------------------------------------------
(* A frame's way to its destination: SendFrame on a wire.                   *)

\* What the writer of a wire holds and what its queue holds.
Waiting(w) == {hand[w][i] : i \in DOMAIN hand[w]} \cup {out[w][i] : i \in DOMAIN out[w]}

Deliver(f, w) ==
    /\ echoed' = (echoed \/ WireOf(f.from) = w)
    /\ overtaken' = (overtaken \/ \E g \in Waiting(w) : g.from = f.from /\ g.n < f.n)
    /\ UNCHANGED thinned

-----------------------------------------------------------------------------
(* Forward                                                                  *)

\* The frame a caller works on.
Frame(k) == [from |-> k, n |-> read[k]]

\* A frame is read and its source learned, unless that is a group address.
\* What the far end sent before it went away is still read.
Learn(k, src, d) ==
    /\ reader[k] = "read" /\ Cardinality(FramesRead) < MaxFrames
    /\ read' = [read EXCEPT ![k] = @ + 1]
    /\ macs' = IF src = Group THEN macs ELSE [macs EXCEPT ![src] = portOf[WireOf(k)]]
    /\ dst' = [dst EXCEPT ![k] = IF d = Group THEN None ELSE d]
    /\ reader' = [reader EXCEPT ![k] = IF d = Group THEN "flood" ELSE "lookup"]
    /\ UNCHANGED <<ports, peers, portOf, queues, via, targets, alive, ghost>>

\* Time is abstract: an entry may have outlived its 300 seconds, and is then
\* deleted.
Lookup(k) ==
    /\ reader[k] = "lookup"
    /\ \/ /\ macs[dst[k]] \notin {NoPort, portOf[WireOf(k)]}
          /\ via' = [via EXCEPT ![k] = macs[dst[k]]]
          /\ reader' = [reader EXCEPT ![k] = "emit"]
          /\ UNCHANGED macs
       \/ /\ macs[dst[k]] = portOf[WireOf(k)]                  \* hairpin
          /\ reader' = [reader EXCEPT ![k] = "read"]
          /\ UNCHANGED <<via, macs>>
       \/ /\ macs' = [macs EXCEPT ![dst[k]] = NoPort]
          /\ reader' = [reader EXCEPT ![k] = "flood"]
          /\ UNCHANGED via
    /\ dst' = [dst EXCEPT ![k] = None]
    /\ UNCHANGED <<ports, peers, portOf, queues, read, targets, alive, ghost>>

\* The port's wire, and whether there are peers at all.
Emit(k) ==
    /\ reader[k] = "emit"
    /\ IF ports[via[k]] = None
       THEN /\ reader' = [reader EXCEPT ![k] = "read"]
            /\ UNCHANGED targets
       ELSE /\ reader' = [reader EXCEPT ![k] = IF peers = 0 THEN "send" ELSE "queue"]
            /\ targets' = [targets EXCEPT ![k] = {ports[via[k]]}]
    /\ via' = [via EXCEPT ![k] = NoPort]
    /\ UNCHANGED <<table, queues, read, dst, alive, ghost>>

\* Every port but the one the frame came from; a single one is served inline.
Flood(k) ==
    /\ reader[k] = "flood"
    /\ LET all == {ports[p] : p \in Port \ {portOf[WireOf(k)]}} \ {None}
       IN  /\ targets' = [targets EXCEPT ![k] = all]
           /\ reader' = [reader EXCEPT ![k] =
                            CASE Cardinality(all) = 0 -> "read"
                              [] Cardinality(all) = 1 -> "send"
                              [] OTHER -> "queue"]
    /\ UNCHANGED <<table, queues, read, dst, via, alive, ghost>>

\* The inline send; its error is ignored.
SendInline(k) ==
    /\ reader[k] = "send"
    /\ \E t \in targets[k] :
          IF alive[t] THEN Deliver(Frame(k), t) ELSE UNCHANGED ghost
    /\ targets' = [targets EXCEPT ![k] = {}]
    /\ reader' = [reader EXCEPT ![k] = "read"]
    /\ UNCHANGED <<table, queues, read, dst, via, alive>>

\* Faulty: a full queue takes the frame all the same.
EnqueueUnbounded(k) ==
    /\ reader[k] = "queue"
    /\ \E t \in targets[k] :
          /\ out' = IF writer[t] # "exited"
                    THEN [out EXCEPT ![t] = Append(@, Frame(k))] ELSE out
          /\ targets' = [targets EXCEPT ![k] = @ \ {t}]
          /\ reader' = [reader EXCEPT ![k] = IF targets[k] = {t} THEN "read" ELSE "queue"]
    /\ UNCHANGED <<table, done, writer, hand, read, dst, via, alive, ghost>>

\* Faulty: the put on the queue waits for room.
EnqueueBlocks(k) ==
    /\ reader[k] = "queue"
    /\ \E t \in targets[k] :
          /\ Len(out[t]) < OutQueue /\ writer[t] # "exited"
          /\ out' = [out EXCEPT ![t] = Append(@, Frame(k))]
          /\ targets' = [targets EXCEPT ![k] = @ \ {t}]
          /\ reader' = [reader EXCEPT ![k] = IF targets[k] = {t} THEN "read" ELSE "queue"]
    /\ UNCHANGED <<table, done, writer, hand, read, dst, via, alive, ghost>>

\* Faulty: the last target is served inline, which would save a copy.
EnqueueLastInline(k) ==
    /\ reader[k] = "queue"
    /\ \E t \in targets[k] :
          /\ IF targets[k] = {t}
             THEN Deliver(Frame(k), t) /\ UNCHANGED out
             ELSE /\ out' = IF Len(out[t]) < OutQueue /\ writer[t] # "exited"
                            THEN [out EXCEPT ![t] = Append(@, Frame(k))] ELSE out
                  /\ UNCHANGED ghost
          /\ targets' = [targets EXCEPT ![k] = @ \ {t}]
          /\ reader' = [reader EXCEPT ![k] = IF targets[k] = {t} THEN "read" ELSE "queue"]
    /\ UNCHANGED <<table, done, writer, hand, read, dst, via, alive>>

\* One target's queue: a full one drops the frame, and so, in effect, does
\* the abandoned one of a port whose writer is gone.
Enqueue(k) ==
    /\ reader[k] = "queue"
    /\ \E t \in targets[k] :
          /\ out' = IF Len(out[t]) < OutQueue /\ writer[t] # "exited"
                    THEN [out EXCEPT ![t] = Append(@, Frame(k))] ELSE out
          /\ targets' = [targets EXCEPT ![k] = @ \ {t}]
          /\ reader' = [reader EXCEPT ![k] = IF targets[k] = {t} THEN "read" ELSE "queue"]
    /\ UNCHANGED <<table, done, writer, hand, read, dst, via, alive, ghost>>

\* peerReader: end of file, or a broken pipe.
ReaderEnds(c) ==
    /\ reader[c] = "read" /\ ~alive[c]
    /\ reader' = [reader EXCEPT ![c] = "remove"]
    /\ UNCHANGED <<table, queues, flow, alive, ghost>>

\* Its deferred RemovePort, of the number it was given when it started.
ReaderRemoves(c) ==
    /\ reader[c] = "remove"
    /\ RemovePort(portOf[c])
    /\ reader' = [reader EXCEPT ![c] = "gone"]
    /\ UNCHANGED <<portOf, out, writer, hand, flow, alive, echoed, overtaken>>

-----------------------------------------------------------------------------
(* The writer of a port                                                     *)

WriterTakes(w) ==
    /\ writer[w] = "take" /\ hand[w] = <<>> /\ out[w] # <<>>
    /\ hand' = [hand EXCEPT ![w] = <<Head(out[w])>>]
    /\ out' = [out EXCEPT ![w] = Tail(@)]
    /\ UNCHANGED <<table, done, writer, reader, flow, alive, ghost>>

WriterSends(w) ==
    /\ writer[w] = "take" /\ hand[w] # <<>>
    /\ IF alive[w]
       THEN Deliver(hand[w][1], w) /\ UNCHANGED writer
       ELSE writer' = [writer EXCEPT ![w] = "failed"] /\ UNCHANGED ghost
    /\ hand' = [hand EXCEPT ![w] = <<>>]
    /\ UNCHANGED <<table, out, done, reader, flow, alive>>

WriterRemoves(w) ==
    /\ writer[w] = "failed"
    /\ RemovePort(portOf[w])
    /\ writer' = [writer EXCEPT ![w] = "exited"]
    /\ out' = [out EXCEPT ![w] = <<>>]
    /\ UNCHANGED <<portOf, hand, reader, flow, alive, echoed, overtaken>>

\* select takes the closed channel, whatever the queue still holds.
WriterStops(w) ==
    /\ writer[w] = "take" /\ hand[w] = <<>> /\ done[w]
    /\ writer' = [writer EXCEPT ![w] = "exited"]
    /\ out' = [out EXCEPT ![w] = <<>>]
    /\ UNCHANGED <<table, done, hand, reader, flow, alive, ghost>>

\* The far end of a wire goes away: a peer closes or dies, the guest ends, the
\* tap is deleted.  A reader of the guest's wire or of the tap that finds out
\* reports it and reads no more; only a peer's removes its port.
WireGone(w) ==
    /\ alive[w] /\ portOf[w] # NoPort
    /\ Cardinality({v \in Wire : portOf[v] # NoPort /\ ~alive[v]}) < MaxLost
    /\ alive' = [alive EXCEPT ![w] = FALSE]
    /\ UNCHANGED <<table, queues, reader, flow, ghost>>

-----------------------------------------------------------------------------
ForwardStep(k) ==
    \/ Lookup(k) \/ Emit(k) \/ Flood(k) \/ SendInline(k) \/ Enqueue(k)

ReaderStep(c) == ReaderEnds(c) \/ ReaderRemoves(c)

WriterStep(w) ==
    WriterTakes(w) \/ WriterSends(w) \/ WriterRemoves(w) \/ WriterStops(w)

Next ==
    \/ \E c \in Conn : AddPeer(c) \/ RefusePeer(c) \/ ReaderStep(c)
    \/ \E w \in Wire : AddPort(w) \/ WriterStep(w) \/ WireGone(w)
    \/ \E k \in Caller : ForwardStep(k)
    \/ \E k \in Caller, src, d \in Mac \cup {Group} : Learn(k, src, d)

Spec == Init /\ [][Next]_vars

\* Goroutines run: whoever can go on in Forward or in peerReader does.  A
\* writer is promised nothing: the far end of its wire may never take the frame
\* it is sending.  An inline send is meant to hold its caller until the far end
\* takes the frame or is gone (vswitch.go:193-196), and is taken to return.
FairSpec ==
    /\ Spec
    /\ \A k \in Caller : WF_vars(ForwardStep(k))
    /\ \A c \in Conn : WF_vars(ReaderStep(c))

-----------------------------------------------------------------------------
(* Properties                                                               *)

Forwarding == {"lookup", "emit", "flood", "send", "queue"}
ReaderPc == {"none", "read", "remove", "gone"} \cup Forwarding
Frames == [from : Caller, n : 1 .. MaxFrames]
TypeOK ==
    /\ ports \in [Port -> Wire \cup {None}]
    /\ macs \in [Mac -> Port \cup {NoPort}]
    /\ peers \in Int
    /\ portOf \in [Wire -> Port \cup {NoPort}]
    /\ out \in [Wire -> Seq(Frames)]
    /\ \A w \in Wire : Len(out[w]) <= OutQueue
    /\ done \in [Wire -> BOOLEAN]
    /\ writer \in [Wire -> {"none", "take", "failed", "exited"}]
    /\ hand \in [Wire -> {<<>>} \cup {<<f>> : f \in Frames}]
    /\ reader \in [Caller -> ReaderPc]
    /\ read \in [Caller -> 0 .. MaxFrames]
    /\ dst \in [Caller -> Mac \cup {None}]
    /\ via \in [Caller -> Port \cup {NoPort}]
    /\ targets \in [Caller -> SUBSET Wire]
    /\ alive \in [Wire -> BOOLEAN]
    /\ echoed \in BOOLEAN /\ overtaken \in BOOLEAN /\ thinned \in BOOLEAN

\* Switch.peers, on which emit's choice between sending and queueing rests, is
\* the number of peer ports, although a port that fails is removed twice (by
\* its writer and by its reader).
PeersCounted == peers = Cardinality(UsedPeerPorts)

\* An address is on a peer's port only while the reader of some connection of
\* that port has still to clean up after itself: a reader that learns an
\* address on a port its writer has just removed leaves nothing behind.
MacsBacked ==
    \A m \in Mac : macs[m] \in PeerPort =>
        \E c \in Conn : portOf[c] = macs[m] /\ reader[c] # "gone"

\* No frame comes back on the wire it was read from (hairpins are dropped,
\* floods spare the source), whatever ports were removed and reused meanwhile.
NoEcho == ~echoed

\* What one caller forwards leaves for a given wire in order (vswitch.go:8-9).
FramesInOrder == ~overtaken

\* It does as long as there are peers and the guest and the uplink have their
\* ports: two callers of one wire, full queues, ports that are removed and used
\* again do not disturb it.  Afterwards emit and flood send inline, past what
\* the queues still hold.
OvertakenOnlyThinned == overtaken => thinned

\* A slow port never stalls the switch (vswitch.go:9): whoever is in Forward
\* gets out of it, although a wire that takes no more frames may hold its
\* writer for ever and its queue is full.
SwitchNeverStalls ==
    \A k \in Caller : reader[k] \in Forwarding ~> reader[k] = "read"

\* The port of a peer that went away is free again in the end, and so are its
\* addresses, even if nobody ever sends it a frame (main.go:584-585).
PortsFreed ==
    \A c \in Conn : reader[c] # "none" /\ ~alive[c] ~>
        reader[c] = "gone" /\ \A p \in PeerPort : ports[p] # c

\* Every connection is a switch port with its own reader and queue
\* (main.go:323-324) until its pipe breaks (main.go:584-585).
PeerKeepsPort ==
    \A c \in Conn :
        alive[c] /\ reader[c] \notin {"none", "gone"} => ports[portOf[c]] = c
=============================================================================
