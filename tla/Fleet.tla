------------------------------- MODULE Fleet -------------------------------
(***************************************************************************)
(* The hub seat and its failover: fleet.loop, runPeer and the shutdown of  *)
(* runInstance (vdeplug-go/main.go), elect.TryLock, and the socket file    *)
(* handling of unixseq.BindOrConnect and Listener.Close.                   *)
(*                                                                         *)
(* Every process of the fleet runs the same loop: join a listening hub as  *)
(* a peer; if nobody answers, take the flock on <socket>.lock and bind the *)
(* socket.  One system call is one step, so that two processes interleave  *)
(* between any two of them.  A process may be killed at any step (the      *)
(* kernel then drops its flock and its sockets but not its socket file),   *)
(* stopped and continued (SIGSTOP, SIGCONT), and restarted.                *)
(*                                                                         *)
(* Foreign is the set of processes that bind the same path WITHOUT taking  *)
(* the seat (the older C helper); module MixedFleet gives them their       *)
(* steps.  Here they never run.                                            *)
(***************************************************************************)
EXTENDS FiniteSets, Naturals

CONSTANTS
    Instance,   \* the helper processes, one per guest
    Foreign,    \* binders that know nothing of the seat
    Ino,        \* identities of socket files (inode and device)
    None,       \* no process, no file
    MaxPeers,   \* ports the hub's switch has for peers (32 in vswitch.go)
    Faults      \* what the environment may do: "stop", "guest"

Proc == Instance \cup Foreign

ASSUME ConstantsAssumption ==
    /\ Instance \cap Foreign = {}
    /\ None \notin Proc \cup Ino
    /\ MaxPeers \in Nat
    /\ Faults \subseteq {"stop", "guest"}

VARIABLES
    pc,         \* where each process is in fleet.loop
    seat,       \* who holds the flock on <socket>.lock
    path,       \* the file the socket path names
    ino,        \* the file each process bound its listening socket to
    listening,  \* whether that socket accepts connections
    fileIno,    \* the file Listener remembers having created
    hubOf,      \* at the far end of each process's connection
    conn,       \* the state of that connection
    beat,       \* a heartbeat waits in that connection's receive buffer
    saw,        \* runPeer's sawBeacon: the watchdog is armed
    stopped,    \* stopped by SIGSTOP
    guest       \* the guest side of the process's fd is open

kernel == <<seat, path, ino, listening, fileIno>>
wires  == <<hubOf, conn, beat, saw>>
env    == <<stopped, guest>>
vars   == <<pc, kernel, wires, env>>

(***************************************************************************)
(* The steps of loop in the order the code takes them.                     *)
(*   discover, contend   TryConnect, TryLock                               *)
(*   probe, reprobe      BindOrConnect's two connects, under the seat      *)
(*   unlink, bind, lost  remove a stale file, bind, connect if bind failed *)
(*   listen, capture     listen, and stat of the file just created         *)
(*   joined              BindOrConnect returned a connection               *)
(*   hub                 runInstance until waitShutdown returns            *)
(*   closed, remove      Listener.Close's stat and its unlink              *)
(*   release, exit       release(), os.Exit                                *)
(***************************************************************************)
SeatPc == {"probe", "reprobe", "unlink", "bind", "lost", "listen", "capture",
           "joined", "hub", "closed", "remove", "release"}
Serving == {"hub", "closed", "remove", "release", "exit"}
Pc == SeatPc \cup {"off", "discover", "contend", "exit", "peer"}

At(p, l) == pc[p] = l /\ ~stopped[p]

Goto(p, l) == pc' = [pc EXCEPT ![p] = l]

\* The process a connect to the path reaches.
Listener(q) == path # None /\ ino[q] = path /\ listening[q]

Peers(h) == {q \in Proc : hubOf[q] = h /\ conn[q] = "open"}

Init ==
    /\ pc = [p \in Proc |-> "off"]
    /\ seat = None
    /\ path = None
    /\ ino = [p \in Proc |-> None]
    /\ listening = [p \in Proc |-> FALSE]
    /\ fileIno = [p \in Proc |-> None]
    /\ hubOf = [p \in Proc |-> None]
    /\ conn = [p \in Proc |-> "none"]
    /\ beat = [p \in Proc |-> FALSE]
    /\ saw = [p \in Proc |-> FALSE]
    /\ stopped = [p \in Proc |-> FALSE]
    /\ guest = [p \in Proc |-> TRUE]

-----------------------------------------------------------------------------
(* Faulty variants of steps defined below, as a slip in the code would make *)
(* them: the properties at the end of the module tell them apart.           *)

\* The result of flock is ignored.
TryLockUnchecked(i) ==
    /\ At(i, "contend")
    /\ seat' = i
    /\ Goto(i, "probe")
    /\ UNCHANGED <<path, ino, listening, fileIno, wires, env>>

\* Back off and try the lock again, without looking for a hub first.
SeatHeldRetriesLock(i) ==
    /\ At(i, "contend")
    /\ seat # None
    /\ UNCHANGED vars

\* The stale file is left where it is.
UnlinkSkipped(i) ==
    /\ At(i, "unlink")
    /\ Goto(i, "bind")
    /\ UNCHANGED <<kernel, wires, env>>

\* The seat guards only the removal of the stale file.
UnlinkDropsSeat(i) ==
    /\ At(i, "unlink")
    /\ path' = None
    /\ seat' = None
    /\ Goto(i, "bind")
    /\ UNCHANGED <<ino, listening, fileIno, wires, env>>

\* The seat is kept although the instance goes back to be a peer.
JoinedKeepsSeat(i) ==
    /\ At(i, "joined")
    /\ Goto(i, "discover")
    /\ UNCHANGED <<kernel, wires, env>>

\* Shutdown leaves the seat to the kernel.
ReleaseForgotten(h) ==
    /\ At(h, "release")
    /\ Goto(h, "exit")
    /\ UNCHANGED <<kernel, wires, env>>

\* runPeer's deferred cleanup leaves a connection in a state of its own.
DisconnectHalfway(p) ==
    /\ hubOf' = [hubOf EXCEPT ![p] = None]
    /\ conn' = [conn EXCEPT ![p] = "closing"]
    /\ UNCHANGED <<beat, saw>>

-----------------------------------------------------------------------------
(* What a connect, a close and the end of a process do to the wires.        *)

\* A connected SEQPACKET socket, not yet accepted; runPeer starts unarmed.
Connect(p, q) ==
    /\ hubOf' = [hubOf EXCEPT ![p] = q]
    /\ conn' = [conn EXCEPT ![p] = "backlog"]
    /\ beat' = [beat EXCEPT ![p] = FALSE]
    /\ saw' = [saw EXCEPT ![p] = FALSE]

Disconnect(p) ==
    /\ hubOf' = [hubOf EXCEPT ![p] = None]
    /\ conn' = [conn EXCEPT ![p] = "none"]
    /\ beat' = [beat EXCEPT ![p] = FALSE]
    /\ saw' = [saw EXCEPT ![p] = FALSE]

\* The kernel's part in every exit: descriptors close, the flock is dropped,
\* whoever was connected reads end of file.  The socket file stays.
Die(p) ==
    /\ Goto(p, "off")
    /\ seat' = IF seat = p THEN None ELSE seat
    /\ ino' = [ino EXCEPT ![p] = None]
    /\ listening' = [listening EXCEPT ![p] = FALSE]
    /\ fileIno' = [fileIno EXCEPT ![p] = None]
    /\ hubOf' = [q \in Proc |-> IF q = p \/ hubOf[q] = p THEN None ELSE hubOf[q]]
    /\ conn' = [q \in Proc |-> IF q = p THEN "none"
                               ELSE IF hubOf[q] = p THEN "eof" ELSE conn[q]]
    /\ beat' = [q \in Proc |-> q # p /\ hubOf[q] # p /\ beat[q]]
    /\ saw' = [saw EXCEPT ![p] = FALSE]
    /\ stopped' = [stopped EXCEPT ![p] = FALSE]
    /\ guest' = [guest EXCEPT ![p] = TRUE]
    /\ UNCHANGED path

-----------------------------------------------------------------------------
(* DISCOVER                                                                 *)

Start(i) ==
    /\ pc[i] = "off"
    /\ Goto(i, "discover")
    /\ UNCHANGED <<kernel, wires, env>>

\* TryConnect reached a listener: become its peer.
JoinHub(i) ==
    /\ At(i, "discover")
    /\ \E q \in Proc : Listener(q) /\ Connect(i, q)
    /\ Goto(i, "peer")
    /\ UNCHANGED <<kernel, env>>

\* TryConnect was refused, or there is no file.
NobodyAnswers(i) ==
    /\ At(i, "discover")
    /\ ~\E q \in Proc : Listener(q)
    /\ Goto(i, "contend")
    /\ UNCHANGED <<kernel, wires, env>>

TryLock(i) ==
    /\ At(i, "contend")
    /\ seat = None
    /\ seat' = i
    /\ Goto(i, "probe")
    /\ UNCHANGED <<path, ino, listening, fileIno, wires, env>>

\* ErrSeatHeld: back off, then discover again.
SeatHeld(i) ==
    /\ At(i, "contend")
    /\ seat # None
    /\ Goto(i, "discover")
    /\ UNCHANGED <<kernel, wires, env>>

-----------------------------------------------------------------------------
(* BindOrConnect, under the seat                                            *)

\* Somebody listens without the seat: BindOrConnect returns the connection.
\* loop never uses it (it discovers afresh), so only the step matters here.
ProbeAnswered(i) ==
    /\ \E l \in {"probe", "reprobe", "lost"} : At(i, l)
    /\ \E q \in Proc : Listener(q)
    /\ Goto(i, "joined")
    /\ UNCHANGED <<kernel, wires, env>>

ProbeRefused(i) ==
    /\ ~\E q \in Proc : Listener(q)
    /\ \/ At(i, "probe") /\ Goto(i, "reprobe")
       \/ At(i, "reprobe") /\ Goto(i, "unlink")
    /\ UNCHANGED <<kernel, wires, env>>

\* Stat and remove in one step: a stat that finds no file is the step at that
\* moment, one that finds a socket is the step when the file is removed.
UnlinkStale(i) ==
    /\ At(i, "unlink")
    /\ path' = None
    /\ Goto(i, "bind")
    /\ UNCHANGED <<seat, ino, listening, fileIno, wires, env>>

InoInUse == {path} \cup {ino[p] : p \in Proc} \cup {fileIno[p] : p \in Proc}

\* A file identity nobody remembers; which one is immaterial.
NewIno == CHOOSE n \in Ino : n \notin InoInUse

Bind(i) ==
    /\ At(i, "bind")
    /\ path = None
    /\ Ino \ InoInUse # {}
    /\ path' = NewIno
    /\ ino' = [ino EXCEPT ![i] = NewIno]
    /\ Goto(i, "listen")
    /\ UNCHANGED <<seat, listening, fileIno, wires, env>>

\* EADDRINUSE: another process created the file since UnlinkStale.
BindInUse(i) ==
    /\ At(i, "bind")
    /\ path # None
    /\ Goto(i, "lost")
    /\ UNCHANGED <<kernel, wires, env>>

\* The file is there and nobody listens on it yet: loop gives up (fatalf).
BindFatal(i) ==
    /\ At(i, "lost")
    /\ ~\E q \in Proc : Listener(q)
    /\ Die(i)

Listen(i) ==
    /\ At(i, "listen")
    /\ listening' = [listening EXCEPT ![i] = TRUE]
    /\ Goto(i, "capture")
    /\ UNCHANGED <<seat, path, ino, fileIno, wires, env>>

\* Stat of the path, by name: whatever file it names by now.
Capture(i) ==
    /\ At(i, "capture")
    /\ fileIno' = [fileIno EXCEPT ![i] = path]
    /\ Goto(i, "hub")
    /\ UNCHANGED <<seat, path, ino, listening, wires, env>>

Joined(i) ==
    /\ At(i, "joined")
    /\ seat' = None
    /\ Goto(i, "discover")
    /\ UNCHANGED <<path, ino, listening, fileIno, wires, env>>

-----------------------------------------------------------------------------
(* HUB                                                                      *)

\* acceptPeers: a queued connection gets a switch port, or is closed when
\* the switch has none left.  An accept in flight when the listener's
\* descriptor is closed still returns one connection; the next one fails.
Accept(h, q) ==
    /\ pc[h] \in Serving /\ ~stopped[h] /\ listening[h]
    /\ hubOf[q] = h /\ conn[q] = "backlog"
    /\ \/ /\ Cardinality(Peers(h)) < MaxPeers
          /\ conn' = [conn EXCEPT ![q] = "open"]
          /\ UNCHANGED hubOf
       \/ /\ Cardinality(Peers(h)) >= MaxPeers
          /\ conn' = [conn EXCEPT ![q] = "eof"]
          /\ hubOf' = [hubOf EXCEPT ![q] = None]
    /\ listening' = [listening EXCEPT ![h] = (pc[h] = "hub")]
    /\ UNCHANGED <<pc, seat, path, ino, fileIno, beat, saw, env>>

\* sendBeacons: one heartbeat flooded to every peer port.
SendBeacon(h) ==
    /\ pc[h] \in Serving /\ ~stopped[h]
    /\ beat' = [q \in Proc |-> beat[q] \/ q \in Peers(h)]
    /\ UNCHANGED <<pc, kernel, hubOf, conn, saw, env>>

\* waitShutdown returns (a signal, or the netstack pump ended) and
\* Listener.Close closes the descriptor.  acceptPeers may be blocked in
\* accept, which keeps the socket listening.
Shutdown(h) ==
    /\ At(h, "hub")
    /\ \E open \in BOOLEAN : listening' = [listening EXCEPT ![h] = open]
    /\ Goto(h, "closed")
    /\ UNCHANGED <<seat, path, ino, fileIno, wires, env>>

\* waitShutdown returns because the guest link is gone (rxErr).
GuestGoneShutdown(h) ==
    /\ ~guest[h]
    /\ Shutdown(h)

\* Listener.Close looks whether the path still names the file it created.
CloseStat(h) ==
    /\ At(h, "closed")
    /\ Goto(h, IF fileIno[h] # None /\ path = fileIno[h] THEN "remove" ELSE "release")
    /\ UNCHANGED <<kernel, wires, env>>

\* If it did, whatever file it names by now is removed.
CloseRemove(h) ==
    /\ At(h, "remove")
    /\ path' = None
    /\ Goto(h, "release")
    /\ UNCHANGED <<seat, ino, listening, fileIno, wires, env>>

Release(h) ==
    /\ At(h, "release")
    /\ seat' = None
    /\ Goto(h, "exit")
    /\ UNCHANGED <<path, ino, listening, fileIno, wires, env>>

Exit(h) ==
    /\ At(h, "exit")
    /\ Die(h)

-----------------------------------------------------------------------------
(* PEER: runPeer                                                            *)

\* The reader takes a heartbeat and arms the watchdog.
HearBeacon(i) ==
    /\ At(i, "peer")
    /\ beat[i]
    /\ beat' = [beat EXCEPT ![i] = FALSE]
    /\ saw' = [saw EXCEPT ![i] = TRUE]
    /\ UNCHANGED <<pc, kernel, hubOf, conn, env>>

\* The hub closed the connection or died.
HubLost(i) ==
    /\ At(i, "peer")
    /\ conn[i] = "eof"
    /\ Disconnect(i)
    /\ Goto(i, "discover")
    /\ UNCHANGED <<kernel, env>>

\* errHubSilent.  Time is abstract: an armed watchdog may find the last beat
\* too old at any moment, since the peer itself may have been the one that
\* did not run.
HubSilent(i) ==
    /\ At(i, "peer")
    /\ saw[i]
    /\ Disconnect(i)
    /\ Goto(i, "discover")
    /\ UNCHANGED <<kernel, env>>

\* A frame from the hub cannot be delivered: the guest side is closed.
GuestWriteFails(i) ==
    /\ At(i, "peer")
    /\ ~guest[i]
    /\ conn[i] = "open"
    /\ ~stopped[hubOf[i]]
    /\ Disconnect(i)
    /\ Goto(i, "discover")
    /\ UNCHANGED <<kernel, env>>

-----------------------------------------------------------------------------
(* Faults and the environment                                               *)

\* SIGKILL; also every fatalf on the way (uplink, NAT, wireguard set-up).
Kill(p) ==
    /\ pc[p] # "off"
    /\ Die(p)

Stop(p) ==
    /\ "stop" \in Faults
    /\ pc[p] # "off" /\ ~stopped[p]
    /\ stopped' = [stopped EXCEPT ![p] = TRUE]
    /\ UNCHANGED <<pc, kernel, wires, guest>>

Continue(p) ==
    /\ stopped[p]
    /\ stopped' = [stopped EXCEPT ![p] = FALSE]
    /\ UNCHANGED <<pc, kernel, wires, guest>>

\* The guest closes its end of the process's fd.
GuestGone(i) ==
    /\ "guest" \in Faults
    /\ pc[i] # "off" /\ guest[i]
    /\ guest' = [guest EXCEPT ![i] = FALSE]
    /\ UNCHANGED <<pc, kernel, wires, stopped>>

-----------------------------------------------------------------------------
\* The steps of loop itself: always enabled until the process serves or peers.
LoopStep(i) ==
    \/ JoinHub(i) \/ NobodyAnswers(i) \/ TryLock(i) \/ SeatHeld(i)
    \/ ProbeAnswered(i) \/ ProbeRefused(i) \/ UnlinkStale(i)
    \/ Bind(i) \/ BindInUse(i) \/ BindFatal(i) \/ Listen(i) \/ Capture(i)
    \/ Joined(i) \/ CloseStat(i) \/ CloseRemove(i) \/ Release(i) \/ Exit(i)

PeerStep(i) == HearBeacon(i) \/ HubLost(i) \/ HubSilent(i) \/ GuestWriteFails(i)

HubStep(i) == (\E q \in Proc : Accept(i, q)) \/ SendBeacon(i) \/ Shutdown(i)

Fault(i) == Start(i) \/ Kill(i) \/ Stop(i) \/ Continue(i) \/ GuestGone(i)

Next == \E i \in Instance : LoopStep(i) \/ PeerStep(i) \/ HubStep(i) \/ Fault(i)

Spec == Init /\ [][Next]_vars

(***************************************************************************)
(* Fairness: a process that is not stopped runs (the Go scheduler and the  *)
(* kernel run every thread), every queued connection is accepted in the    *)
(* end (the backlog is first in, first out), a beacon is                   *)
(* sent and read, the end of a connection is noticed, a silent hub is      *)
(* noticed by an armed watchdog, and a hub whose guest is gone shuts down. *)
(* Nothing is assumed of starts, kills, signals or guests.                 *)
(***************************************************************************)
Fairness ==
    \A i \in Instance :
        /\ WF_vars(LoopStep(i))
        /\ \A q \in Proc : WF_vars(Accept(i, q))
        /\ WF_vars(SendBeacon(i))
        /\ WF_vars(GuestGoneShutdown(i))
        /\ WF_vars(HearBeacon(i))
        /\ WF_vars(HubLost(i))
        /\ WF_vars(hubOf[i] \in Proc /\ stopped[hubOf[i]] /\ HubSilent(i))
        /\ WF_vars(GuestWriteFails(i))

FairSpec == Spec /\ Fairness

-----------------------------------------------------------------------------
(* Properties                                                               *)

TypeOK ==
    /\ pc \in [Proc -> Pc]
    /\ seat \in Proc \cup {None}
    /\ path \in Ino \cup {None}
    /\ ino \in [Proc -> Ino \cup {None}]
    /\ listening \in [Proc -> BOOLEAN]
    /\ fileIno \in [Proc -> Ino \cup {None}]
    /\ hubOf \in [Proc -> Proc \cup {None}]
    /\ conn \in [Proc -> {"none", "backlog", "open", "eof"}]
    /\ beat \in [Proc -> BOOLEAN]
    /\ saw \in [Proc -> BOOLEAN]
    /\ stopped \in [Proc -> BOOLEAN]
    /\ guest \in [Proc -> BOOLEAN]

\* The flock is held by exactly the instance that is between TryLock and
\* release: no path through loop, no exit and no crash leaks the seat or
\* goes on without it.
SeatMatchesRole ==
    \A i \in Instance : seat = i <=> pc[i] \in SeatPc

\* Split-brain is impossible (main.go:370, elect.go:7): two instances never
\* own a bound hub socket at the same time.
Owners == {i \in Instance : pc[i] \in {"listen", "capture", "hub", "closed", "remove"}}
NoSplitBrain == \A i, j \in Owners : i = j

\* A serving hub, even a stopped one, stays reachable: the path names the
\* file it bound, and its socket listens on it.
HubReachable ==
    \A i \in Instance : pc[i] = "hub" => path = ino[i] /\ listening[i]

\* Under the seat bind cannot lose the race, so the fatal exit after it
\* (main.go:463) is never taken.
BindNeverLost == \A i \in Instance : pc[i] # "lost"

\* A step that removes the socket file removes a stale one or its own: never
\* the file a live process listens on, or is about to (unixseq.go:60).
LiveSocketKept ==
    [][ \A q \in Proc :
          path # None /\ path = ino[q] /\ pc[q] # "remove" => path' = path ]_vars

\* Loop, flock and socket file together implement the abstract seat: the hub
\* is open from the moment BindOrConnect has returned the listener until
\* waitShutdown returns, and it is opened, closed and left only by whoever
\* took the seat when it was free.
AbstractSeat == INSTANCE Seat WITH
    Candidate <- Instance, Nobody <- None,
    holder <- seat, serving <- {i \in Instance : pc[i] = "hub"}
ImplementsSeat == AbstractSeat!SeatSpec

\* Whatever crashed before, once faults stop and nobody is left stopped,
\* every instance that runs keeps getting served: it is the hub, or an
\* accepted peer, again and again.
Served(i) == pc[i] \in {"off", "hub"} \/ (pc[i] = "peer" /\ conn[i] = "open")
Calm == [][\A i \in Instance : ~Fault(i)]_vars
AllServed ==
    (<>Calm /\ <>[](\A p \in Proc : ~stopped[p])) => \A i \in Instance : []<>Served(i)

\* A hub that has beaconed and then falls silent is treated as dead, even
\* though its socket may still accept (main.go:351-353): a peer that heard it
\* and finds it stopped for good ends up elsewhere, once faults stop.
WedgedHubLeft ==
    <>Calm => \A i, h \in Instance :
        [](saw[i] /\ hubOf[i] = h /\ [](stopped[h] /\ ~stopped[i])
              => <>[](hubOf[i] # h))

\* When the guest side is gone the instance shuts down (main.go:414), once
\* faults stop.
GuestGoneExits ==
    <>Calm => \A i \in Instance : ~guest[i] ~> pc[i] = "off"
=============================================================================
