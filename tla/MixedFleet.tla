---------------------------- MODULE MixedFleet ----------------------------
(***************************************************************************)
(* A fleet whose socket path is shared with processes that never take the  *)
(* flock:                                                                  *)
(*   - the older C helper (vde_plug/vde_plug.c).  It connects or binds     *)
(*     (sw_bind_or_connect), relays until its guest or its hub goes away,  *)
(*     and when it was the hub removes the socket path on its way out      *)
(*     (sw_cleanup), whatever file the path names by then.  It sends no    *)
(*     heartbeats.                                                         *)
(*   - the websocket bridge (helpers/vdews, -mode connect).  It listens on *)
(*     the path for a switch on another machine, gives every connection a  *)
(*     session of its own, and binds anew when its file was replaced.      *)
(***************************************************************************)
EXTENDS Fleet

CONSTANTS
    Bridge,         \* the processes of Foreign that run vdews; the others run C
    MaxForeign      \* bound: how many of Foreign run at a time

ASSUME MixedConstants == Bridge \subseteq Foreign /\ MaxForeign \in Nat

ForeignStart(f) ==
    /\ pc[f] = "off"
    /\ Cardinality({g \in Foreign : pc[g] # "off"}) < MaxForeign
    /\ Goto(f, "probe")
    /\ UNCHANGED <<kernel, wires, env>>

-----------------------------------------------------------------------------
(* sw_bind_or_connect: one connect, unlink, bind, connect if bind failed.   *)

CStart(f) == ForeignStart(f)

\* The first connect, or the one after a lost bind, is answered: peer_loop.
CJoin(f) ==
    /\ At(f, "probe") \/ At(f, "lost")
    /\ \E q \in Proc : Listener(q) /\ Connect(f, q)
    /\ Goto(f, "peer")
    /\ UNCHANGED <<kernel, env>>

CRefused(f) ==
    /\ At(f, "probe")
    /\ ~\E q \in Proc : Listener(q)
    /\ Goto(f, "unlink")
    /\ UNCHANGED <<kernel, wires, env>>

\* Neither bind nor connect worked: the helper runs on without the switch,
\* so it leaves the fleet.
CStandalone(f) ==
    /\ At(f, "lost")
    /\ ~\E q \in Proc : Listener(q)
    /\ Die(f)

CListen(f) ==
    /\ At(f, "listen")
    /\ listening' = [listening EXCEPT ![f] = TRUE]
    /\ Goto(f, "hub")
    /\ UNCHANGED <<seat, path, ino, fileIno, wires, env>>

\* hub_loop ends (a signal, or the guest is gone): main closes every peer and
\* the listener.
CShutdown(f) ==
    /\ At(f, "hub")
    /\ listening' = [listening EXCEPT ![f] = FALSE]
    /\ hubOf' = [q \in Proc |-> IF hubOf[q] = f THEN None ELSE hubOf[q]]
    /\ conn' = [q \in Proc |-> IF hubOf[q] = f THEN "eof" ELSE conn[q]]
    /\ beat' = [q \in Proc |-> hubOf[q] # f /\ beat[q]]
    /\ Goto(f, "closed")
    /\ UNCHANGED <<seat, path, ino, fileIno, saw, env>>

\* sw_cleanup.
CCleanup(f) ==
    /\ At(f, "closed")
    /\ path' = None
    /\ Goto(f, "exit")
    /\ UNCHANGED <<seat, ino, listening, fileIno, wires, env>>

\* peer_loop ends: the hub went away, or the guest did.
CPeerEnds(f) ==
    /\ At(f, "peer")
    /\ conn[f] = "eof" \/ ~guest[f]
    /\ Die(f)

CStep(f) ==
    \/ CJoin(f) \/ CRefused(f) \/ UnlinkStale(f) \/ Bind(f) \/ BindInUse(f)
    \/ CStandalone(f) \/ CListen(f) \/ CShutdown(f) \/ CCleanup(f) \/ Exit(f)
    \/ CPeerEnds(f) \/ (pc[f] = "hub" /\ \E q \in Proc : Accept(f, q))

-----------------------------------------------------------------------------
(* vdews: BindOrConnect as the Go helper has it, but without the seat.      *)

BStart(f) == ForeignStart(f)

\* "someone is already listening": the bridge gives up (log.Fatalf).
BJoined(f) ==
    /\ At(f, "joined")
    /\ Die(f)

\* acceptLoop: no limit on sessions, and one goroutine for each.
BAccept(f, q) ==
    /\ At(f, "hub")
    /\ hubOf[q] = f /\ conn[q] = "backlog"
    /\ conn' = [conn EXCEPT ![q] = "open"]
    /\ UNCHANGED <<pc, kernel, hubOf, beat, saw, env>>

\* The far bridge cannot be dialled, or its end of the session breaks.
BSessionEnds(f, q) ==
    /\ pc[f] # "off" /\ ~stopped[f]
    /\ hubOf[q] = f /\ conn[q] = "open"
    /\ conn' = [conn EXCEPT ![q] = "eof"]
    /\ hubOf' = [hubOf EXCEPT ![q] = None]
    /\ UNCHANGED <<pc, kernel, beat, saw, env>>

\* watchListener: the path is gone or names another file, so the listener is
\* closed and the outer loop binds afresh.  Close's own look at the path
\* cannot find the old file again, so it removes nothing.  Sessions live on;
\* of the connections that wait, an accept in flight may still take one, and
\* the others end.
BWatch(f) ==
    /\ At(f, "hub")
    /\ path = None \/ path # fileIno[f]
    /\ Goto(f, "probe")
    /\ ino' = [ino EXCEPT ![f] = None]
    /\ listening' = [listening EXCEPT ![f] = FALSE]
    /\ fileIno' = [fileIno EXCEPT ![f] = None]
    /\ LET Waiting == {q \in Proc : hubOf[q] = f /\ conn[q] = "backlog"}
       IN  \E taken \in {{}} \cup {{q} : q \in Waiting} :
              /\ conn' = [q \in Proc |-> IF q \in taken THEN "open"
                                         ELSE IF q \in Waiting THEN "eof" ELSE conn[q]]
              /\ hubOf' = [q \in Proc |-> IF q \in Waiting \ taken THEN None ELSE hubOf[q]]
    /\ UNCHANGED <<seat, path, beat, saw, env>>

\* SendBeacon: the heartbeats of the far hub come through the sessions.
BStep(f) ==
    \/ ProbeAnswered(f) \/ ProbeRefused(f) \/ UnlinkStale(f) \/ Bind(f)
    \/ BindInUse(f) \/ BindFatal(f) \/ Listen(f) \/ Capture(f) \/ BJoined(f)
    \/ (\E q \in Proc : BAccept(f, q) \/ BSessionEnds(f, q))
    \/ BWatch(f) \/ SendBeacon(f)

ForeignFault(f) == Kill(f) \/ Stop(f) \/ Continue(f)

MixedNext ==
    \/ Next
    \/ \E f \in Foreign \ Bridge : CStart(f) \/ CStep(f) \/ GuestGone(f) \/ ForeignFault(f)
    \/ \E f \in Bridge : BStart(f) \/ BStep(f) \/ ForeignFault(f)

MixedSpec == Init /\ [][MixedNext]_vars

-----------------------------------------------------------------------------
(* Properties of the Go instances, whatever the older binaries do.          *)
(* SeatMatchesRole and NoSplitBrain of Fleet still hold; this one does not. *)

\* Listener.Close spares a rebinder (unixseq.go:128-131): it never removes a
\* file on which another process listens.
CloseSparesRebinder ==
    [][ \A i \in Instance : \A q \in Proc \ {i} :
          (CloseRemove(i) /\ Listener(q)) => path' = path ]_vars
=============================================================================
