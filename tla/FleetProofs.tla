---------------------------- MODULE FleetProofs ----------------------------
(***************************************************************************)
(* Proofs about Fleet, for every set of instances.                         *)
(*                                                                         *)
(* The seat alone is inductive (SeatMatchesRole), but what it is for is    *)
(* not: that the serving hub stays reachable and that nobody removes a     *)
(* live socket needs to relate the socket file to the seat.  SocketInv     *)
(* does: while an instance owns a bound socket the path names its file,    *)
(* nobody else's socket is behind the path, and between the removal of a   *)
(* stale file and bind the path is empty.                                  *)
(***************************************************************************)
EXTENDS Fleet, TLAPS

\* The steps at which a process owns a bound socket that the path names.
OwnerPc == {"listen", "capture", "hub", "closed", "remove"}

\* Only instances ever take the seat, and here nobody else runs.
SeatOfInstance == seat \notin Foreign

ForeignOff == \A f \in Foreign : pc[f] = "off"

\* A process has a socket file exactly while it owns one or is leaving.
InoMatchesRole ==
    \A p \in Proc : ino[p] # None <=> pc[p] \in OwnerPc \cup {"release", "exit"}

\* An owner's file is the one the path names, and only an owner's is.
PathOfOwner ==
    \A p \in Proc : ino[p] # None => (path = ino[p] <=> pc[p] \in OwnerPc)

ListeningOwner ==
    \A p \in Proc : pc[p] \in {"capture", "hub"} => listening[p]

\* Listener remembers the file it bound: it stats the path while it owns it.
CapturedOwn ==
    \A p \in Proc : pc[p] \in {"hub", "closed", "remove"} => fileIno[p] = ino[p]

\* No file appears between UnlinkStale and Bind, and bind never fails.
PathClear ==
    \A p \in Proc : pc[p] # "lost" /\ (pc[p] = "bind" => path = None)

SocketInv ==
    /\ ForeignOff
    /\ InoMatchesRole
    /\ PathOfOwner
    /\ ListeningOwner
    /\ CapturedOwn
    /\ PathClear

IInv == TypeOK /\ SeatMatchesRole /\ SeatOfInstance /\ SocketInv

-----------------------------------------------------------------------------
(* Type correctness                                                         *)

\* Fresh file identities exist when Bind is enabled.
LEMMA NewInoFresh ==
    ASSUME Ino \ InoInUse # {}
    PROVE  NewIno \in Ino /\ NewIno \notin InoInUse
  BY DEF NewIno

\* A process that ends leaves every variable in its type.
LEMMA DieType ==
    ASSUME TypeOK, NEW p \in Proc, Die(p)
    PROVE  TypeOK'
  BY DEF TypeOK, Die, Goto, Pc, SeatPc

\* So does every step of loop, whoever takes it,
LEMMA LoopType ==
    ASSUME TypeOK, NEW i \in Proc, LoopStep(i)
    PROVE  TypeOK'
<1> USE DEF TypeOK, Pc, SeatPc, Goto, kernel, wires, env
<1>1. CASE JoinHub(i)
  BY <1>1 DEF JoinHub, Connect
<1>2. CASE NobodyAnswers(i) \/ TryLock(i) \/ SeatHeld(i) \/ ProbeAnswered(i) \/ ProbeRefused(i)
  BY <1>2 DEF NobodyAnswers, TryLock, SeatHeld, ProbeAnswered, ProbeRefused
<1>3. CASE Bind(i)
  BY <1>3, NewInoFresh DEF Bind
<1>4. CASE UnlinkStale(i) \/ BindInUse(i) \/ Joined(i)
  BY <1>4 DEF UnlinkStale, BindInUse, Joined
<1>5. CASE Listen(i)
  BY <1>5 DEF Listen
<1>6. CASE Capture(i)
  BY <1>6 DEF Capture
<1>7. CASE CloseStat(i) \/ CloseRemove(i) \/ Release(i)
  BY <1>7 DEF CloseStat, CloseRemove, Release
<1>8. CASE BindFatal(i) \/ Exit(i)
  BY <1>8, DieType DEF BindFatal, Exit
<1> QED
  BY <1>1, <1>2, <1>3, <1>4, <1>5, <1>6, <1>7, <1>8 DEF LoopStep

\* of the hub,
LEMMA HubType ==
    ASSUME TypeOK, NEW i \in Proc, HubStep(i)
    PROVE  TypeOK'
<1> USE DEF TypeOK, Pc, SeatPc, Goto, kernel, wires, env
<1>1. ASSUME NEW q \in Proc, Accept(i, q) PROVE TypeOK'
  BY <1>1 DEF Accept
<1>2. CASE SendBeacon(i)
  BY <1>2 DEF SendBeacon
<1>3. CASE Shutdown(i)
  BY <1>3 DEF Shutdown
<1> QED
  BY <1>1, <1>2, <1>3 DEF HubStep

\* and every fault.
LEMMA FaultType ==
    ASSUME TypeOK, NEW i \in Proc, Fault(i)
    PROVE  TypeOK'
<1> USE DEF TypeOK, Pc, SeatPc, Goto, kernel, wires, env
<1>1. CASE Kill(i)
  BY <1>1, DieType DEF Kill
<1>2. CASE Start(i) \/ Stop(i) \/ Continue(i) \/ GuestGone(i)
  BY <1>2 DEF Start, Stop, Continue, GuestGone
<1> QED
  BY <1>1, <1>2 DEF Fault

\* Every step keeps every variable in its type.
LEMMA TypeStep == TypeOK /\ [Next]_vars => TypeOK'
<1> SUFFICES ASSUME TypeOK, [Next]_vars PROVE TypeOK'
  OBVIOUS
<1>1. CASE UNCHANGED vars
  BY <1>1 DEF vars, TypeOK, kernel, wires, env
<1>2. ASSUME NEW i \in Instance, PeerStep(i) PROVE TypeOK'
  <2> i \in Proc
    BY DEF Proc
  <2> QED
    BY <1>2 DEF TypeOK, Pc, SeatPc, Goto, kernel, wires, env,
                PeerStep, HearBeacon, HubLost, HubSilent, GuestWriteFails, Disconnect
<1>3. Instance \subseteq Proc
  BY DEF Proc
<1> QED
  BY <1>1, <1>2, <1>3, LoopType, HubType, FaultType DEF Next

\* Every variable of the fleet keeps its type in every reachable state.
THEOREM TypeCorrect == Spec => []TypeOK
<1>1. Init => TypeOK
  BY DEF Init, TypeOK, Pc
<1> QED
  BY <1>1, TypeStep, PTL DEF Spec

-----------------------------------------------------------------------------
(* The seat                                                                 *)

\* The kernel drops the seat with its holder, whatever process ends.
LEMMA DieSeat ==
    ASSUME TypeOK, SeatMatchesRole, SeatOfInstance, NEW p \in Proc, Die(p)
    PROVE  SeatMatchesRole' /\ SeatOfInstance'
  BY ConstantsAssumption DEF TypeOK, SeatMatchesRole, SeatOfInstance, Die, Goto, SeatPc, Proc

\* Every step keeps the flock with the one instance that is between TryLock
\* and release.
LEMMA SeatStep ==
    TypeOK /\ SeatMatchesRole /\ SeatOfInstance /\ [Next]_vars
        => SeatMatchesRole' /\ SeatOfInstance'
<1> SUFFICES ASSUME TypeOK, SeatMatchesRole, SeatOfInstance, [Next]_vars
             PROVE  SeatMatchesRole' /\ SeatOfInstance'
  OBVIOUS
<1> Instance \subseteq Proc
  BY DEF Proc
<1> USE ConstantsAssumption
    DEF TypeOK, SeatMatchesRole, SeatOfInstance, SeatPc, Goto, At, kernel, Proc
<1>1. CASE UNCHANGED vars
  BY <1>1 DEF vars
<1>2. ASSUME NEW i \in Instance, LoopStep(i) PROVE SeatMatchesRole' /\ SeatOfInstance'
  <2>1. CASE JoinHub(i) \/ NobodyAnswers(i) \/ SeatHeld(i)
    BY <2>1 DEF JoinHub, NobodyAnswers, SeatHeld
  <2>2. CASE TryLock(i)
    BY <2>2 DEF TryLock
  <2>3. CASE ProbeAnswered(i) \/ ProbeRefused(i) \/ BindInUse(i)
    BY <2>3 DEF ProbeAnswered, ProbeRefused, BindInUse
  <2>4. CASE UnlinkStale(i) \/ Bind(i) \/ Listen(i) \/ Capture(i) \/ CloseRemove(i)
    BY <2>4 DEF UnlinkStale, Bind, Listen, Capture, CloseRemove
  <2>5. CASE Joined(i) \/ Release(i)
    BY <2>5 DEF Joined, Release
  <2>7. CASE CloseStat(i)
    BY <2>7 DEF CloseStat
  <2>6. CASE BindFatal(i) \/ Exit(i)
    BY <2>6, DieSeat DEF BindFatal, Exit
  <2> QED
    BY <1>2, <2>1, <2>2, <2>3, <2>4, <2>5, <2>6, <2>7 DEF LoopStep
<1>3. ASSUME NEW i \in Instance, PeerStep(i) PROVE SeatMatchesRole' /\ SeatOfInstance'
  BY <1>3 DEF PeerStep, HearBeacon, HubLost, HubSilent, GuestWriteFails
<1>4. ASSUME NEW i \in Instance, HubStep(i) PROVE SeatMatchesRole' /\ SeatOfInstance'
  BY <1>4 DEF HubStep, Accept, SendBeacon, Shutdown
<1>5. ASSUME NEW i \in Instance, Fault(i) PROVE SeatMatchesRole' /\ SeatOfInstance'
  <2>1. CASE Kill(i)
    BY <2>1, DieSeat DEF Kill
  <2>2. CASE Start(i) \/ Stop(i) \/ Continue(i) \/ GuestGone(i)
    BY <2>2 DEF Start, Stop, Continue, GuestGone
  <2> QED
    BY <1>5, <2>1, <2>2 DEF Fault
<1> QED
  BY <1>1, <1>2, <1>3, <1>4, <1>5 DEF Next

\* No step of an instance makes anybody else run.
LEMMA ForeignStaysOff == TypeOK /\ ForeignOff /\ [Next]_vars => ForeignOff'
<1> SUFFICES ASSUME TypeOK, [Next]_vars, NEW f \in Foreign PROVE pc'[f] = pc[f]
  BY DEF ForeignOff
<1> USE ConstantsAssumption DEF TypeOK, Goto, Proc
<1>1. CASE UNCHANGED vars
  BY <1>1 DEF vars
<1>2. ASSUME NEW i \in Instance, LoopStep(i) PROVE pc'[f] = pc[f]
  BY <1>2 DEF LoopStep, JoinHub, NobodyAnswers, TryLock, SeatHeld, ProbeAnswered, ProbeRefused,
              UnlinkStale, Bind, BindInUse, BindFatal, Listen, Capture, Joined, CloseStat,
              CloseRemove, Release, Exit, Die
<1>3. ASSUME NEW i \in Instance, PeerStep(i) \/ HubStep(i) \/ Fault(i) PROVE pc'[f] = pc[f]
  BY <1>3 DEF PeerStep, HearBeacon, HubLost, HubSilent, GuestWriteFails, HubStep, Accept,
              SendBeacon, Shutdown, Fault, Start, Kill, Die, Stop, Continue, GuestGone
<1> QED
  BY <1>1, <1>2, <1>3 DEF Next

\* Whoever is between TryLock and release holds the flock and nobody else
\* does, so no two instances ever own a bound hub socket.
THEOREM SeatCorrect == Spec => [](SeatMatchesRole /\ NoSplitBrain)
<1>1. Init => SeatMatchesRole /\ SeatOfInstance
  BY ConstantsAssumption DEF Init, SeatMatchesRole, SeatOfInstance, SeatPc, Proc
<1>2. SeatMatchesRole => NoSplitBrain
  BY DEF SeatMatchesRole, NoSplitBrain, Owners, SeatPc
<1> QED
  BY <1>1, <1>2, SeatStep, TypeCorrect, PTL DEF Spec

-----------------------------------------------------------------------------
(* The socket file                                                          *)

\* Two processes that both hold the seat are one and the same.
LEMMA OneHolder ==
    ASSUME SeatMatchesRole, ForeignOff,
           NEW p \in Proc, NEW q \in Proc, pc[p] \in SeatPc, pc[q] \in SeatPc
    PROVE  p = q
  BY DEF SeatMatchesRole, ForeignOff, Proc, SeatPc

\* A process that ends keeps the path and takes only its own socket away.
LEMMA DieSocket ==
    ASSUME IInv, NEW p \in Instance, Die(p)
    PROVE  SocketInv'
<1> USE DEF TypeOK, IInv, SocketInv, Die, Goto, Proc
<1>1. ForeignOff'
  BY ConstantsAssumption DEF ForeignOff
<1>2. InoMatchesRole' /\ PathOfOwner'
  BY ConstantsAssumption DEF InoMatchesRole, PathOfOwner, OwnerPc
<1>3. ListeningOwner' /\ CapturedOwn' /\ PathClear'
  BY DEF ListeningOwner, CapturedOwn, PathClear
<1> QED
  BY <1>1, <1>2, <1>3

\* A step that keeps the path and every socket, and moves one process
\* between steps at which it owns none, keeps the invariant.
LEMMA IdleSocket ==
    ASSUME IInv, ForeignOff', UNCHANGED <<path, ino, listening, fileIno>>,
           NEW i \in Instance, NEW l \in Pc \ (OwnerPc \cup {"release", "exit", "bind", "lost"}),
           pc[i] \notin OwnerPc \cup {"release", "exit"},
           pc' = [pc EXCEPT ![i] = l]
    PROVE  SocketInv'
<1> USE DEF TypeOK, IInv, SocketInv, Proc
<1>1. InoMatchesRole' /\ PathOfOwner'
  BY DEF InoMatchesRole, PathOfOwner, OwnerPc
<1>2. ListeningOwner' /\ CapturedOwn' /\ PathClear'
  BY DEF ListeningOwner, CapturedOwn, PathClear, OwnerPc
<1> QED
  BY <1>1, <1>2

\* Every step keeps the relation between the seat and the socket file.
LEMMA SocketStep == IInv /\ [Next]_vars => SocketInv'
<1> SUFFICES ASSUME IInv, [Next]_vars PROVE SocketInv'
  OBVIOUS
<1>0. ForeignOff'
  BY ForeignStaysOff DEF IInv, SocketInv
<1> USE DEF IInv, SocketInv
<1>1. CASE UNCHANGED vars
  BY <1>1 DEF vars, kernel, ForeignOff, InoMatchesRole, PathOfOwner,
             ListeningOwner, CapturedOwn, PathClear
<1>2. ASSUME NEW i \in Instance, LoopStep(i) PROVE SocketInv'
  <2> i \in Proc
    BY DEF Proc
  <2>1. CASE JoinHub(i)
    BY <1>0, <2>1, IdleSocket DEF JoinHub, At, Goto, kernel, Pc, SeatPc, OwnerPc
  <2>2. CASE NobodyAnswers(i) \/ SeatHeld(i)
    BY <1>0, <2>2, IdleSocket DEF NobodyAnswers, SeatHeld, At, Goto, kernel, Pc, SeatPc, OwnerPc
  <2>3. CASE TryLock(i) \/ Joined(i)
    BY <1>0, <2>3, IdleSocket DEF TryLock, Joined, At, Goto, Pc, SeatPc, OwnerPc
  <2>4. CASE ProbeAnswered(i) \/ ProbeRefused(i)
    BY <1>0, <2>4, IdleSocket
       DEF ProbeAnswered, ProbeRefused, At, Goto, kernel, Pc, SeatPc, OwnerPc
  <2>5. CASE UnlinkStale(i)
    <3>1. \A p \in Proc \ {i} : pc[p] \notin SeatPc
      BY <2>5, OneHolder DEF UnlinkStale, At, SeatPc
    <3> QED
      BY <1>0, <2>5, <3>1
         DEF UnlinkStale, At, Goto, TypeOK, SeatPc, OwnerPc, InoMatchesRole, PathOfOwner,
             ListeningOwner, CapturedOwn, PathClear
  <2>6. CASE Bind(i)
    <3>1. \A p \in Proc \ {i} : pc[p] \notin SeatPc
      BY <2>6, OneHolder DEF Bind, At, SeatPc
    <3>2. /\ NewIno \in Ino
          /\ \A p \in Proc : ino[p] # NewIno
      BY <2>6, NewInoFresh DEF Bind, InoInUse
    <3> QED
      BY <1>0, <2>6, <3>1, <3>2, ConstantsAssumption
         DEF Bind, At, Goto, TypeOK, SeatPc, OwnerPc, InoMatchesRole, PathOfOwner,
             ListeningOwner, CapturedOwn, PathClear
  <2>7. CASE BindInUse(i) \/ BindFatal(i)
    BY <2>7 DEF BindInUse, BindFatal, At, PathClear
  <2>8. CASE Listen(i) \/ Capture(i)
    BY <1>0, <2>8
       DEF Listen, Capture, At, Goto, TypeOK, OwnerPc, InoMatchesRole, PathOfOwner,
           ListeningOwner, CapturedOwn, PathClear
  <2>9. CASE CloseStat(i)
    <3>1. pc' = [pc EXCEPT ![i] = "remove"]
      BY <2>9, ConstantsAssumption
         DEF CloseStat, At, Goto, TypeOK, OwnerPc, InoMatchesRole, PathOfOwner, CapturedOwn
    <3> QED
      BY <1>0, <2>9, <3>1
         DEF CloseStat, At, kernel, TypeOK, OwnerPc, InoMatchesRole, PathOfOwner,
             ListeningOwner, CapturedOwn, PathClear
  <2>12. CASE CloseRemove(i)
    <3>1. \A p \in Proc \ {i} : pc[p] \notin SeatPc
      BY <2>12, OneHolder DEF CloseRemove, At, SeatPc
    <3> QED
      BY <1>0, <2>12, <3>1
         DEF CloseRemove, At, Goto, TypeOK, SeatPc, OwnerPc, InoMatchesRole, PathOfOwner,
             ListeningOwner, CapturedOwn, PathClear
  <2>10. CASE Release(i)
    BY <1>0, <2>10
       DEF Release, At, Goto, TypeOK, OwnerPc, InoMatchesRole, PathOfOwner,
           ListeningOwner, CapturedOwn, PathClear
  <2>11. CASE Exit(i)
    BY <2>11, DieSocket DEF Exit
  <2> QED
    BY <1>2, <2>1, <2>2, <2>3, <2>4, <2>5, <2>6, <2>7, <2>8, <2>9, <2>10, <2>11, <2>12 DEF LoopStep
<1>3. ASSUME NEW i \in Instance, PeerStep(i) PROVE SocketInv'
  <2>1. CASE HearBeacon(i)
    BY <1>0, <2>1 DEF HearBeacon, kernel, InoMatchesRole, PathOfOwner, ListeningOwner,
                      CapturedOwn, PathClear
  <2>2. CASE HubLost(i) \/ HubSilent(i) \/ GuestWriteFails(i)
    BY <1>0, <2>2, IdleSocket
       DEF HubLost, HubSilent, GuestWriteFails, At, Goto, kernel, Pc, SeatPc, OwnerPc
  <2> QED
    BY <1>3, <2>1, <2>2 DEF PeerStep
<1>4. ASSUME NEW i \in Instance, HubStep(i) PROVE SocketInv'
  <2> i \in Proc
    BY DEF Proc
  <2>1. ASSUME NEW q \in Proc, Accept(i, q) PROVE SocketInv'
    BY <1>0, <2>1 DEF Accept, Serving, TypeOK, InoMatchesRole, PathOfOwner, ListeningOwner,
                      CapturedOwn, PathClear
  <2>2. CASE SendBeacon(i)
    BY <1>0, <2>2 DEF SendBeacon, kernel, InoMatchesRole, PathOfOwner, ListeningOwner,
                      CapturedOwn, PathClear
  <2>3. CASE Shutdown(i)
    BY <1>0, <2>3 DEF Shutdown, At, Goto, TypeOK, OwnerPc, InoMatchesRole, PathOfOwner,
                      ListeningOwner, CapturedOwn, PathClear
  <2> QED
    BY <1>4, <2>1, <2>2, <2>3 DEF HubStep
<1>5. ASSUME NEW i \in Instance, Fault(i) PROVE SocketInv'
  <2>1. CASE Kill(i)
    BY <2>1, DieSocket DEF Kill
  <2>2. CASE Start(i)
    BY <1>0, <2>2, IdleSocket DEF Start, Goto, kernel, Pc, SeatPc, OwnerPc
  <2>3. CASE Stop(i) \/ Continue(i) \/ GuestGone(i)
    BY <1>0, <2>3 DEF Stop, Continue, GuestGone, kernel, InoMatchesRole, PathOfOwner,
                      ListeningOwner, CapturedOwn, PathClear
  <2> QED
    BY <1>5, <2>1, <2>2, <2>3 DEF Fault
<1> QED
  BY <1>1, <1>2, <1>3, <1>4, <1>5 DEF Next

\* The invariant is inductive, so it always holds.
LEMMA IInvHolds == Spec => []IInv
<1>1. Init => IInv
  BY ConstantsAssumption
     DEF Init, IInv, TypeOK, Pc, SeatMatchesRole, SeatPc, SeatOfInstance, SocketInv, ForeignOff, Proc,
         InoMatchesRole, PathOfOwner, OwnerPc, ListeningOwner, CapturedOwn, PathClear
<1>2. IInv /\ [Next]_vars => IInv'
  BY TypeStep, SeatStep, SocketStep DEF IInv, SocketInv
<1> QED
  BY <1>1, <1>2, PTL DEF Spec

\* A serving hub is always reachable through the path, and an instance that
\* holds the seat never loses the race for bind.
THEOREM HubStaysReachable == Spec => [](HubReachable /\ BindNeverLost)
<1>1. IInv => HubReachable /\ BindNeverLost
  BY DEF IInv, SocketInv, HubReachable, BindNeverLost, InoMatchesRole, PathOfOwner,
         ListeningOwner, PathClear, OwnerPc, Proc
<1> QED
  BY <1>1, IInvHolds, PTL

\* Only three steps move the path.
LEMMA PathMoves ==
    ASSUME [Next]_vars, path' # path
    PROVE  \E i \in Instance : UnlinkStale(i) \/ Bind(i) \/ CloseRemove(i)
<1> USE DEF kernel
<1>1. CASE UNCHANGED vars
  BY <1>1 DEF vars
<1>2. ASSUME NEW i \in Instance, LoopStep(i)
      PROVE  UnlinkStale(i) \/ Bind(i) \/ CloseRemove(i)
  BY <1>2 DEF LoopStep, JoinHub, NobodyAnswers, TryLock, SeatHeld, ProbeAnswered,
              ProbeRefused, BindInUse, BindFatal, Listen, Capture, Joined, CloseStat, Release,
              Exit, Die
<1>3. ASSUME NEW i \in Instance, PeerStep(i) \/ HubStep(i) \/ Fault(i)
      PROVE  FALSE
  BY <1>3 DEF PeerStep, HearBeacon, HubLost, HubSilent, GuestWriteFails, HubStep, Accept,
              SendBeacon, Shutdown, Fault, Start, Kill, Die, Stop, Continue, GuestGone
<1> QED
  BY <1>1, <1>2, <1>3 DEF Next

\* No step of an instance removes the socket file behind which a process
\* listens or is about to: a file is removed only when it is stale, or by its
\* owner at shutdown.
THEOREM SocketsAreKept == Spec => LiveSocketKept
<1>1. ASSUME IInv, [Next]_vars, NEW q \in Proc,
             path # None, path = ino[q], pc[q] # "remove"
      PROVE  path' = path
  <2> SUFFICES ASSUME path' # path PROVE FALSE
    OBVIOUS
  <2>1. pc[q] \in OwnerPc
    BY <1>1 DEF IInv, SocketInv, PathOfOwner
  <2>2. PICK i \in Instance : UnlinkStale(i) \/ Bind(i) \/ CloseRemove(i)
    BY <1>1, PathMoves
  <2>3. pc[i] \in {"unlink", "remove"}
    BY <1>1, <2>2 DEF UnlinkStale, Bind, CloseRemove, At
  <2>4. i = q
    BY <1>1, <2>1, <2>3, OneHolder DEF IInv, SocketInv, OwnerPc, SeatPc, Proc
  <2> QED
    BY <1>1, <2>1, <2>3, <2>4 DEF OwnerPc
<1>2. IInv /\ [Next]_vars =>
        [\A q \in Proc : (path # None /\ path = ino[q] /\ pc[q] # "remove")
            => path' = path]_vars
  BY <1>1
<1> QED
  BY <1>2, IInvHolds, PTL DEF Spec, LiveSocketKept

\* The two halves of SeatCorrect and HubStaysReachable, each by itself: the
\* flock is held exactly between TryLock and release,
THEOREM SeatFollowsRole == Spec => []SeatMatchesRole
  BY SeatCorrect, PTL

\* and bind is never lost under the seat, so main.go:463 is never reached.
THEOREM BindIsNeverLost == Spec => []BindNeverLost
  BY HubStaysReachable, PTL

-----------------------------------------------------------------------------
(* The abstract seat                                                        *)

Hubs == {i \in Instance : pc[i] = "hub"}

\* Only the holder of the seat can be serving.
LEMMA HubsHold ==
    ASSUME SeatMatchesRole
    PROVE  \A i \in Hubs : seat = i
  BY DEF SeatMatchesRole, SeatPc, Hubs

\* A process that ends leaves the seat if it holds it, and changes nothing of
\* the abstract seat if it does not.
LEMMA DieLeaves ==
    ASSUME TypeOK, SeatMatchesRole, NEW i \in Instance, Die(i)
    PROVE  AbstractSeat!Leave(i) \/ UNCHANGED <<seat, Hubs>>
<1> i \in Proc /\ Instance \subseteq Proc
  BY DEF Proc
<1>1. Hubs' = Hubs \ {i}
  BY DEF Die, Goto, TypeOK, Hubs
<1>2. CASE seat = i
  <2>1. Hubs' = {} /\ seat' = None
    BY <1>1, <1>2, HubsHold DEF Die
  <2> QED
    BY <1>2, <2>1 DEF AbstractSeat!Leave, Hubs
<1>3. CASE seat # i
  BY <1>1, <1>3, HubsHold DEF Die
<1> QED
  BY <1>2, <1>3

\* A step that moves one instance between places other than "hub", and leaves
\* the seat alone, is invisible.
LEMMA HiddenMove ==
    ASSUME TypeOK, NEW i \in Instance, NEW l \in Pc \ {"hub"}, pc[i] # "hub",
           pc' = [pc EXCEPT ![i] = l], UNCHANGED seat
    PROVE  UNCHANGED <<seat, Hubs>>
  BY DEF TypeOK, Hubs, Proc

\* Every step of the fleet is a step of the abstract seat, or none.
LEMMA SeatSimulation ==
    ASSUME TypeOK, SeatMatchesRole, [Next]_vars
    PROVE  [AbstractSeat!SeatNext]_<<seat, Hubs>>
<1> USE DEF kernel, At, Goto
<1> Instance \subseteq Proc
  BY DEF Proc
<1>1. CASE UNCHANGED vars
  BY <1>1 DEF vars, Hubs
<1>2. ASSUME NEW i \in Instance, LoopStep(i)
      PROVE  AbstractSeat!SeatNext \/ UNCHANGED <<seat, Hubs>>
  <2>1. CASE JoinHub(i) \/ NobodyAnswers(i) \/ SeatHeld(i) \/ ProbeAnswered(i) \/ ProbeRefused(i)
    BY <2>1, HiddenMove
       DEF JoinHub, NobodyAnswers, SeatHeld, ProbeAnswered, ProbeRefused, Pc, SeatPc
  <2>2. CASE UnlinkStale(i) \/ Bind(i) \/ BindInUse(i) \/ Listen(i) \/ CloseRemove(i)
    BY <2>2, HiddenMove DEF UnlinkStale, Bind, BindInUse, Listen, CloseRemove, Pc, SeatPc
  <2>3. CASE CloseStat(i)
    BY <2>3, HiddenMove DEF CloseStat, Pc, SeatPc
  <2>4. CASE TryLock(i)
    <3>1. Hubs' = Hubs /\ seat = None /\ seat' = i
      BY <2>4 DEF TryLock, TypeOK, Hubs
    <3> QED
      BY <3>1 DEF AbstractSeat!SeatNext, AbstractSeat!Take, Hubs
  <2>5. CASE Capture(i)
    <3>1. seat = i /\ seat' = seat /\ Hubs' = Hubs \cup {i}
      BY <2>5 DEF Capture, TypeOK, SeatMatchesRole, SeatPc, Hubs
    <3>2. Hubs = {}
      BY <2>5, <3>1, HubsHold DEF Capture, Hubs
    <3> QED
      BY <3>1, <3>2 DEF AbstractSeat!SeatNext, AbstractSeat!Open, Hubs
  <2>6. CASE Joined(i) \/ Release(i)
    <3>1. seat = i /\ seat' = None /\ Hubs' = Hubs /\ i \notin Hubs
      BY <2>6 DEF Joined, Release, TypeOK, SeatMatchesRole, SeatPc, Hubs
    <3>2. Hubs = {}
      BY <3>1, HubsHold
    <3> QED
      BY <3>1, <3>2 DEF AbstractSeat!SeatNext, AbstractSeat!Leave, Hubs
  <2>7. CASE BindFatal(i) \/ Exit(i)
    BY <2>7, DieLeaves DEF BindFatal, Exit, AbstractSeat!SeatNext
  <2> QED
    BY <1>2, <2>1, <2>2, <2>3, <2>4, <2>5, <2>6, <2>7 DEF LoopStep
<1>3. ASSUME NEW i \in Instance, PeerStep(i) PROVE UNCHANGED <<seat, Hubs>>
  <2>1. CASE HearBeacon(i)
    BY <2>1 DEF HearBeacon, Hubs
  <2>2. CASE HubLost(i) \/ HubSilent(i) \/ GuestWriteFails(i)
    BY <2>2, HiddenMove DEF HubLost, HubSilent, GuestWriteFails, Pc
  <2> QED
    BY <1>3, <2>1, <2>2 DEF PeerStep
<1>4. ASSUME NEW i \in Instance, HubStep(i)
      PROVE  AbstractSeat!SeatNext \/ UNCHANGED <<seat, Hubs>>
  <2>1. CASE Shutdown(i)
    <3>1. seat = i /\ seat' = seat /\ Hubs' = Hubs \ {i} /\ i \in Hubs
      BY <2>1 DEF Shutdown, TypeOK, SeatMatchesRole, SeatPc, Hubs
    <3>2. Hubs = {i}
      BY <3>1, HubsHold
    <3> QED
      BY <3>1, <3>2 DEF AbstractSeat!SeatNext, AbstractSeat!Close, Hubs
  <2> QED
    BY <1>4, <2>1 DEF HubStep, Accept, SendBeacon, Hubs
<1>5. ASSUME NEW i \in Instance, Fault(i)
      PROVE  AbstractSeat!SeatNext \/ UNCHANGED <<seat, Hubs>>
  <2>1. CASE Kill(i)
    BY <2>1, DieLeaves DEF Kill, AbstractSeat!SeatNext
  <2>2. CASE Start(i)
    BY <2>2, HiddenMove DEF Start, Pc
  <2> QED
    BY <1>5, <2>1, <2>2 DEF Fault, Stop, Continue, GuestGone, Hubs
<1> QED
  BY <1>1, <1>2, <1>3, <1>4, <1>5 DEF Next

\* The fleet implements the abstract seat: one holder at a time, taken only
\* when it is free, and a hub that only the holder opens and closes.
THEOREM FleetImplementsSeat == Spec => ImplementsSeat
<1>1. Init => AbstractSeat!SeatInit
  BY DEF Init, AbstractSeat!SeatInit, Proc
<1>2. TypeOK /\ SeatMatchesRole /\ [Next]_vars
        => [AbstractSeat!SeatNext]_<<seat, {i \in Instance : pc[i] = "hub"}>>
  BY SeatSimulation DEF Hubs
<1> QED
  BY <1>1, <1>2, TypeCorrect, SeatFollowsRole, PTL
     DEF Spec, ImplementsSeat, AbstractSeat!SeatSpec
=============================================================================
