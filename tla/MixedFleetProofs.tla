-------------------------- MODULE MixedFleetProofs --------------------------
(***************************************************************************)
(* Proofs about a fleet that shares its path with processes that never     *)
(* take the flock (MixedFleet), for every set of instances, C helpers and  *)
(* bridges.                                                                *)
(*                                                                         *)
(* The socket file is fair game there, so of Fleet's invariants only those *)
(* of the seat are left; they hold because a process that does not know    *)
(* the seat can neither hold it (SeatOfInstance) nor move an instance      *)
(* (ForeignKeepsSeat).                                                     *)
(***************************************************************************)
EXTENDS MixedFleet, FleetProofs

ForeignStep(f) ==
    \/ CStart(f) \/ CStep(f) \/ GuestGone(f) \/ ForeignFault(f)
    \/ BStart(f) \/ BStep(f)

\* A step of the mixed fleet is a step of an instance, or of a stranger.
LEMMA MixedSteps == MixedNext => Next \/ \E f \in Foreign : ForeignStep(f)
  BY MixedConstants DEF MixedNext, ForeignStep

-----------------------------------------------------------------------------
(* Type correctness                                                         *)

\* Joining, leaving and serving in the way of the C helper keep the types.
LEMMA CType ==
    ASSUME TypeOK, NEW f \in Foreign, CStart(f) \/ CStep(f)
    PROVE  TypeOK'
<1> f \in Proc
  BY DEF Proc
<1>1. CASE CStart(f)
  BY <1>1 DEF CStart, ForeignStart, Goto, TypeOK, Pc, SeatPc, kernel, wires, env
<1>2. CASE CJoin(f)
  BY <1>2 DEF CJoin, Connect, Goto, TypeOK, Pc, kernel, env
<1>3. CASE CRefused(f)
  BY <1>3 DEF CRefused, Goto, TypeOK, Pc, SeatPc, kernel, wires, env
<1>4. CASE CStandalone(f) \/ CPeerEnds(f)
  BY <1>4, DieType DEF CStandalone, CPeerEnds
<1>5. CASE CListen(f)
  BY <1>5 DEF CListen, Goto, TypeOK, Pc, SeatPc, wires, env
<1>6. CASE CShutdown(f)
  BY <1>6 DEF CShutdown, Goto, TypeOK, Pc, SeatPc, env
<1>7. CASE CCleanup(f)
  BY <1>7 DEF CCleanup, Goto, TypeOK, Pc, SeatPc, wires, env
<1>8. CASE UnlinkStale(f) \/ Bind(f) \/ BindInUse(f) \/ Exit(f)
  BY <1>8, LoopType DEF LoopStep
<1>9. CASE \E q \in Proc : Accept(f, q)
  BY <1>9, HubType DEF HubStep
<1> QED
  BY <1>1, <1>2, <1>3, <1>4, <1>5, <1>6, <1>7, <1>8, <1>9 DEF CStep

\* So do the bridge's sessions and its binding anew.
LEMMA BType ==
    ASSUME TypeOK, NEW f \in Foreign, BStart(f) \/ BStep(f)
    PROVE  TypeOK'
<1> f \in Proc
  BY DEF Proc
<1>1. CASE BStart(f)
  BY <1>1 DEF BStart, ForeignStart, Goto, TypeOK, Pc, SeatPc, kernel, wires, env
<1>2. CASE \/ ProbeAnswered(f) \/ ProbeRefused(f) \/ UnlinkStale(f) \/ Bind(f)
           \/ BindInUse(f) \/ BindFatal(f) \/ Listen(f) \/ Capture(f)
  BY <1>2, LoopType DEF LoopStep
<1>3. CASE BJoined(f)
  BY <1>3, DieType DEF BJoined
<1>4. ASSUME NEW q \in Proc, BAccept(f, q) \/ BSessionEnds(f, q) PROVE TypeOK'
  BY <1>4 DEF BAccept, BSessionEnds, TypeOK, kernel, env
<1>5. CASE BWatch(f)
  BY <1>5 DEF BWatch, Goto, TypeOK, Pc, SeatPc, env
<1>6. CASE SendBeacon(f)
  BY <1>6, HubType DEF HubStep
<1> QED
  BY <1>1, <1>2, <1>3, <1>4, <1>5, <1>6 DEF BStep

LEMMA MixedTypeStep == TypeOK /\ [MixedNext]_vars => TypeOK'
<1> SUFFICES ASSUME TypeOK, [MixedNext]_vars PROVE TypeOK'
  OBVIOUS
<1>1. CASE Next \/ UNCHANGED vars
  BY <1>1, TypeStep
<1>2. ASSUME NEW f \in Foreign, ForeignStep(f) PROVE TypeOK'
  <2>1. CASE GuestGone(f) \/ ForeignFault(f)
    BY <2>1, FaultType DEF Proc, ForeignFault, Fault
  <2> QED
    BY <1>2, <2>1, CType, BType DEF ForeignStep
<1> QED
  BY <1>1, <1>2, MixedSteps

-----------------------------------------------------------------------------
(* The seat                                                                 *)

\* A process that does not know the seat leaves it, and every instance, where
\* they are.
LEMMA ForeignKeepsSeat ==
    ASSUME TypeOK, SeatOfInstance, NEW f \in Foreign, ForeignStep(f)
    PROVE  seat' = seat /\ \A i \in Instance : pc'[i] = pc[i]
<1>0. /\ f \in Proc /\ seat # f /\ Instance \subseteq Proc /\ f \notin Instance
      /\ pc \in [Proc -> Pc]
  BY ConstantsAssumption DEF TypeOK, SeatOfInstance, Proc
<1>1. ASSUME UNCHANGED seat, NEW l, Goto(f, l) \/ UNCHANGED pc
      PROVE  seat' = seat /\ \A i \in Instance : pc'[i] = pc[i]
  BY <1>0, <1>1 DEF Goto
<1>2. CASE Die(f)
  BY <1>0, <1>2 DEF Die, Goto
<1>3. CASE CStart(f) \/ BStart(f) \/ GuestGone(f) \/ ForeignFault(f)
  BY <1>1, <1>2, <1>3 DEF CStart, BStart, ForeignStart, GuestGone, ForeignFault, Kill, Stop, Continue,
                          kernel
<1>4. CASE CStep(f)
  BY <1>1, <1>2, <1>4 DEF CStep, CJoin, CRefused, UnlinkStale, Bind, BindInUse, CStandalone, CListen,
                          CShutdown, CCleanup, Exit, CPeerEnds, Accept, kernel
<1>5. CASE BStep(f)
  BY <1>1, <1>2, <1>5 DEF BStep, ProbeAnswered, ProbeRefused, UnlinkStale, Bind, BindInUse, BindFatal,
                          Listen, Capture, BJoined, BAccept, BSessionEnds, BWatch, SendBeacon, kernel
<1> QED
  BY <1>3, <1>4, <1>5 DEF ForeignStep

SeatInv == TypeOK /\ SeatMatchesRole /\ SeatOfInstance

LEMMA MixedSeatStep == SeatInv /\ [MixedNext]_vars => SeatInv'
<1> SUFFICES ASSUME SeatInv, [MixedNext]_vars PROVE SeatInv'
  OBVIOUS
<1>1. TypeOK'
  BY MixedTypeStep DEF SeatInv
<1>2. CASE Next \/ UNCHANGED vars
  BY <1>1, <1>2, SeatStep DEF SeatInv
<1>3. ASSUME NEW f \in Foreign, ForeignStep(f) PROVE SeatInv'
  BY <1>1, <1>3, ForeignKeepsSeat DEF SeatInv, SeatMatchesRole, SeatOfInstance
<1> QED
  BY <1>2, <1>3, MixedSteps

LEMMA SeatInvHolds == MixedSpec => []SeatInv
<1>1. Init => SeatInv
  BY ConstantsAssumption DEF Init, SeatInv, TypeOK, Pc, SeatMatchesRole, SeatOfInstance, SeatPc, Proc
<1> QED
  BY <1>1, MixedSeatStep, PTL DEF MixedSpec

-----------------------------------------------------------------------------
(* The theorems                                                             *)

\* Every variable keeps its type, whatever the strangers do.
THEOREM MixedTypeCorrect == MixedSpec => []TypeOK
  BY SeatInvHolds, PTL DEF SeatInv

\* A C helper or a bridge on the path cannot make an instance lose, leak or
\* share the flock,
THEOREM MixedSeatFollowsRole == MixedSpec => []SeatMatchesRole
  BY SeatInvHolds, PTL DEF SeatInv

\* so two instances never own a bound hub socket at the same time,
THEOREM MixedNoSplitBrain == MixedSpec => []NoSplitBrain
<1>1. SeatMatchesRole => NoSplitBrain
  BY DEF SeatMatchesRole, NoSplitBrain, Owners, SeatPc
<1> QED
  BY <1>1, MixedSeatFollowsRole, PTL

\* and what the seat promises is still kept among the instances.
THEOREM MixedImplementsSeat == MixedSpec => ImplementsSeat
<1>1. Init => AbstractSeat!SeatInit
  BY DEF Init, AbstractSeat!SeatInit, Proc
<1>2. ASSUME SeatInv, [MixedNext]_vars
      PROVE  [AbstractSeat!SeatNext]_<<seat, Hubs>>
  <2>1. CASE Next \/ UNCHANGED vars
    BY <1>2, <2>1, SeatSimulation DEF SeatInv
  <2>2. ASSUME NEW f \in Foreign, ForeignStep(f) PROVE UNCHANGED <<seat, Hubs>>
    BY <1>2, <2>2, ForeignKeepsSeat DEF SeatInv, Hubs
  <2> QED
    BY <1>2, <2>1, <2>2, MixedSteps
<1>3. SeatInv /\ [MixedNext]_vars
        => [AbstractSeat!SeatNext]_<<seat, {i \in Instance : pc[i] = "hub"}>>
  BY <1>2 DEF Hubs
<1> QED
  BY <1>1, <1>3, SeatInvHolds, PTL DEF MixedSpec, ImplementsSeat, AbstractSeat!SeatSpec

\* Without strangers Listener.Close does spare every rebinder, as it promises
\* (unixseq.go:128-131): whoever could bind between its stat and its remove
\* would need the seat that Close still holds. The C helper, which needs none,
\* is what breaks the promise in MixedSpec.
THEOREM CloseSparesInstances == Spec => CloseSparesRebinder
<1>1. ASSUME IInv, NEW i \in Instance, NEW q \in Proc \ {i}, CloseRemove(i), Listener(q)
      PROVE  FALSE
  <2>1. i \in Proc /\ q \in Proc /\ pc[i] \in SeatPc
    BY <1>1 DEF CloseRemove, At, SeatPc, Proc
  <2>2. pc[q] \in SeatPc
    BY <1>1, ConstantsAssumption DEF IInv, SocketInv, PathOfOwner, Listener, OwnerPc, SeatPc
  <2> QED
    BY <1>1, <2>1, <2>2, OneHolder DEF IInv, SocketInv
<1>2. IInv /\ [Next]_vars =>
        [\A i \in Instance : \A q \in Proc \ {i} :
            (CloseRemove(i) /\ Listener(q)) => path' = path]_vars
  BY <1>1
<1> QED
  BY <1>2, IInvHolds, PTL DEF Spec, CloseSparesRebinder
=============================================================================
