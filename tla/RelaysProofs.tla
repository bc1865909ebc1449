---------------------------- MODULE RelaysProofs ----------------------------
(***************************************************************************)
(* Proofs about the UDP flow (UdpFlow) and the uplink (Uplink), and that   *)
(* everything proved about one way of a guest's traffic holds where they   *)
(* are side by side (Relays).                                              *)
(***************************************************************************)
EXTENDS Relays, EchoRelayProofs, PortFwdProofs, SpliceProofs

USE UdpConstants

-----------------------------------------------------------------------------
(* The UDP flow                                                             *)

\* A goroutine was started by a datagram, and what waits was sent.
FlowsBegun ==
    /\ inbound <= datagrams
    /\ \A g \in UdpRelay : at[g] # "none" => datagrams > 0

UdpInv == UdpTypeOK /\ FlowsBegun /\ OneRelayPerFlow

\* Moves takes one goroutine to its next place.
LEMMA MovesOne ==
    ASSUME UdpTypeOK, NEW g \in UdpRelay, NEW from, NEW to \in InLoop \cup {"none", "dial", "create"},
           Moves(g, from, to)
    PROVE  /\ at' \in [UdpRelay -> InLoop \cup {"none", "dial", "create"}]
           /\ at[g] = from /\ at'[g] = to
           /\ \A h \in UdpRelay \ {g} : at'[h] = at[h]
  BY DEF UdpTypeOK, Moves

\* A datagram of the guest arrives.
LEMMA UdpArrivesStep ==
    ASSUME UdpInv, UdpArrives
    PROVE  UdpInv'
<1>1. datagrams' = datagrams + 1 /\ datagrams' \in 0 .. MaxDatagrams /\ datagrams \in Nat
      /\ UNCHANGED <<endpoint, hostSocket, replies>>
  BY DEF UdpInv, UdpTypeOK, UdpArrives
<1>2. CASE inbound' = inbound + 1 /\ UNCHANGED at
  BY <1>1, <1>2 DEF UdpInv, UdpTypeOK, FlowsBegun, OneRelayPerFlow
<1>3. ASSUME NEW g \in UdpRelay, Moves(g, "none", "dial"), UNCHANGED inbound PROVE UdpInv'
  <2>1. /\ at' \in [UdpRelay -> InLoop \cup {"none", "dial", "create"}]
        /\ at[g] = "none" /\ at'[g] = "dial"
        /\ \A h \in UdpRelay \ {g} : at'[h] = at[h]
    BY <1>3, MovesOne DEF UdpInv
  <2>2. UdpTypeOK'
    BY <1>1, <1>3, <2>1 DEF UdpInv, UdpTypeOK
  <2>3. FlowsBegun'
    BY <1>1, <1>3, <2>1 DEF UdpInv, UdpTypeOK, FlowsBegun
  <2>4. OneRelayPerFlow'
    BY <1>1, <2>1 DEF UdpInv, OneRelayPerFlow, InLoop
  <2> QED
    BY <2>2, <2>3, <2>4 DEF UdpInv
<1> QED
  BY <1>2, <1>3 DEF UdpArrives

\* A goroutine moves within the loop, or from and to places outside it, and its
\* host socket stays as it is.
LEMMA UdpMoveStep ==
    ASSUME UdpInv, NEW g \in UdpRelay, NEW from, NEW to \in InLoop \cup {"none", "dial", "create"},
           Moves(g, from, to), from # "none",
           from \in InLoop <=> to \in InLoop, to # "closeGuest",
           hostSocket[g] => to \in InLoop,
           inbound' \in 0 .. inbound, replies' \in [UdpRelay -> 0 .. MaxReplies],
           UNCHANGED <<datagrams, endpoint, hostSocket>>
    PROVE  UdpInv'
<1>1. /\ at' \in [UdpRelay -> InLoop \cup {"none", "dial", "create"}]
      /\ at[g] = from /\ at'[g] = to
      /\ \A h \in UdpRelay \ {g} : at'[h] = at[h]
  BY MovesOne DEF UdpInv
<1>2. UdpTypeOK'
  BY <1>1 DEF UdpInv, UdpTypeOK
<1>3. FlowsBegun'
  BY <1>1 DEF UdpInv, UdpTypeOK, FlowsBegun
<1>4. OneRelayPerFlow'
  BY <1>1 DEF UdpInv, OneRelayPerFlow, InLoop
<1> QED
  BY <1>2, <1>3, <1>4 DEF UdpInv

\* A goroutine gets or closes its host socket: in udpHandler after the dial or
\* a lost race, at the end of relayUDP.
LEMMA UdpSocketStep ==
    ASSUME UdpInv, NEW g \in UdpRelay, UdpDials(g) \/ UdpLosesRace(g) \/ UdpClosesHost(g)
    PROVE  UdpInv'
<1>1. UNCHANGED <<datagrams, endpoint, inbound>> /\ replies' \in [UdpRelay -> 0 .. MaxReplies]
  BY DEF UdpInv, UdpTypeOK, UdpDials, UdpLosesRace, UdpClosesHost
<1>2. hostSocket \in [UdpRelay -> BOOLEAN]
  BY DEF UdpInv, UdpTypeOK
<1>3. /\ hostSocket' \in [UdpRelay -> BOOLEAN]
      /\ \A h \in UdpRelay \ {g} : hostSocket'[h] = hostSocket[h]
      /\ ~UdpDials(g) => ~hostSocket'[g]
  BY <1>2, Zenon DEF UdpDials, UdpLosesRace, UdpClosesHost, AfterLostRace
<1>4. \/ UdpDials(g) /\ Moves(g, "dial", "create")
      \/ Moves(g, "create", "none") /\ ~hostSocket'[g]
      \/ Moves(g, "closeHost", "closeGuest") /\ ~hostSocket'[g]
  BY <1>2, <1>3, Zenon DEF UdpDials, UdpLosesRace, UdpClosesHost, AfterLostRace
<1>5. /\ at' \in [UdpRelay -> InLoop \cup {"none", "dial", "create"}]
      /\ \A h \in UdpRelay \ {g} : at'[h] = at[h]
      /\ \/ at[g] = "dial" /\ at'[g] = "create"
         \/ at[g] = "create" /\ at'[g] = "none" /\ ~hostSocket'[g]
         \/ at[g] = "closeHost" /\ at'[g] = "closeGuest" /\ ~hostSocket'[g]
  BY <1>4, MovesOne DEF UdpInv, InLoop
<1>6. UdpTypeOK'
  BY <1>1, <1>3, <1>5 DEF UdpInv, UdpTypeOK
<1>7. FlowsBegun'
  BY <1>1, <1>5 DEF UdpInv, FlowsBegun
<1>8. OneRelayPerFlow'
  <2> SUFFICES ASSUME NEW h \in UdpRelay
               PROVE  /\ endpoint = h <=> at'[h] \in InLoop
                      /\ hostSocket'[h] => at'[h] \in (InLoop \cup {"create"}) \ {"closeGuest"}
    BY <1>1 DEF OneRelayPerFlow
  <2>1. CASE h = g
    BY <1>5, <2>1 DEF UdpInv, OneRelayPerFlow, InLoop
  <2>2. CASE h # g
    BY <1>3, <1>5, <2>2 DEF UdpInv, OneRelayPerFlow
  <2> QED
    BY <2>1, <2>2
<1> QED
  BY <1>6, <1>7, <1>8 DEF UdpInv

\* A goroutine gets the endpoint, or gives it back.
LEMMA UdpEndpointStep ==
    ASSUME UdpInv, NEW g \in UdpRelay, UdpCreates(g) \/ UdpClosesGuest(g)
    PROVE  UdpInv'
<1>1. UNCHANGED <<datagrams, hostSocket, replies>>
  BY DEF UdpCreates, UdpClosesGuest
<1>2. CASE UdpCreates(g)
  <2>1. /\ endpoint = NoRelay /\ endpoint' = g /\ inbound' = 1
        /\ at' \in [UdpRelay -> InLoop \cup {"none", "dial", "create"}]
        /\ at[g] = "create" /\ at'[g] = "read"
        /\ \A h \in UdpRelay \ {g} : at'[h] = at[h]
    BY <1>2, MovesOne DEF UdpInv, UdpCreates, InLoop
  <2>2. datagrams > 0
    BY <2>1 DEF UdpInv, FlowsBegun
  <2>3. UdpTypeOK' /\ FlowsBegun'
    BY <1>1, <2>1, <2>2 DEF UdpInv, UdpTypeOK, FlowsBegun
  <2>4. OneRelayPerFlow'
    BY <1>1, <2>1 DEF UdpInv, OneRelayPerFlow, InLoop
  <2> QED
    BY <2>3, <2>4 DEF UdpInv
<1>3. CASE UdpClosesGuest(g)
  <2>1. /\ endpoint' = NoRelay /\ inbound' = 0
        /\ at' \in [UdpRelay -> InLoop \cup {"none", "dial", "create"}]
        /\ at[g] = "closeGuest" /\ at'[g] = "none"
        /\ \A h \in UdpRelay \ {g} : at'[h] = at[h]
    BY <1>3, MovesOne DEF UdpInv, UdpClosesGuest, InLoop
  <2>2. endpoint = g
    BY <2>1 DEF UdpInv, OneRelayPerFlow, InLoop
  <2>3. UdpTypeOK' /\ FlowsBegun'
    BY <1>1, <2>1 DEF UdpInv, UdpTypeOK, FlowsBegun
  <2>4. OneRelayPerFlow'
    BY <1>1, <2>1, <2>2 DEF UdpInv, OneRelayPerFlow, InLoop
  <2> QED
    BY <2>3, <2>4 DEF UdpInv
<1> QED
  BY <1>2, <1>3

\* Every step of the flow keeps the invariant.
LEMMA UdpStepKeeps == UdpInv /\ [UdpNext]_udpVars => UdpInv'
<1> SUFFICES ASSUME UdpInv, [UdpNext]_udpVars PROVE UdpInv'
  OBVIOUS
<1>0. inbound \in Nat /\ replies \in [UdpRelay -> 0 .. MaxReplies]
  BY DEF UdpInv, UdpTypeOK
<1>1. CASE UNCHANGED udpVars
  BY <1>1 DEF udpVars, UdpInv, UdpTypeOK, FlowsBegun, OneRelayPerFlow
<1>2. ASSUME NEW g \in UdpRelay, UdpDialFails(g) PROVE UdpInv'
  <2>1. ~hostSocket[g]
    BY <1>2 DEF UdpDialFails, Moves, UdpInv, OneRelayPerFlow, InLoop
  <2> QED
    BY <1>0, <1>2, <2>1, UdpMoveStep DEF UdpDialFails, InLoop
<1>3. ASSUME NEW g \in UdpRelay, UdpReads(g) PROVE UdpInv'
  <2>1. inbound' \in 0 .. inbound
    BY <1>0, <1>3 DEF UdpReads
  <2> QED
    BY <1>0, <1>3, <2>1, UdpMoveStep DEF UdpReads, InLoop
<1>4. ASSUME NEW g \in UdpRelay, UdpWaits(g) \/ UdpIdles(g) \/ UdpWrites(g) \/ UdpTimesOut(g) \/ UdpFails(g)
      PROVE  UdpInv'
  BY <1>0, <1>4, UdpMoveStep DEF UdpWaits, UdpIdles, UdpWrites, UdpTimesOut, UdpFails, InLoop
<1>5. ASSUME NEW g \in UdpRelay, UdpReplies(g) PROVE UdpInv'
  <2>1. replies' \in [UdpRelay -> 0 .. MaxReplies]
    BY <1>0, <1>5 DEF UdpReplies
  <2> QED
    BY <1>0, <1>5, <2>1, UdpMoveStep DEF UdpReplies, InLoop
<1>6. ASSUME NEW g \in UdpRelay, HostReplies(g) PROVE UdpInv'
  <2>1. replies' \in [UdpRelay -> 0 .. MaxReplies]
    BY <1>0, <1>6 DEF HostReplies
  <2> QED
    BY <1>6, <2>1 DEF HostReplies, UdpInv, UdpTypeOK, FlowsBegun, OneRelayPerFlow
<1> QED
  BY <1>1, <1>2, <1>3, <1>4, <1>5, <1>6, UdpArrivesStep, UdpSocketStep, UdpEndpointStep
     DEF UdpNext, UdpStep

LEMMA UdpInvHolds == UdpSpec => []UdpInv
<1>1. UdpInit => UdpInv
  BY DEF UdpInit, UdpInv, UdpTypeOK, FlowsBegun, OneRelayPerFlow, InLoop
<1> QED
  BY <1>1, UdpStepKeeps, PTL DEF UdpSpec

\* However many datagrams race to start a flow, one goroutine at most relays
\* it, and every host socket that is open belongs to one that will close it.
THEOREM FlowHasOneRelay == UdpSpec => []OneRelayPerFlow
  BY UdpInvHolds, PTL DEF UdpInv

-----------------------------------------------------------------------------
(* The uplink                                                               *)

\* Until Attach has its NIC it has changed nothing that routes packets.
NotAttached ==
    setup \in {"nat", "nic", "mode"} =>
        stack.addrs = {} /\ stack.forwarding = {} /\ stack.routes = {}

\* The segment has the families the configuration asks for.
SegmentBuilt == setup \notin {"nat", "dead"} => stack.segment = GuestFamilies

\* In switch mode netstack keeps terminating everything and forwards nothing.
SwitchTerminates ==
    conf.mode = "switch" =>
        stack.forwarding = {} /\ (setup \notin {"nat", "dead"} => stack.promiscuous)

\* Standalone mode gives the stack no address of the tunnel.
StandaloneOwnsNone == conf.mode = "standalone" => stack.addrs = {}

\* Attach makes two kinds of routes.
RoutesKinds ==
    stack.routes \subseteq
        {<<"tunnel address", f, "guest">> : f \in Family} \cup {<<"covered", f, "tunnel">> : f \in Family}

\* From AttachRoutes on what the mode asks for is there,
ModeDone ==
    setup \in {"routes", "device", "subnets"} \/ stack.device # "none" =>
        IF conf.mode = "switch"
        THEN stack.addrs = conf.addresses
        ELSE /\ ~stack.promiscuous /\ stack.forwarding = conf.allowed
             /\ \A f \in conf.addresses : <<"tunnel address", f, "guest">> \in stack.routes

\* and before there is a device, everything the tunnel covers has a route to it.
RoutesDone ==
    setup \in {"device", "subnets"} \/ stack.device # "none" =>
        \A f \in conf.allowed : <<"covered", f, "tunnel">> \in stack.routes

\* The NAT asks the tunnel only when there is one.
SubnetsFollowDevice ==
    /\ setup \notin {"subnets", "echo", "serving", "dead"} => stack.device = "none"
    /\ setup \notin {"echo", "serving", "dead"} => stack.subnets = {}
    /\ setup \in {"echo", "serving"} => stack.subnets = CoveredSubnets

UpInv ==
    /\ UpTypeOK /\ SegmentBuilt /\ NotAttached /\ SwitchTerminates /\ StandaloneOwnsNone
    /\ RoutesKinds /\ ModeDone /\ RoutesDone /\ SubnetsFollowDevice

LEMMA UpInitInv == UpInit => UpInv
  BY DEF UpInit, UpInv, UpTypeOK, SegmentBuilt, NotAttached, SwitchTerminates, StandaloneOwnsNone, RoutesKinds,
         ModeDone, RoutesDone, SubnetsFollowDevice, Family, Class

\* Every step of setting up and shutting down keeps the invariant.
LEMMA UpStepKeeps == UpInv /\ [UpNext]_upVars => UpInv'
<1> SUFFICES ASSUME UpInv, [UpNext]_upVars PROVE UpInv'
  OBVIOUS
<1>11. CASE UNCHANGED upVars
  <2>1. setup' = setup /\ conf' = conf /\ stack' = stack
    BY <1>11 DEF upVars
  <2>2. UpTypeOK'
    BY <2>1 DEF UpInv, UpTypeOK
  <2>3. SegmentBuilt' /\ NotAttached' /\ SwitchTerminates' /\ StandaloneOwnsNone' /\ RoutesKinds'
    BY <2>1 DEF UpInv, SegmentBuilt, GuestFamilies, NotAttached, SwitchTerminates, StandaloneOwnsNone, RoutesKinds
  <2>4. ModeDone' /\ RoutesDone' /\ SubnetsFollowDevice'
    BY <2>1 DEF UpInv, ModeDone, RoutesDone, SubnetsFollowDevice, CoveredSubnets
  <2> QED
    BY <2>2, <2>3, <2>4 DEF UpInv
<1> USE DEF UpInv, UpTypeOK, SegmentBuilt, GuestFamilies, NotAttached, SwitchTerminates, StandaloneOwnsNone, RoutesKinds,
            ModeDone, RoutesDone, SubnetsFollowDevice, CoveredSubnets
<1>0. /\ conf.mode \in {"switch", "standalone"} /\ conf.addresses \subseteq Family
      /\ conf.allowed \subseteq Family
  BY DEF Conf
<1>1. CASE NewNat
  <2>1. /\ setup = "nat" /\ setup' \in {"nic", "echo"} /\ conf' = conf
        /\ stack' = [stack EXCEPT !.promiscuous = TRUE, !.segment = GuestFamilies]
    BY <1>1 DEF NewNat
  <2>2. GuestFamilies \subseteq Family
    BY DEF Family
  <2> HIDE DEF GuestFamilies
  <2>3. UpTypeOK'
    BY <2>1, <2>2
  <2>4. /\ stack'.segment = GuestFamilies /\ stack'.promiscuous
        /\ stack'.addrs = {} /\ stack'.forwarding = {} /\ stack'.routes = {}
        /\ stack'.device = "none" /\ stack'.subnets = {}
    BY <2>1
  <2>5. GuestFamilies' = GuestFamilies
    BY <2>1 DEF GuestFamilies
  <2> QED
    BY <1>0, <2>1, <2>3, <2>4, <2>5
<1>2. CASE SetupFatal
  BY <1>0, <1>2 DEF SetupFatal
<1>3. CASE AttachNic
  BY <1>0, <1>3 DEF AttachNic
<1>4. CASE AttachSwitch
  <2>1. PICK added \in SUBSET conf.addresses :
          /\ stack' = [stack EXCEPT !.addrs = added]
          /\ setup' = IF added = conf.addresses THEN "routes" ELSE "echo"
    BY <1>4 DEF AttachSwitch
  <2>2. setup = "mode" /\ conf.mode = "switch" /\ conf' = conf
    BY <1>4 DEF AttachSwitch
  <2>3. UpTypeOK'
    BY <1>0, <2>1, <2>2
  <2>4. /\ stack'.segment = stack.segment /\ stack'.addrs = added /\ stack'.promiscuous = stack.promiscuous
        /\ stack'.forwarding = {} /\ stack'.routes = {}
        /\ stack'.device = "none" /\ stack'.subnets = {}
    BY <2>1, <2>2
  <2> QED
    BY <2>1, <2>2, <2>3, <2>4
<1>5. CASE AttachStandalone
  <2> DEFINE back == {<<"tunnel address", f, "guest">> : f \in conf.addresses}
  <2>1. /\ setup = "mode" /\ conf.mode = "standalone" /\ setup' = "routes" /\ conf' = conf
        /\ stack' = [stack EXCEPT !.promiscuous = FALSE, !.routes = @ \cup back,
                                  !.forwarding = @ \cup conf.allowed]
    BY <1>5 DEF AttachStandalone, StandalonePromiscuous
  <2>2. back \subseteq Class \X Family \X {"guest", "tunnel"}
    <3> SUFFICES ASSUME NEW r \in back PROVE r \in Class \X Family \X {"guest", "tunnel"}
      OBVIOUS
    <3>1. PICK f \in conf.addresses : r = <<"tunnel address", f, "guest">>
      OBVIOUS
    <3>2. f \in Family
      BY <1>0
    <3> QED
      BY <3>1, <3>2 DEF Class
  <2>3. back \subseteq {<<"tunnel address", f, "guest">> : f \in Family}
    BY <1>0
  <2>4. \A f \in conf.addresses : <<"tunnel address", f, "guest">> \in back
    OBVIOUS
  <2> HIDE DEF back
  <2>5. UpTypeOK'
    BY <1>0, <2>1, <2>2
  <2>6. /\ stack'.routes = stack.routes \cup back /\ ~stack'.promiscuous
        /\ stack'.forwarding = conf.allowed
        /\ stack'.addrs = {} /\ stack'.device = "none" /\ stack'.subnets = {}
        /\ stack'.segment = stack.segment
    BY <2>1
  <2> QED
    BY <2>1, <2>3, <2>4, <2>5, <2>6
<1>6. CASE AttachRoutes
  <2> DEFINE there == {<<"covered", f, "tunnel">> : f \in conf.allowed}
  <2>1. /\ setup = "routes" /\ setup' = "device" /\ conf' = conf
        /\ stack' = [stack EXCEPT !.routes = @ \cup there]
    BY <1>6 DEF AttachRoutes
  <2>2. there \subseteq Class \X Family \X {"guest", "tunnel"}
    <3> SUFFICES ASSUME NEW r \in there PROVE r \in Class \X Family \X {"guest", "tunnel"}
      OBVIOUS
    <3>1. PICK f \in conf.allowed : r = <<"covered", f, "tunnel">>
      OBVIOUS
    <3>2. f \in Family
      BY <1>0
    <3> QED
      BY <3>1, <3>2 DEF Class
  <2>3. there \subseteq {<<"covered", f, "tunnel">> : f \in Family}
    BY <1>0
  <2>4. \A f \in conf.allowed : <<"covered", f, "tunnel">> \in there
    OBVIOUS
  <2> HIDE DEF there
  <2>5. UpTypeOK'
    BY <1>0, <2>1, <2>2
  <2>6. /\ stack'.routes = stack.routes \cup there /\ stack'.promiscuous = stack.promiscuous
        /\ stack'.forwarding = stack.forwarding /\ stack'.addrs = stack.addrs
        /\ stack'.device = stack.device /\ stack'.subnets = stack.subnets
        /\ stack'.segment = stack.segment
    BY <2>1
  <2> QED
    BY <2>1, <2>3, <2>4, <2>5, <2>6
<1>7. CASE AttachDevice
  BY <1>0, <1>7 DEF AttachDevice
<1>8. CASE SetTunnelSubnets
  BY <1>0, <1>8 DEF SetTunnelSubnets
<1>9. CASE OpenEchoRelay
  BY <1>0, <1>9 DEF OpenEchoRelay
<1>10. CASE CloseUplink
  BY <1>0, <1>10 DEF CloseUplink
<1> QED
  BY <1>1, <1>2, <1>3, <1>4, <1>5, <1>6, <1>7, <1>8, <1>9, <1>10, <1>11 DEF UpNext

LEMMA UpInvHolds == UpSpec => []UpInv
  BY UpInitInv, UpStepKeeps, PTL DEF UpSpec

\* Wherever Attach gave up, in switch mode it leaves plain NAT as it was, for
\* every family of the segment; and of the flows to the gateway only the UDP ones
\* under a tunnel that covers 127.0.0.1 miss the host's loopback.
THEOREM SwitchModeKeepsNat == UpSpec => []SwitchKeepsNat
<1>1. UpInv => SwitchKeepsNat
  <2> SUFFICES ASSUME UpInv, setup = "serving", conf.mode = "switch", NEW f \in GuestFamilies
               PROVE  /\ \A kind \in {"tcp", "udp"} :
                            /\ SendFrame(kind, "other", f) = "host"
                            /\ stack.device # "up" => SendFrame(kind, "covered", f) = "host"
                      /\ SendFrame("tcp", "own", f) = "loopback"
                      /\ SendFrame("udp", "own", f) = "loopback"
                            <=> ~(stack.device = "up" /\ conf.loopback)
    BY DEF SwitchKeepsNat
  <2>1. stack.promiscuous /\ stack.subnets = CoveredSubnets /\ f \in stack.segment
    BY DEF UpInv, SegmentBuilt, SwitchTerminates, SubnetsFollowDevice
  <2>2. ASSUME NEW kind \in {"tcp", "udp"}, NEW class \in Class
        PROVE  SendFrame(kind, class, f) = Dial(kind, class, f)
    BY <2>1 DEF SendFrame, Injected
  <2>3. \A kind \in {"tcp", "udp"} : Dial(kind, "other", f) = "host"
    BY DEF Dial
  <2>4. stack.device # "up" => stack.subnets = {}
    BY <2>1 DEF CoveredSubnets
  <2>5. stack.device # "up" => \A kind \in {"tcp", "udp"} : Dial(kind, "covered", f) = "host"
    BY <2>4 DEF Dial
  <2>6. Dial("tcp", "own", f) = "loopback"
    BY DEF Dial
  <2>7. (conf.loopback /\ 4 \in stack.subnets) <=> (stack.device = "up" /\ conf.loopback)
    BY <2>1, <2>4 DEF UpInv, UpTypeOK, Conf, CoveredSubnets
  <2>8. Dial("udp", "own", f) = IF conf.loopback /\ 4 \in stack.subnets THEN ThroughTunnel(4) ELSE "loopback"
    <3>1. CASE conf.loopback /\ 4 \in stack.subnets
      BY <3>1 DEF Dial
    <3>2. CASE ~(conf.loopback /\ 4 \in stack.subnets)
      BY <3>2 DEF Dial
    <3> QED
      BY <3>1, <3>2
  <2>9. ThroughTunnel(4) # "loopback"
    BY DEF ThroughTunnel
  <2> QED
    BY <2>2, <2>3, <2>5, <2>6, <2>7, <2>8, <2>9 DEF Class
<1> QED
  BY <1>1, UpInvHolds, PTL

\* With the tunnel up, what it covers goes through it and the answers come
\* back, in both modes of Attach.
THEOREM TunnelCarries == UpSpec => []TunnelCarriesCovered
<1>1. UpInv => TunnelCarriesCovered
  <2> SUFFICES ASSUME UpInv, setup = "serving", stack.device = "up",
                      NEW kind \in {"tcp", "udp"}, NEW f \in conf.allowed \cap conf.addresses,
                      conf.mode = "switch" => f \in GuestFamilies
               PROVE  /\ SendFrame(kind, "covered", f) = "tunnel"
                      /\ FromTunnel(f) = IF conf.mode = "switch" THEN "flow" ELSE "guest"
    BY DEF TunnelCarriesCovered
  <2>1. <<"covered", f, "tunnel">> \in stack.routes /\ <<"covered", f, "guest">> \notin stack.routes
    BY DEF UpInv, RoutesDone, RoutesKinds
  <2>2. SendFrame(kind, "covered", f) = Injected(kind, "covered", f)
    BY DEF SendFrame
  <2>3. CASE conf.mode = "switch"
    <3>1. stack.promiscuous /\ f \in stack.segment /\ f \in stack.subnets /\ f \in stack.addrs
      BY <2>3 DEF UpInv, SegmentBuilt, SwitchTerminates, SubnetsFollowDevice, CoveredSubnets, ModeDone
    <3>2. Injected(kind, "covered", f) = Dial(kind, "covered", f)
      BY <3>1 DEF Injected
    <3>3. Dial(kind, "covered", f) = ThroughTunnel(f)
      BY <3>1 DEF Dial
    <3> QED
      BY <2>1, <2>2, <2>3, <3>1, <3>2, <3>3 DEF ThroughTunnel, FromTunnel
  <2>4. CASE conf.mode # "switch"
    <3>1. /\ ~stack.promiscuous /\ f \in stack.forwarding /\ f \notin stack.addrs
          /\ <<"tunnel address", f, "guest">> \in stack.routes
      BY <2>4 DEF UpInv, UpTypeOK, Conf, ModeDone, StandaloneOwnsNone
    <3>2. Injected(kind, "covered", f) = Forwarded("covered", f)
      BY <3>1 DEF Injected
    <3> QED
      BY <2>1, <2>2, <2>4, <3>1, <3>2 DEF Forwarded, FromTunnel
  <2> QED
    BY <2>3, <2>4
<1> QED
  BY <1>1, UpInvHolds, PTL

-----------------------------------------------------------------------------
(* Side by side                                                             *)

\* Every part behaves beside the others as it does alone, fairness included.
THEOREM LanesAreComponents == RelaysSpec => EchoSpec /\ UdpSpec /\ PfSpec /\ SpSpec /\ UpSpec
<1>1. RelaysInit => EchoInit /\ UdpInit /\ PfInit /\ SpInit /\ UpInit
  BY DEF RelaysInit
<1>2. [RelaysNext]_relayVars =>
         /\ [EchoNext]_echoVars /\ [UdpNext]_udpVars /\ [PfNext]_pfVars
         /\ [SpNext]_spVars /\ [UpNext]_upVars
  BY DEF RelaysNext, relayVars
<1> QED
  BY <1>1, <1>2, PTL DEF RelaysSpec, EchoSpec, UdpSpec, PfSpec, SpSpec, UpSpec

\* The types of every part.
THEOREM RelaysTypeCorrect == RelaysSpec => []RelaysTypeOK
<1>1. EchoInv /\ UdpInv /\ PfInv /\ SpInv /\ UpInv => RelaysTypeOK
  BY DEF EchoInv, UdpInv, PfInv, SpInv, UpInv, RelaysTypeOK
<1> QED
  BY <1>1, LanesAreComponents, EchoInvHolds, UdpInvHolds, PfInvHolds, SpInvHolds, UpInvHolds, PTL

\* Every safety property of a part holds with all parts side by side.
THEOREM RelaysSafe ==
    RelaysSpec => [](/\ AnswersOwnRequest /\ AnsweredOnce /\ SentStaysAnswerable
                     /\ OneRelayPerFlow /\ SocketsHaveReaders
                     /\ FirstToEndIsHeard /\ SwitchKeepsNat /\ TunnelCarriesCovered)
  BY LanesAreComponents, EchoAnswersOwnRequest, EchoAnsweredOnce, EchoStaysAnswerable,
     FlowHasOneRelay, SocketsAreRead, FirstToEndHeard,
     SwitchModeKeepsNat, TunnelCarries, PTL
=============================================================================
