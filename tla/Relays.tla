------------------------------- MODULE Relays -------------------------------
(***************************************************************************)
(* The ways a guest's traffic takes through the hub, side by side: the     *)
(* uplink it finds, the echo relay, a UDP flow, a port forward and a pair  *)
(* of spliced connections.  They share no state, so an interleaving of     *)
(* them shows nothing that one of them alone does not show: every          *)
(* behaviour here follows one lane, which is chosen at the start.          *)
(***************************************************************************)
EXTENDS EchoRelay, UdpFlow, PortFwd, Splice, Uplink

VARIABLE lane

relayVars == <<lane, echoVars, udpVars, pfVars, spVars, upVars>>

RelaysInit ==
    /\ lane \in {"uplink", "echo", "udp", "ports", "splice"}
    /\ EchoInit /\ UdpInit /\ PfInit
    /\ SpInit /\ (lane # "splice" => splice = "nat")
    /\ UpInit /\ (lane # "uplink" => conf = [ipv6 |-> FALSE, wireguard |-> FALSE, mode |-> "switch",
                                             loopback |-> FALSE, addresses |-> Family, allowed |-> Family])

RelaysNext ==
    \/ lane = "uplink" /\ UpNext   /\ UNCHANGED <<lane, echoVars, udpVars, pfVars, spVars>>
    \/ lane = "echo"   /\ EchoNext /\ UNCHANGED <<lane, udpVars, pfVars, spVars, upVars>>
    \/ lane = "udp"    /\ UdpNext  /\ UNCHANGED <<lane, echoVars, pfVars, spVars, upVars>>
    \/ lane = "ports"  /\ PfNext   /\ UNCHANGED <<lane, echoVars, udpVars, spVars, upVars>>
    \/ lane = "splice" /\ SpNext   /\ UNCHANGED <<lane, echoVars, udpVars, pfVars, upVars>>

RelaysSpec ==
    /\ RelaysInit /\ [][RelaysNext]_relayVars
    /\ UdpFairness /\ PfFairness /\ SpFairness

\* The types of every lane's state.
RelaysTypeOK == EchoTypeOK /\ UdpTypeOK /\ PfTypeOK /\ SpTypeOK /\ UpTypeOK
=============================================================================
