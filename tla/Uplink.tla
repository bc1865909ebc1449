------------------------------- MODULE Uplink -------------------------------
(***************************************************************************)
(* The hub's uplink: how runInstance (main.go) builds the NAT stack, lays  *)
(* a wireguard tunnel over it (wgup.Attach) and opens the echo relay, and  *)
(* where a guest's packets then leave (uplinkSink, tcpHandler, dialUDP).   *)
(* Attach changes the running stack step by step; when a later step fails  *)
(* it returns an error, and the hub serves with whatever was changed.      *)
(*                                                                         *)
(* Addresses are told apart by what matters to routing: our own, the ones  *)
(* AllowedIPs covers, the tunnel's own address, and all others.            *)
(***************************************************************************)
EXTENDS Naturals

Family == {4, 6}

VARIABLES
    conf,       \* the configuration: wireguard or not, mode, families
    setup,      \* where runInstance is
    stack       \* what it has built so far, field by field:
                \*   segment      families of our addresses on the guest's segment
                \*   nic          NIC 2 exists
                \*   addrs        families of the tunnel's address on it
                \*   promiscuous  NIC 1 accepts packets for every destination
                \*   forwarding   families that are forwarded
                \*   routes       what goes where, besides the guest's subnet
                \*   device       the wireguard device: none, up, closed
                \*   subnets      NAT.TunnelSubnets: families covered
                \*   echo         the host's ICMP socket could be opened

upVars == <<conf, setup, stack>>

\* ipv6: the segment has IPv6 too, which is off by default.
\* loopback: AllowedIPs covers 127.0.0.1, as 0.0.0.0/0 does.
Conf == {c \in [ipv6 : BOOLEAN, wireguard : BOOLEAN, mode : {"switch", "standalone"}, loopback : BOOLEAN,
                addresses : (SUBSET Family) \ {{}}, allowed : (SUBSET Family) \ {{}}] :
            c.loopback => 4 \in c.allowed}

UpInit ==
    /\ conf \in Conf
    /\ setup = "nat"
    /\ stack = [segment |-> {}, nic |-> FALSE, addrs |-> {}, promiscuous |-> FALSE, forwarding |-> {},
                routes |-> {}, device |-> "none", subnets |-> {}, echo |-> FALSE]

-----------------------------------------------------------------------------
(* Faulty variants of definitions below.                                    *)

\* The covered subnets are installed whether or not there is a tunnel.
CoveredSubnetsAlways == IF conf.mode = "switch" THEN conf.allowed ELSE {}

\* Standalone mode leaves the NAT's promiscuous mode on.
StandalonePromiscuousKept == TRUE

-----------------------------------------------------------------------------
(* Setting up                                                               *)

GuestFamilies == IF conf.ipv6 THEN Family ELSE {4}

\* nat.New: spoofing, promiscuous mode, our addresses, and a route to the
\* guest's subnet for each family the segment has.
NewNat ==
    /\ setup = "nat"
    /\ stack' = [stack EXCEPT !.promiscuous = TRUE, !.segment = GuestFamilies]
    /\ setup' = IF conf.wireguard THEN "nic" ELSE "echo"
    /\ UNCHANGED conf

\* A bad address, or a wireguard configuration that does not load: fatalf.
SetupFatal ==
    /\ setup \in {"nat", "nic"}
    /\ setup' = "dead"
    /\ UNCHANGED <<conf, stack>>

\* Attach: CreateNIC, which may fail.
AttachNic ==
    /\ setup = "nic"
    /\ \E ok \in BOOLEAN :
          /\ stack' = [stack EXCEPT !.nic = ok]
          /\ setup' = IF ok THEN "mode" ELSE "echo"
    /\ UNCHANGED conf

\* Switch mode: the stack gets the tunnel's addresses, one after the other.
AttachSwitch ==
    /\ setup = "mode" /\ conf.mode = "switch"
    /\ \E added \in SUBSET conf.addresses :
          /\ stack' = [stack EXCEPT !.addrs = added]
          /\ setup' = IF added = conf.addresses THEN "routes" ELSE "echo"
    /\ UNCHANGED conf

StandalonePromiscuous == FALSE

\* Standalone mode: the guest owns them, and the stack only forwards.
AttachStandalone ==
    /\ setup = "mode" /\ conf.mode = "standalone"
    /\ stack' = [stack EXCEPT
          !.promiscuous = StandalonePromiscuous,
          !.routes = @ \cup {<<"tunnel address", f, "guest">> : f \in conf.addresses},
          !.forwarding = @ \cup conf.allowed]
    /\ setup' = "routes"
    /\ UNCHANGED conf

AttachRoutes ==
    /\ setup = "routes"
    /\ stack' = [stack EXCEPT
          !.routes = @ \cup {<<"covered", f, "tunnel">> : f \in conf.allowed}]
    /\ setup' = "device"
    /\ UNCHANGED conf

\* IpcSet takes literal addresses only: a name that did not resolve fails it,
\* and nothing of what was done before is undone.
AttachDevice ==
    /\ setup = "device"
    /\ \E resolved \in BOOLEAN :
          stack' = [stack EXCEPT !.device = IF resolved THEN "up" ELSE "closed"]
    /\ setup' = "subnets"
    /\ UNCHANGED conf

CoveredSubnets == IF stack.device = "up" /\ conf.mode = "switch" THEN conf.allowed ELSE {}

SetTunnelSubnets ==
    /\ setup = "subnets"
    /\ stack' = [stack EXCEPT !.subnets = CoveredSubnets]
    /\ setup' = "echo"
    /\ UNCHANGED conf

\* NewICMPRelay; then the ports are added, and frames come in.
OpenEchoRelay ==
    /\ setup = "echo"
    /\ \E ok \in BOOLEAN : stack' = [stack EXCEPT !.echo = ok]
    /\ setup' = "serving"
    /\ UNCHANGED conf

\* shutdownUplink.
CloseUplink ==
    /\ setup = "serving"
    /\ stack' = [stack EXCEPT !.device = IF @ = "up" THEN "closed" ELSE @]
    /\ setup' = "dead"
    /\ UNCHANGED conf

UpNext ==
    \/ NewNat \/ SetupFatal \/ AttachNic \/ AttachSwitch \/ AttachStandalone
    \/ AttachRoutes \/ AttachDevice \/ SetTunnelSubnets \/ OpenEchoRelay \/ CloseUplink

UpSpec == UpInit /\ [][UpNext]_upVars

-----------------------------------------------------------------------------
(* Where a guest's packet for a destination of a class and family leaves:   *)
(*   local     netstack itself deals with it                                *)
(*   loopback  through a socket to the host's own loopback address          *)
(*   host      through a host socket                                        *)
(*   tunnel    through the wireguard device                                 *)
(*   guest     back to the guest's segment                                  *)
(*   nowhere   dropped or refused                                           *)

Class == {"own", "covered", "tunnel address", "other"}

\* A socket of the stack's own needs an address of the family on NIC 2.
ThroughTunnel(f) ==
    IF stack.device = "up" /\ f \in stack.addrs /\ <<"covered", f, "tunnel">> \in stack.routes
    THEN "tunnel" ELSE "nowhere"

\* dialUDP puts 127.0.0.1 for an own address BEFORE it asks dialsTunnel;
\* tcpHandler asks for own addresses first.  Name queries go to the host's
\* resolver.
Dial(kind, class, f) ==
    IF class = "own" /\ kind = "dns" THEN "host"
    ELSE IF class = "own" /\ kind = "udp" /\ conf.loopback /\ 4 \in stack.subnets THEN ThroughTunnel(4)
    ELSE IF class = "own" THEN "loopback"
    ELSE IF class = "covered" /\ f \in stack.subnets THEN ThroughTunnel(f)
    ELSE "host"

\* IP forwarding between the stack's NICs.
Forwarded(class, f) ==
    IF f \notin stack.forwarding THEN "nowhere"
    ELSE IF <<class, f, "guest">> \in stack.routes THEN "guest"
    ELSE IF <<class, f, "tunnel">> \in stack.routes /\ stack.device = "up" THEN "tunnel"
    ELSE "nowhere"

\* netstack terminates packets for its own addresses, with promiscuous mode on
\* those for every other as well: TCP and UDP then reach the NAT's handlers.
\* Without a route back to the guest nothing is answered, and CreateEndpoint
\* fails: what was dialled for the flow is closed.
Injected(kind, class, f) ==
    IF class # "own" /\ ~stack.promiscuous THEN Forwarded(class, f)
    ELSE IF f \notin stack.segment THEN "nowhere"
    ELSE IF kind = "echo" THEN "local"
    ELSE Dial(kind, class, f)

\* uplinkSink.SendFrame: the relay takes IPv4 echo requests, and netstack sees
\* no ARP request for an address that is not its own.
SendFrame(kind, class, f) ==
    IF kind = "echo" /\ stack.echo /\ f = 4 /\ class # "own" THEN "host"
    ELSE IF kind = "arp" THEN (IF class = "own" /\ f \in stack.segment THEN "local" ELSE "nowhere")
    ELSE Injected(kind, class, f)

\* bridge.Write: a decrypted packet for the tunnel's address goes to the flow
\* that owns it, or is forwarded to the guest.
FromTunnel(f) == IF f \in stack.addrs THEN "flow" ELSE Forwarded("tunnel address", f)

-----------------------------------------------------------------------------
(* Properties                                                               *)

UpTypeOK ==
    /\ conf \in Conf
    /\ setup \in {"nat", "nic", "mode", "routes", "device", "subnets", "echo", "serving", "dead"}
    /\ stack \in [segment : SUBSET Family, nic : BOOLEAN, addrs : SUBSET Family, promiscuous : BOOLEAN,
                  forwarding : SUBSET Family,
                  routes : SUBSET (Class \X Family \X {"guest", "tunnel"}),
                  device : {"none", "up", "closed"}, subnets : SUBSET Family, echo : BOOLEAN]

\* A tunnel that will not attach is skipped, and the instance keeps its
\* plain-NAT networking (main.go:255-257).
PlainNatKept ==
    (setup = "serving" /\ stack.device # "up") =>
        \A kind \in {"tcp", "udp"}, class \in {"covered", "other"} :
            SendFrame(kind, class, 4) = "host"

\* In switch mode that is so, wherever Attach failed, for both families the
\* segment can have: routes and addresses it left behind take no guest's traffic
\* away from the host's sockets, and with the tunnel up only covered traffic
\* leaves them (nat.go:70-75, main.go:261).  TCP flows to the gateway go to the
\* host's loopback; UDP flows, of which nat.go:289 says so too, exactly as long
\* as no tunnel is up that covers 127.0.0.1 (nat.go:326-335).
SwitchKeepsNat ==
    (setup = "serving" /\ conf.mode = "switch") =>
        \A f \in GuestFamilies :
            /\ \A kind \in {"tcp", "udp"} :
                  /\ SendFrame(kind, "other", f) = "host"
                  /\ stack.device # "up" => SendFrame(kind, "covered", f) = "host"
            /\ SendFrame("tcp", "own", f) = "loopback"
            /\ SendFrame("udp", "own", f) = "loopback" <=> ~(stack.device = "up" /\ conf.loopback)

\* With the tunnel up, covered TCP and UDP traffic of a family the tunnel has
\* an address for leaves through it and its replies find their way back: to the
\* stack's own flows in switch mode, whose guests need the family on their
\* segment, and to the guest in standalone mode (tunnel.go:65-72).  Echo requests
\* do not: the relay takes them first.
TunnelCarriesCovered ==
    (setup = "serving" /\ stack.device = "up") =>
        \A kind \in {"tcp", "udp"}, f \in conf.allowed \cap conf.addresses :
            (conf.mode = "switch" => f \in GuestFamilies) =>
                /\ SendFrame(kind, "covered", f) = "tunnel"
                /\ FromTunnel(f) = IF conf.mode = "switch" THEN "flow" ELSE "guest"
=============================================================================
