------------------------------ MODULE UdpFlow ------------------------------
(***************************************************************************)
(* The NAT's relay of one guest UDP flow (udpHandler and relayUDP in       *)
(* internal/nat/nat.go).  netstack hands the NAT every datagram for which  *)
(* it has no endpoint; each starts a goroutine of its own, which dials the *)
(* host, then asks for the flow's endpoint, which only one can get.  The   *)
(* winner copies one datagram out and waits for one reply, in a loop, and  *)
(* gives up after 30 seconds without a datagram or 5 without a reply.      *)
(***************************************************************************)
EXTENDS Naturals

CONSTANTS
    UdpRelay,       \* goroutines of the flow
    NoRelay,        \* no goroutine
    MaxDatagrams,   \* bound: datagrams the guest sends
    MaxReplies      \* bound: datagrams the host sends on one socket

ASSUME UdpConstants ==
    /\ NoRelay \notin UdpRelay
    /\ MaxDatagrams \in Nat /\ MaxReplies \in Nat

VARIABLES
    datagrams,      \* datagrams the guest has sent
    endpoint,       \* the goroutine that has the flow's endpoint
    inbound,        \* the datagrams waiting in that endpoint
    at,             \* where each goroutine is
    hostSocket,     \* whether its host socket is open
    replies         \* replies waiting in that socket

udpVars == <<datagrams, endpoint, inbound, at, hostSocket, replies>>

\* relayUDP from the moment the endpoint exists until both ends are closed.
InLoop == {"read", "wait", "write", "reply", "closeHost", "closeGuest"}

UdpInit ==
    /\ datagrams = 0
    /\ endpoint = NoRelay
    /\ inbound = 0
    /\ at = [g \in UdpRelay |-> "none"]
    /\ hostSocket = [g \in UdpRelay |-> FALSE]
    /\ replies = [g \in UdpRelay |-> 0]

Moves(g, from, to) == at[g] = from /\ at' = [at EXCEPT ![g] = to]

-----------------------------------------------------------------------------
(* Faulty variants of definitions below.                                    *)

\* The socket of a goroutine that got no endpoint is left open.
AfterLostRaceLeaks(g) == hostSocket

\* The wait for the host's reply has no deadline.
SilentNever(g) == FALSE

-----------------------------------------------------------------------------
\* A datagram of the guest: into the endpoint, or to a goroutine of its own.
UdpArrives ==
    /\ datagrams < MaxDatagrams
    /\ datagrams' = datagrams + 1
    /\ \/ /\ endpoint # NoRelay
          /\ inbound' = inbound + 1
          /\ UNCHANGED at
       \/ /\ endpoint = NoRelay
          /\ \E g \in UdpRelay : Moves(g, "none", "dial")
          /\ UNCHANGED inbound
    /\ UNCHANGED <<endpoint, hostSocket, replies>>

\* dialUDP returns a socket,
UdpDials(g) ==
    /\ Moves(g, "dial", "create")
    /\ hostSocket' = [hostSocket EXCEPT ![g] = TRUE]
    /\ replies' = [replies EXCEPT ![g] = 0]
    /\ UNCHANGED <<datagrams, endpoint, inbound>>

\* or nil; udpHandler has long said that the datagram is taken care of.
UdpDialFails(g) ==
    /\ Moves(g, "dial", "none")
    /\ UNCHANGED <<datagrams, endpoint, inbound, hostSocket, replies>>

\* CreateEndpoint, which also delivers the datagram that started it all.
UdpCreates(g) ==
    /\ endpoint = NoRelay
    /\ Moves(g, "create", "read")
    /\ endpoint' = g
    /\ inbound' = 1
    /\ UNCHANGED <<datagrams, hostSocket, replies>>

AfterLostRace(g) == [hostSocket EXCEPT ![g] = FALSE]

\* Another goroutine has the endpoint already: this datagram is lost.
UdpLosesRace(g) ==
    /\ endpoint # NoRelay
    /\ Moves(g, "create", "none")
    /\ hostSocket' = AfterLostRace(g)
    /\ UNCHANGED <<datagrams, endpoint, inbound, replies>>

\* guest.ReadFrom: take a datagram, at once or after waiting for it,
UdpReads(g) ==
    /\ inbound > 0
    /\ Moves(g, "read", "write") \/ Moves(g, "wait", "write")
    /\ inbound' = inbound - 1
    /\ UNCHANGED <<datagrams, endpoint, hostSocket, replies>>

UdpWaits(g) ==
    /\ inbound = 0
    /\ Moves(g, "read", "wait")
    /\ UNCHANGED <<datagrams, endpoint, inbound, hostSocket, replies>>

\* or give up after udpIdle, which may coincide with the next datagram.
UdpIdles(g) ==
    /\ Moves(g, "wait", "closeHost")
    /\ UNCHANGED <<datagrams, endpoint, inbound, hostSocket, replies>>

UdpWrites(g) ==
    /\ Moves(g, "write", "reply")
    /\ UNCHANGED <<datagrams, endpoint, inbound, hostSocket, replies>>

\* The host answers once, never, or several times.
HostReplies(g) ==
    /\ hostSocket[g] /\ at[g] \in InLoop
    /\ replies[g] < MaxReplies
    /\ replies' = [replies EXCEPT ![g] = @ + 1]
    /\ UNCHANGED <<datagrams, endpoint, inbound, at, hostSocket>>

\* A reply goes to the guest, and the loop begins anew,
UdpReplies(g) ==
    /\ replies[g] > 0
    /\ Moves(g, "reply", "read")
    /\ replies' = [replies EXCEPT ![g] = @ - 1]
    /\ UNCHANGED <<datagrams, endpoint, inbound, hostSocket>>

\* or none comes within five seconds,
Silent(g) == replies[g] = 0

UdpTimesOut(g) ==
    /\ Silent(g)
    /\ Moves(g, "reply", "closeHost")
    /\ UNCHANGED <<datagrams, endpoint, inbound, hostSocket, replies>>

\* or a read or write fails.
UdpFails(g) ==
    /\ Moves(g, "write", "closeHost") \/ Moves(g, "reply", "closeHost")
    /\ UNCHANGED <<datagrams, endpoint, inbound, hostSocket, replies>>

\* The deferred closes, the host's first: what waits in the endpoint is lost.
UdpClosesHost(g) ==
    /\ Moves(g, "closeHost", "closeGuest")
    /\ hostSocket' = [hostSocket EXCEPT ![g] = FALSE]
    /\ UNCHANGED <<datagrams, endpoint, inbound, replies>>

UdpClosesGuest(g) ==
    /\ Moves(g, "closeGuest", "none")
    /\ endpoint' = NoRelay
    /\ inbound' = 0
    /\ UNCHANGED <<datagrams, hostSocket, replies>>

UdpStep(g) ==
    \/ UdpDials(g) \/ UdpCreates(g) \/ UdpLosesRace(g)
    \/ UdpReads(g) \/ UdpWaits(g) \/ UdpIdles(g) \/ UdpWrites(g)
    \/ UdpReplies(g) \/ UdpTimesOut(g)
    \/ UdpClosesHost(g) \/ UdpClosesGuest(g)

UdpNext ==
    \/ UdpArrives
    \/ \E g \in UdpRelay : UdpStep(g) \/ UdpDialFails(g) \/ UdpFails(g) \/ HostReplies(g)

\* A goroutine runs, and its deadlines pass.  Nothing is assumed of the guest,
\* of the host or of failures.
UdpFairness == \A g \in UdpRelay : WF_udpVars(UdpStep(g))

UdpSpec == UdpInit /\ [][UdpNext]_udpVars /\ UdpFairness

-----------------------------------------------------------------------------
(* Properties                                                               *)

UdpTypeOK ==
    /\ datagrams \in 0 .. MaxDatagrams
    /\ endpoint \in UdpRelay \cup {NoRelay}
    /\ inbound \in 0 .. MaxDatagrams
    /\ at \in [UdpRelay -> InLoop \cup {"none", "dial", "create"}]
    /\ hostSocket \in [UdpRelay -> BOOLEAN]
    /\ replies \in [UdpRelay -> 0 .. MaxReplies]

\* A burst of datagrams starts several goroutines, and one of them at most
\* relays: the loop runs exactly where the endpoint is, and a socket is open
\* only in a goroutine that will still close it (nat.go:306-308, 357-358).
OneRelayPerFlow ==
    \A g \in UdpRelay :
        /\ endpoint = g <=> at[g] \in InLoop
        /\ hostSocket[g] => at[g] \in (InLoop \cup {"create"}) \ {"closeGuest"}

\* A flow whose guest has fallen silent ends, whatever its host does: no
\* goroutine, endpoint or socket stays behind (nat.go:361, 366, 370).
FlowsEnd ==
    <>[](endpoint = NoRelay /\ \A g \in UdpRelay : at[g] = "none" /\ ~hostSocket[g])
=============================================================================
