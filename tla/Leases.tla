------------------------------- MODULE Leases -------------------------------
(***************************************************************************)
(* DHCP leases and what becomes of them when the hub fails over:           *)
(* internal/dhcp (Pool, Restore, HandlePacket), the lease table that       *)
(* heartbeats carry (internal/elect) and fleet's copy of it (main.go).     *)
(*                                                                         *)
(* One instance at a time is the hub (module Fleet proves it).  It answers *)
(* DHCP from its pool and floods the pool's table with every heartbeat; a  *)
(* peer keeps the last table it read and seeds its pool with it when it is *)
(* promoted.  A lease table maps every client MAC to its address or to     *)
(* NoAddr.                                                                 *)
(***************************************************************************)
EXTENDS FiniteSets, Integers

CONSTANTS
    Instance,   \* the helper processes
    NoDhcp,     \* those whose uplink has no DHCP server (tap, none)
    Mac,        \* client hardware addresses
    None,       \* no instance, no MAC
    NoAddr,     \* no address
    Width,      \* bits of an address (32 in the code)
    HostBits,   \* bits of the subnet's host part
    NetAddr,    \* the subnet's first address
    Start,      \* dhcp_start
    PoolMax,    \* most addresses of a pool (256 in main.go)
    MaxLeases   \* most leases in one heartbeat (32 in elect.go)

Addr == 0 .. 2^Width - 1

\* netAddr | ^mask, for a subnet whose host bits are zero.
Broadcast == NetAddr + 2^HostBits - 1

ASSUME LeaseConstants ==
    /\ NoDhcp \subseteq Instance
    /\ None \notin Instance \cup Mac
    /\ NoAddr \notin Addr
    /\ IsFiniteSet(Mac)
    /\ MaxLeases \in Nat /\ PoolMax \in Nat
    /\ Width \in Nat /\ HostBits \in 0 .. Width
    /\ NetAddr \in Addr /\ Start \in Addr
    /\ Broadcast \in Addr

-----------------------------------------------------------------------------
(* The pool's arithmetic                                                    *)

\* A pool that counts the broadcast address as one of its own.
UsableLeasesInclusive ==
    IF Start < NetAddr \/ Start > Broadcast THEN 0
    ELSE IF Broadcast - Start + 1 > PoolMax THEN PoolMax ELSE Broadcast - Start + 1

\* How many addresses a pool that begins at Start has: up to but excluding
\* the broadcast address, 0 when Start is outside the subnet.
UsableLeases ==
    IF Start < NetAddr \/ Start >= Broadcast THEN 0
    ELSE IF Broadcast - Start > PoolMax THEN PoolMax ELSE Broadcast - Start

\* The pool's address at an offset: addition on the whole Width-bit word.
LeaseAddr(off) == (Start + off) % 2^Width

Table == [Mac -> Addr \cup {NoAddr}]
Empty == [m \in Mac |-> NoAddr]
Held(t) == {m \in Mac : t[m] # NoAddr}

\* What may be left of a table in a heartbeat: EncodeBeacon keeps MaxLeases
\* entries, in the order Go ranges over the map, which is any order.
Gossip(t) ==
    IF Cardinality(Held(t)) <= MaxLeases THEN {t}
    ELSE {[m \in Mac |-> IF m \in S THEN t[m] ELSE NoAddr] :
             S \in {S \in SUBSET Held(t) : Cardinality(S) = MaxLeases}}

\* Restore stops one address short of the end of the pool.
RestoreTableShort(t) ==
    {u \in [Mac -> {NoAddr} \cup {t[m] : m \in Mac}] :
        /\ \A m \in Mac : u[m] \in {NoAddr, t[m]}
        /\ \A m, n \in Held(u) : u[m] = u[n] => m = n
        /\ {u[m] : m \in Held(u)} =
              {t[m] : m \in Held(t)} \cap {LeaseAddr(off) : off \in 0 .. UsableLeases - 2}}

\* The tables Restore may build from one: for every address of the pool one
\* of the MACs that have it (again, whichever the map yields first).
RestoreTable(t) ==
    {u \in [Mac -> {NoAddr} \cup {t[m] : m \in Mac}] :
        /\ \A m \in Mac : u[m] \in {NoAddr, t[m]}
        /\ \A m, n \in Held(u) : u[m] = u[n] => m = n
        /\ {u[m] : m \in Held(u)} =
              {t[m] : m \in Held(t)} \cap {LeaseAddr(off) : off \in 0 .. UsableLeases - 1}}

-----------------------------------------------------------------------------
VARIABLES
    hub,        \* the instance that serves
    assigned,   \* its pool: the table,
    next,       \*   and the offset the next client gets
    cached,     \* fleet.leases of every instance
    inbox,      \* the last heartbeat's table on every peer's wire,
    unread,     \*   and whether the peer has yet to read it
    using,      \* the address each client was last acknowledged
    lossy       \* history: a promoted hub did not know a lease in use

pool  == <<assigned, next>>
wires == <<inbox, unread>>
vars  == <<hub, pool, cached, wires, using, lossy>>

Init ==
    /\ hub = None
    /\ assigned = Empty
    /\ next = 0
    /\ cached = [i \in Instance |-> Empty]
    /\ inbox = [i \in Instance |-> Empty]
    /\ unread = [i \in Instance |-> FALSE]
    /\ using = Empty
    /\ lossy = FALSE

\* runInstance runs a DHCP server: a slirp uplink and a pool that is not empty.
Serves(i) == i \notin NoDhcp /\ UsableLeases > 0

-----------------------------------------------------------------------------
(* Faulty variants of steps defined below.                                  *)

\* Restore does not move the pool's next offset.
PromoteForgetsNext(i) ==
    /\ hub = None /\ ~unread[i]
    /\ hub' = i
    /\ next' = 0
    /\ IF Serves(i)
       THEN /\ assigned' \in RestoreTable(cached[i])
            /\ cached' = [cached EXCEPT ![i] = Empty]
            /\ lossy' = (lossy \/ \E m \in Held(using) : cached[i][m] # using[m])
       ELSE UNCHANGED <<assigned, cached, lossy>>
    /\ UNCHANGED <<wires, using>>

\* Restore goes on at the last offset in use, not at the one after it.
PromoteOffByOne(i) ==
    /\ hub = None /\ ~unread[i]
    /\ hub' = i
    /\ IF Serves(i)
       THEN /\ assigned' \in RestoreTable(cached[i])
            /\ next' = Cardinality(Held(assigned')) - 1
            /\ cached' = [cached EXCEPT ![i] = Empty]
            /\ lossy' = (lossy \/ \E m \in Held(using) : cached[i][m] # using[m])
       ELSE UNCHANGED <<pool, cached, lossy>>
    /\ UNCHANGED <<wires, using>>

-----------------------------------------------------------------------------
(* The hub                                                                  *)

\* runInstance on a promoted instance: the gossiped table seeds the pool,
\* before any heartbeat is sent.  The peer read its wire to the end first.
Promote(i) ==
    /\ hub = None /\ ~unread[i]
    /\ hub' = i
    /\ IF Serves(i)
       THEN /\ assigned' \in RestoreTable(cached[i])
            /\ next' = Cardinality(Held(assigned'))
            /\ cached' = [cached EXCEPT ![i] = Empty]
            /\ lossy' = (lossy \/ \E m \in Held(using) : cached[i][m] # using[m])
       ELSE UNCHANGED <<pool, cached, lossy>>
    /\ UNCHANGED <<wires, using>>

\* Pool.GetOrAssign for a client that asks the serving hub.
GetOrAssign(m) ==
    /\ hub # None /\ Serves(hub)
    /\ \/ /\ assigned[m] # NoAddr
          /\ UNCHANGED pool
       \/ /\ assigned[m] = NoAddr /\ next < UsableLeases
          /\ assigned' = [assigned EXCEPT ![m] = LeaseAddr(next)]
          /\ next' = next + 1

\* DISCOVER: the address is reserved and offered.
Discover(m) ==
    /\ GetOrAssign(m)
    /\ UNCHANGED <<hub, cached, wires, using, lossy>>

\* REQUEST: the client uses the address of the ACK, if the reply reaches it.
Request(m) ==
    /\ GetOrAssign(m)
    /\ using' = [using EXCEPT ![m] = assigned'[m]]
    /\ UNCHANGED <<hub, cached, wires, lossy>>

\* sendBeacons: a snapshot of the pool, as much of it as fits, to the peers
\* in R; a full queue drops it for the others.  A hub without DHCP sends an
\* empty table.
SendBeacon(R) ==
    /\ hub # None /\ hub \notin R
    /\ \E t \in Gossip(IF Serves(hub) THEN assigned ELSE Empty) :
          inbox' = [i \in Instance |-> IF i \in R THEN t ELSE inbox[i]]
    /\ unread' = [i \in Instance |-> i \in R \/ unread[i]]
    /\ UNCHANGED <<hub, pool, cached, using, lossy>>

\* The hub's process ends.  What its queues still held for the peers in L is
\* lost; what was already on the wire is read before the end of file.
HubDies(L) ==
    /\ hub # None
    /\ hub' = None
    /\ assigned' = Empty /\ next' = 0
    /\ cached' = [cached EXCEPT ![hub] = Empty]
    /\ unread' = [i \in Instance |-> i \notin L /\ unread[i]]
    /\ inbox' = [i \in Instance |-> IF i \in L THEN Empty ELSE inbox[i]]
    /\ UNCHANGED <<using, lossy>>

-----------------------------------------------------------------------------
(* A peer                                                                   *)

\* runPeer's reader: the table replaces the one kept so far.
ReadBeacon(i) ==
    /\ i # hub /\ unread[i]
    /\ cached' = [cached EXCEPT ![i] = inbox[i]]
    /\ inbox' = [inbox EXCEPT ![i] = Empty]
    /\ unread' = [unread EXCEPT ![i] = FALSE]
    /\ UNCHANGED <<hub, pool, using, lossy>>

\* A peer's process is replaced by a new one.
PeerRestarts(i) ==
    /\ i # hub
    /\ cached' = [cached EXCEPT ![i] = Empty]
    /\ inbox' = [inbox EXCEPT ![i] = Empty]
    /\ unread' = [unread EXCEPT ![i] = FALSE]
    /\ UNCHANGED <<hub, pool, using, lossy>>

Next ==
    \/ \E i \in Instance : Promote(i) \/ ReadBeacon(i) \/ PeerRestarts(i)
    \/ \E m \in Mac : Discover(m) \/ Request(m)
    \/ \E R \in SUBSET Instance : SendBeacon(R) \/ HubDies(R)

Spec == Init /\ [][Next]_vars

-----------------------------------------------------------------------------
(* Properties                                                               *)

TypeOK ==
    /\ hub \in Instance \cup {None}
    /\ assigned \in Table
    /\ next \in Nat
    /\ cached \in [Instance -> Table]
    /\ inbox \in [Instance -> Table]
    /\ unread \in [Instance -> BOOLEAN]
    /\ using \in Table
    /\ lossy \in BOOLEAN

Injective(t) == \A m, n \in Held(t) : t[m] = t[n] => m = n

\* No two clients of one pool have the same address: GetOrAssign hands out
\* "the next free address in the pool" (dhcp.go:94), before and after a
\* promotion.
NoDoubleLease == Injective(assigned)

\* As long as a heartbeat has room for every lease, tables have no holes: the
\* leases of a pool, and of every copy of it, are the first addresses of the
\* range, one client each.  That is what lets Restore go on at the number of
\* leases it found.
Prefix(t, n) ==
    /\ Injective(t)
    /\ {t[m] : m \in Held(t)} = {LeaseAddr(k) : k \in 0 .. n - 1}
Dense ==
    /\ next <= UsableLeases /\ Prefix(assigned, next)
    /\ \A i \in Instance : \E n \in 0 .. UsableLeases : Prefix(cached[i], n)
    /\ \A i \in Instance : \E n \in 0 .. UsableLeases : Prefix(inbox[i], n)

\* Whatever crashes, two clients end up on one address only after a hub was
\* promoted without knowing a lease in use (it died before the heartbeat that
\* carried it); until then the serving hub knows every client's address.
ConflictNeedsLoss ==
    lossy \/ /\ Injective(using)
             /\ hub # None /\ Serves(hub) => \A m \in Held(using) : assigned[m] = using[m]

\* Every lease is an address of the subnet below its broadcast address
\* (dhcp.go:55-58, 65-67): offsets never wrap and a seed from another subnet
\* is dropped.
LeasesInSubnet ==
    \A m \in Held(assigned) : assigned[m] \in NetAddr .. Broadcast - 1
=============================================================================
