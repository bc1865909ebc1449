---------------------------- MODULE LeasesProofs ----------------------------
(***************************************************************************)
(* Proofs about Leases, for every subnet, pool and set of clients.         *)
(*                                                                         *)
(* The code's restart rule (Restore goes on at the number of leases it     *)
(* found) is right only for a table without holes.  Under the assumption   *)
(* Room, that a heartbeat has space for every lease, the absence of holes  *)
(* (Dense) is inductive: a heartbeat then carries the whole table          *)
(* (GossipWhole), Restore rebuilds it exactly (RestorePrefix), and the     *)
(* next address neither is in use nor leaves a hole (AssignPrefix).        *)
(* Without Room the run leases_truncated shows what happens.               *)
(***************************************************************************)
EXTENDS Leases, FiniteSetTheorems, FunctionTheorems, TLAPS

-----------------------------------------------------------------------------
(* Arithmetic of the pool                                                   *)

\* A remainder that is already reduced.
LEMMA Modulo ==
    ASSUME NEW a \in Nat, NEW b \in Nat, a < b
    PROVE  a % b = a
  OBVIOUS

\* Addresses are machine words.
LEMMA WordSize == 2^Width \in Int
  BY LeaseConstants

\* The pool ends before the broadcast address, so no offset of it wraps.
LEMMA PoolRange ==
    /\ UsableLeases \in Nat
    /\ UsableLeases > 0 => NetAddr <= Start /\ Start + UsableLeases <= Broadcast
<1>1. NetAddr \in Int /\ Start \in Int /\ Broadcast \in Int /\ PoolMax \in Nat
  BY LeaseConstants, WordSize DEF Addr
<1> QED
  BY <1>1 DEF UsableLeases

\* Every offset of the pool is an address of the subnet.
LEMMA LeaseAddrs ==
    ASSUME NEW off \in 0 .. UsableLeases - 1
    PROVE  LeaseAddr(off) = Start + off /\ LeaseAddr(off) \in Addr /\ LeaseAddr(off) \in NetAddr .. Broadcast - 1
<1>1. NetAddr \in Nat /\ Start \in Nat /\ Broadcast \in Nat /\ Broadcast < 2^Width
  BY LeaseConstants, WordSize DEF Addr
<1>2. off \in Nat /\ Start + off < Broadcast /\ NetAddr <= Start
  BY <1>1, PoolRange
<1>3. (Start + off) % 2^Width = Start + off
  <2>1. Start + off \in Nat /\ 2^Width \in Nat /\ Start + off < 2^Width
    BY <1>1, <1>2, WordSize
  <2> HIDE DEF Addr
  <2> QED
    BY <2>1, Modulo
<1> QED
  BY <1>1, <1>2, <1>3, WordSize DEF LeaseAddr, Addr

-----------------------------------------------------------------------------
(* Tables                                                                   *)

\* A table has at most one lease for every client.
LEMMA HeldFinite ==
    ASSUME NEW t
    PROVE  /\ IsFiniteSet(Held(t))
           /\ Cardinality(Held(t)) \in Nat
           /\ Cardinality(Held(t)) <= Cardinality(Mac)
<1>1. Held(t) \in SUBSET Mac
  BY DEF Held
<1> QED
  BY <1>1, FS_Subset, FS_CardinalityType, LeaseConstants

\* The empty table has no holes.
LEMMA EmptyTable == Empty \in Table /\ Prefix(Empty, 0)
  BY LeaseConstants DEF Empty, Table, Prefix, Injective, Held

\* A heartbeat carries a table.
LEMMA GossipType ==
    ASSUME NEW t \in Table, NEW g \in Gossip(t)
    PROVE  g \in Table
  BY DEF Gossip, Table

\* Restore builds a table.
LEMMA RestoreType ==
    ASSUME NEW t \in Table, NEW u \in RestoreTable(t)
    PROVE  u \in Table
  BY DEF RestoreTable, Table

\* A table without holes has as many clients as addresses.
LEMMA PrefixCount ==
    ASSUME NEW t \in Table, NEW n \in 0 .. UsableLeases, Prefix(t, n)
    PROVE  Cardinality(Held(t)) = n
<1>0. n \in Nat /\ n <= UsableLeases /\ UsableLeases \in Nat
  BY PoolRange
<1> DEFINE Client(k) == CHOOSE m \in Held(t) : t[m] = LeaseAddr(k - 1)
           f == [k \in 1 .. n |-> Client(k)]
<1>1. ASSUME NEW k \in 1 .. n
      PROVE  Client(k) \in Held(t) /\ t[Client(k)] = LeaseAddr(k - 1)
  <2>1. k - 1 \in 0 .. n - 1
    BY <1>0
  <2>2. \E m \in Held(t) : t[m] = LeaseAddr(k - 1)
    BY <2>1 DEF Prefix
  <2> QED
    BY <2>2
<1>2. f \in [1 .. n -> Held(t)]
  BY <1>1
<1>3. ASSUME NEW k \in 1 .. n, NEW l \in 1 .. n, f[k] = f[l]
      PROVE  k = l
  <2>1. LeaseAddr(k - 1) = LeaseAddr(l - 1)
    BY <1>1, <1>3
  <2>2. k - 1 \in 0 .. UsableLeases - 1 /\ l - 1 \in 0 .. UsableLeases - 1
    BY <1>0
  <2>3. Start \in Int
    BY LeaseConstants, WordSize DEF Addr
  <2> QED
    BY <2>1, <2>2, <2>3, LeaseAddrs
<1>4. ASSUME NEW m \in Held(t)
      PROVE  \E k \in 1 .. n : f[k] = m
  <2>1. PICK j \in 0 .. n - 1 : t[m] = LeaseAddr(j)
    BY DEF Prefix
  <2>2. j + 1 \in 1 .. n /\ (j + 1) - 1 = j
    BY <1>0
  <2>3. t[f[j + 1]] = t[m] /\ f[j + 1] \in Held(t)
    BY <1>1, <2>1, <2>2
  <2>4. f[j + 1] = m
    BY <2>3 DEF Prefix, Injective
  <2> QED
    BY <2>2, <2>4
<1>5. f \in Bijection(1 .. n, Held(t))
  <2> HIDE DEF f
  <2> QED
    BY <1>2, <1>3, <1>4, Fun_IsBij
<1>6. ExistsBijection(1 .. n, Held(t))
  BY <1>5 DEF ExistsBijection
<1> QED
  BY <1>0, <1>6, FS_CountingElements

\* Restore rebuilds a table without holes exactly.
LEMMA RestorePrefix ==
    ASSUME NEW t \in Table, NEW n \in 0 .. UsableLeases, Prefix(t, n),
           NEW u \in RestoreTable(t)
    PROVE  u = t
<1>1. /\ u \in [Mac -> {NoAddr} \cup {t[m] : m \in Mac}]
      /\ \A m \in Mac : u[m] \in {NoAddr, t[m]}
      /\ {u[m] : m \in Held(u)} =
            {t[m] : m \in Held(t)} \cap {LeaseAddr(off) : off \in 0 .. UsableLeases - 1}
  BY DEF RestoreTable
<1>2. {t[m] : m \in Held(t)} \subseteq {LeaseAddr(off) : off \in 0 .. UsableLeases - 1}
  <2>1. 0 .. n - 1 \subseteq 0 .. UsableLeases - 1
    BY PoolRange
  <2> QED
    BY <2>1 DEF Prefix
<1>3. ASSUME NEW m \in Held(t)
      PROVE  u[m] = t[m]
  <2>1. t[m] \in {u[k] : k \in Held(u)}
    BY <1>1, <1>2
  <2>2. PICK k \in Held(u) : u[k] = t[m]
    BY <2>1
  <2>3. k \in Mac /\ u[k] = t[k] /\ t[k] # NoAddr
    BY <1>1, <2>2 DEF Held
  <2>4. k = m
    BY <2>2, <2>3 DEF Prefix, Injective, Held
  <2> QED
    BY <2>2, <2>4
<1>4. \A m \in Mac : u[m] = t[m]
  BY <1>1, <1>3 DEF Held
<1> QED
  BY <1>1, <1>4 DEF Table

\* Every lease fits into a heartbeat.
Room == Cardinality(Mac) <= MaxLeases \/ UsableLeases <= MaxLeases

\* A heartbeat with room carries the whole table.
LEMMA GossipWhole ==
    ASSUME Room, NEW t \in Table, NEW n \in 0 .. UsableLeases, Prefix(t, n),
           NEW g \in Gossip(t)
    PROVE  g = t
<1>1. Cardinality(Held(t)) <= MaxLeases
  BY PrefixCount, HeldFinite, PoolRange, LeaseConstants, FS_CardinalityType DEF Room
<1> QED
  BY <1>1 DEF Gossip

\* The next address is free in a table without holes, and leaves none.
LEMMA AssignPrefix ==
    ASSUME NEW t \in Table, NEW n \in Nat, n < UsableLeases, Prefix(t, n),
           NEW m \in Mac, t[m] = NoAddr
    PROVE  Prefix([t EXCEPT ![m] = LeaseAddr(n)], n + 1)
<1> DEFINE u == [t EXCEPT ![m] = LeaseAddr(n)]
<1>1. n \in 0 .. UsableLeases - 1 /\ UsableLeases \in Nat /\ Start \in Int
  BY PoolRange, LeaseConstants, WordSize DEF Addr
<1>2. LeaseAddr(n) # NoAddr
  BY <1>1, LeaseAddrs, LeaseConstants
<1>3. Held(u) = Held(t) \cup {m}
  BY <1>2 DEF Held, Table
<1>4. \A k \in Held(t) : k # m /\ u[k] = t[k] /\ k \in Mac
  BY DEF Held, Table
<1>5. u[m] = LeaseAddr(n)
  BY DEF Table
<1>6. \A k \in 0 .. n - 1 : LeaseAddr(k) # LeaseAddr(n)
  BY <1>1, LeaseAddrs
<1>7. \A k \in Held(t) : t[k] # LeaseAddr(n)
  BY <1>6 DEF Prefix
<1>8. Injective(u)
  <2> HIDE DEF u
  <2> QED
    BY <1>3, <1>4, <1>5, <1>7 DEF Prefix, Injective
<1>9. {u[k] : k \in Held(u)} = {t[k] : k \in Held(t)} \cup {LeaseAddr(n)}
  <2> HIDE DEF u
  <2> QED
    BY <1>3, <1>4, <1>5
<1>10. 0 .. (n + 1) - 1 = (0 .. n - 1) \cup {n}
  BY <1>1
<1>11. {LeaseAddr(k) : k \in 0 .. (n + 1) - 1} = {LeaseAddr(k) : k \in 0 .. n - 1} \cup {LeaseAddr(n)}
  BY <1>10
<1> QED
  BY <1>8, <1>9, <1>11 DEF Prefix

\* Restore keeps addresses of the pool only.
LEMMA RestoreInPool ==
    ASSUME NEW t \in Table, NEW u \in RestoreTable(t), NEW m \in Held(u)
    PROVE  u[m] \in NetAddr .. Broadcast - 1
<1>1. u[m] \in {LeaseAddr(off) : off \in 0 .. UsableLeases - 1}
  BY DEF RestoreTable
<1> QED
  BY <1>1, LeaseAddrs

-----------------------------------------------------------------------------
(* Type correctness                                                         *)

\* Asking the pool for an address keeps it well-typed.
LEMMA AssignType ==
    ASSUME TypeOK, NEW m \in Mac, GetOrAssign(m)
    PROVE  assigned' \in Table /\ next' \in Nat
<1>1. CASE UNCHANGED pool
  BY <1>1 DEF TypeOK, pool
<1>2. CASE /\ assigned[m] = NoAddr /\ next < UsableLeases
           /\ assigned' = [assigned EXCEPT ![m] = LeaseAddr(next)]
           /\ next' = next + 1
  <2>1. next \in Nat /\ next \in 0 .. UsableLeases - 1
    BY <1>2, PoolRange DEF TypeOK
  <2>2. LeaseAddr(next) \in Addr
    BY <2>1, LeaseAddrs
  <2>3. assigned' \in Table
    BY <1>2, <2>2 DEF TypeOK, Table
  <2> QED
    BY <1>2, <2>1, <2>3
<1> QED
  BY <1>1, <1>2 DEF GetOrAssign

\* Every step keeps every variable in its type.
LEMMA TypeStep == TypeOK /\ [Next]_vars => TypeOK'
<1> SUFFICES ASSUME TypeOK, [Next]_vars PROVE TypeOK'
  OBVIOUS
<1> USE DEF TypeOK
<1>1. CASE UNCHANGED vars
  BY <1>1 DEF vars, pool, wires
<1>2. ASSUME NEW i \in Instance, Promote(i) PROVE TypeOK'
  <2>1. assigned' \in Table /\ next' \in Nat
    BY <1>2, RestoreType, HeldFinite DEF Promote, pool
  <2>2. cached' \in [Instance -> Table]
    BY <1>2, EmptyTable DEF Promote
  <2>3. lossy' \in BOOLEAN
    BY <1>2 DEF Promote
  <2> QED
    BY <1>2, <2>1, <2>2, <2>3 DEF Promote, wires
<1>3. ASSUME NEW i \in Instance, ReadBeacon(i) \/ PeerRestarts(i) PROVE TypeOK'
  BY <1>3, EmptyTable DEF ReadBeacon, PeerRestarts, pool
<1>4. ASSUME NEW m \in Mac, Discover(m) \/ Request(m) PROVE TypeOK'
  <2>1. assigned' \in Table /\ next' \in Nat
    BY <1>4, AssignType DEF Discover, Request
  <2>2. using' \in Table
    BY <1>4, <2>1 DEF Discover, Request, Table
  <2> QED
    BY <1>4, <2>1, <2>2 DEF Discover, Request, wires
<1>5. ASSUME NEW R \in SUBSET Instance, SendBeacon(R) PROVE TypeOK'
  <2>1. PICK t \in Gossip(IF Serves(hub) THEN assigned ELSE Empty) :
           inbox' = [i \in Instance |-> IF i \in R THEN t ELSE inbox[i]]
    BY <1>5 DEF SendBeacon
  <2>2. t \in Table
    BY <2>1, GossipType, EmptyTable
  <2> QED
    BY <1>5, <2>1, <2>2 DEF SendBeacon, pool
<1>6. ASSUME NEW L \in SUBSET Instance, HubDies(L) PROVE TypeOK'
  BY <1>6, EmptyTable DEF HubDies
<1> QED
  BY <1>1, <1>2, <1>3, <1>4, <1>5, <1>6 DEF Next

\* The initial tables are empty.
LEMMA TypeInit == Init => TypeOK
<1> SUFFICES ASSUME Init PROVE TypeOK
  OBVIOUS
<1>1. Empty \in Table
  BY EmptyTable
<1>2. assigned \in Table /\ using \in Table
  BY <1>1 DEF Init
<1>3. cached \in [Instance -> Table] /\ inbox \in [Instance -> Table]
  BY <1>1 DEF Init
<1>4. hub \in Instance \cup {None} /\ next \in Nat
  BY DEF Init
<1>5. unread \in [Instance -> BOOLEAN]
  BY DEF Init
<1>6. lossy \in BOOLEAN
  BY DEF Init
<1> QED
  BY <1>2, <1>3, <1>4, <1>5, <1>6 DEF TypeOK

\* Every variable keeps its type.
THEOREM LeasesTyped == Spec => []TypeOK
  BY TypeInit, TypeStep, PTL DEF Spec

-----------------------------------------------------------------------------
(* Addresses                                                                *)

\* Every step keeps the hub's leases among the addresses of the subnet.
LEMMA SubnetStep == TypeOK /\ LeasesInSubnet /\ [Next]_vars => LeasesInSubnet'
<1> SUFFICES ASSUME TypeOK, LeasesInSubnet, [Next]_vars PROVE LeasesInSubnet'
  OBVIOUS
<1> USE DEF LeasesInSubnet
<1>1. CASE assigned' = assigned
  BY <1>1 DEF Held
<1>2. CASE assigned' = Empty
  BY <1>2 DEF Held, Empty
<1>3. ASSUME NEW i \in Instance, Promote(i) PROVE LeasesInSubnet'
  <2>1. CASE assigned' \in RestoreTable(cached[i])
    BY <2>1, RestoreInPool DEF TypeOK
  <2> QED
    BY <1>1, <1>3, <2>1 DEF Promote, pool
<1>4. ASSUME NEW m \in Mac, GetOrAssign(m) PROVE LeasesInSubnet'
  <2>1. CASE /\ next < UsableLeases
             /\ assigned' = [assigned EXCEPT ![m] = LeaseAddr(next)]
    <3>1. next \in 0 .. UsableLeases - 1
      BY <2>1, PoolRange DEF TypeOK
    <3>2. LeaseAddr(next) \in NetAddr .. Broadcast - 1
      BY <3>1, LeaseAddrs
    <3> QED
      BY <2>1, <3>2 DEF Held, TypeOK, Table
  <2> QED
    BY <1>1, <1>4, <2>1 DEF GetOrAssign, pool
<1> QED
  BY <1>1, <1>2, <1>3, <1>4 DEF Next, vars, pool, Discover, Request, ReadBeacon,
     PeerRestarts, SendBeacon, HubDies

\* The hub never leases an address outside its subnet nor the broadcast
\* address, whatever the pool's start and the tables it was seeded with.
THEOREM LeasesStayInSubnet == Spec => []LeasesInSubnet
<1>1. Init => LeasesInSubnet
  BY DEF Init, LeasesInSubnet, Held, Empty
<1> QED
  BY <1>1, SubnetStep, LeasesTyped, PTL DEF Spec

-----------------------------------------------------------------------------
(* No holes                                                                 *)

\* A copy of a table without holes.
Whole(t) == \E n \in 0 .. UsableLeases : Prefix(t, n)

\* The empty table is whole.
LEMMA EmptyWhole == Whole(Empty)
  BY EmptyTable, PoolRange DEF Whole

\* Asking for an address leaves no hole.
LEMMA AssignDense ==
    ASSUME TypeOK, Dense, NEW m \in Mac, GetOrAssign(m)
    PROVE  next' <= UsableLeases /\ Prefix(assigned', next')
<1>1. CASE UNCHANGED pool
  BY <1>1 DEF Dense, pool
<1>2. CASE /\ assigned[m] = NoAddr /\ next < UsableLeases
           /\ assigned' = [assigned EXCEPT ![m] = LeaseAddr(next)]
           /\ next' = next + 1
  <2>1. assigned \in Table /\ next \in Nat /\ UsableLeases \in Nat
    BY PoolRange DEF TypeOK
  <2>2. Prefix(assigned, next)
    BY DEF Dense
  <2>3. Prefix(assigned', next')
    BY <1>2, <2>1, <2>2, AssignPrefix
  <2> QED
    BY <1>2, <2>1, <2>3
<1> QED
  BY <1>1, <1>2 DEF GetOrAssign

\* A promoted hub that serves has the cached table, and goes on after it.
LEMMA PromoteWhole ==
    ASSUME TypeOK, Dense, NEW i \in Instance, Promote(i), Serves(i)
    PROVE  /\ assigned' = cached[i]
           /\ next' <= UsableLeases /\ Prefix(assigned', next')
<1>1. PICK n \in 0 .. UsableLeases : Prefix(cached[i], n)
  BY DEF Dense
<1>2. cached[i] \in Table /\ assigned' \in RestoreTable(cached[i])
  BY DEF TypeOK, Promote
<1>3. assigned' = cached[i]
  BY <1>1, <1>2, RestorePrefix
<1>4. next' = n
  BY <1>1, <1>2, <1>3, PrefixCount DEF Promote
<1> QED
  BY <1>1, <1>3, <1>4, PoolRange

\* Every step preserves the absence of holes.
LEMMA DenseStep == Room /\ TypeOK /\ Dense /\ [Next]_vars => Dense'
<1> SUFFICES ASSUME Room, TypeOK, Dense, [Next]_vars PROVE Dense'
  OBVIOUS
<1>0. /\ next <= UsableLeases /\ Prefix(assigned, next)
      /\ \A i \in Instance : Whole(cached[i])
      /\ \A i \in Instance : Whole(inbox[i])
  BY DEF Dense, Whole
<1>g. SUFFICES /\ next' <= UsableLeases /\ Prefix(assigned', next')
               /\ \A i \in Instance : Whole(cached'[i])
               /\ \A i \in Instance : Whole(inbox'[i])
  BY DEF Dense, Whole
<1>1. CASE UNCHANGED vars
  BY <1>0, <1>1 DEF vars, pool, wires
<1>2. ASSUME NEW i \in Instance, Promote(i)
      PROVE  /\ next' <= UsableLeases /\ Prefix(assigned', next')
             /\ \A j \in Instance : Whole(cached'[j])
             /\ \A j \in Instance : Whole(inbox'[j])
  <2>1. next' <= UsableLeases /\ Prefix(assigned', next')
    BY <1>0, <1>2, PromoteWhole DEF Promote, pool
  <2>2. \A j \in Instance : Whole(cached'[j])
    BY <1>0, <1>2, EmptyWhole DEF Promote, TypeOK
  <2> QED
    BY <1>0, <1>2, <2>1, <2>2 DEF Promote, wires
<1>3. ASSUME NEW i \in Instance, ReadBeacon(i) \/ PeerRestarts(i)
      PROVE  /\ next' <= UsableLeases /\ Prefix(assigned', next')
             /\ \A j \in Instance : Whole(cached'[j])
             /\ \A j \in Instance : Whole(inbox'[j])
  BY <1>0, <1>3, EmptyWhole DEF ReadBeacon, PeerRestarts, pool, TypeOK
<1>4. ASSUME NEW m \in Mac, Discover(m) \/ Request(m)
      PROVE  /\ next' <= UsableLeases /\ Prefix(assigned', next')
             /\ \A j \in Instance : Whole(cached'[j])
             /\ \A j \in Instance : Whole(inbox'[j])
  BY <1>0, <1>4, AssignDense DEF Discover, Request, wires
<1>5. ASSUME NEW R \in SUBSET Instance, SendBeacon(R)
      PROVE  /\ next' <= UsableLeases /\ Prefix(assigned', next')
             /\ \A j \in Instance : Whole(cached'[j])
             /\ \A j \in Instance : Whole(inbox'[j])
  <2> DEFINE src == IF Serves(hub) THEN assigned ELSE Empty
  <2>1. PICK t \in Gossip(src) :
           inbox' = [i \in Instance |-> IF i \in R THEN t ELSE inbox[i]]
    BY <1>5 DEF SendBeacon
  <2>2. src \in Table /\ Whole(src)
    BY <1>0, EmptyTable, EmptyWhole, PoolRange DEF TypeOK, Whole
  <2>3. Whole(t)
    <3> HIDE DEF src
    <3>1. PICK n \in 0 .. UsableLeases : Prefix(src, n)
      BY <2>2 DEF Whole
    <3>2. t = src
      BY <2>1, <2>2, <3>1, GossipWhole
    <3> QED
      BY <2>2, <3>2
  <2> QED
    BY <1>0, <1>5, <2>1, <2>3 DEF SendBeacon, pool
<1>6. ASSUME NEW L \in SUBSET Instance, HubDies(L)
      PROVE  /\ next' <= UsableLeases /\ Prefix(assigned', next')
             /\ \A j \in Instance : Whole(cached'[j])
             /\ \A j \in Instance : Whole(inbox'[j])
  BY <1>0, <1>6, EmptyTable, EmptyWhole, PoolRange DEF HubDies, TypeOK
<1> QED
  BY <1>1, <1>2, <1>3, <1>4, <1>5, <1>6 DEF Next

\* The initial tables have no holes.
LEMMA DenseInit == Init => Dense
  BY EmptyTable, PoolRange DEF Init, Dense

\* If every lease fits into a heartbeat, the leases of the hub and of every
\* copy are always the first addresses of the range, one client each.
THEOREM TablesHaveNoHoles == Room => (Spec => []Dense)
<1>1. SUFFICES ASSUME Room PROVE Spec => []Dense
  OBVIOUS
<1>2. TypeOK /\ Dense /\ [Next]_vars => Dense'
  BY <1>1, DenseStep
<1> QED
  BY <1>2, DenseInit, LeasesTyped, PTL DEF Spec

\* Then no two clients of the hub's pool ever share an address.
THEOREM NoLeaseIsShared == Room => (Spec => []NoDoubleLease)
<1>1. SUFFICES ASSUME Room PROVE Spec => []NoDoubleLease
  OBVIOUS
<1>2. Dense => NoDoubleLease
  BY DEF Dense, Prefix, NoDoubleLease
<1>3. Spec => []Dense
  BY <1>1, TablesHaveNoHoles
<1> QED
  BY <1>2, <1>3, PTL

-----------------------------------------------------------------------------
(* Conflicts                                                                *)

\* Every step keeps the clients apart unless a promotion lost a lease.
LEMMA ConflictStep ==
    Room /\ TypeOK /\ Dense /\ ConflictNeedsLoss /\ [Next]_vars => ConflictNeedsLoss'
<1> SUFFICES ASSUME Room, TypeOK, Dense, ConflictNeedsLoss, [Next]_vars, ~lossy'
             PROVE  /\ Injective(using')
                    /\ hub' # None /\ Serves(hub') =>
                          \A m \in Held(using') : assigned'[m] = using'[m]
  BY DEF ConflictNeedsLoss, Injective, Held, Serves
<1>0. ~lossy
  BY DEF TypeOK, Next, vars, Promote, ReadBeacon, PeerRestarts, Discover, Request,
     SendBeacon, HubDies
<1>i. Injective(using)
  BY <1>0 DEF ConflictNeedsLoss
<1>k. hub # None /\ Serves(hub) => \A m \in Held(using) : assigned[m] = using[m]
  BY <1>0 DEF ConflictNeedsLoss
<1>1. CASE UNCHANGED <<hub, assigned, using>>
  BY <1>1, <1>i, <1>k
<1>2. CASE hub' = None /\ using' = using
  BY <1>2, <1>i
<1>3. ASSUME NEW i \in Instance, Promote(i)
      PROVE  /\ Injective(using')
             /\ hub' # None /\ Serves(hub') =>
                   \A m \in Held(using') : assigned'[m] = using'[m]
  <2>1. hub' = i /\ using' = using
    BY <1>3 DEF Promote
  <2>2. ASSUME Serves(i) PROVE \A m \in Held(using) : assigned'[m] = using[m]
    BY <1>3, <2>2, PromoteWhole DEF Promote
  <2> QED
    BY <1>i, <2>1, <2>2
<1>4. ASSUME NEW m \in Mac, Discover(m) \/ Request(m)
      PROVE  /\ Injective(using')
             /\ hub' # None /\ Serves(hub') =>
                   \A k \in Held(using') : assigned'[k] = using'[k]
  <2>1. GetOrAssign(m) /\ hub # None /\ Serves(hub) /\ hub' = hub
    BY <1>4 DEF Discover, Request, GetOrAssign
  <2>2. \A k \in Held(using) : assigned'[k] = using[k]
    BY <1>k, <2>1 DEF GetOrAssign, pool, Held, TypeOK, Table
  <2>3. assigned' \in Table
    BY <2>1, AssignType
  <2>4. \A k \in Held(using') : assigned'[k] = using'[k]
    BY <1>4, <2>2, <2>3 DEF Discover, Request, Held, TypeOK, Table
  <2>5. Injective(assigned')
    BY <2>1, AssignDense DEF Prefix
  <2>6. Injective(using')
    BY <2>4, <2>5 DEF Injective, Held
  <2> QED
    BY <2>4, <2>6
<1> QED
  BY <1>1, <1>2, <1>3, <1>4 DEF Next, vars, pool, ReadBeacon, PeerRestarts, SendBeacon, HubDies

\* If every lease fits into a heartbeat, two clients share an address only
\* after a hub was promoted without knowing a lease that was in use.
THEOREM ConflictsComeFromLostLeases == Room => (Spec => []ConflictNeedsLoss)
<1>1. SUFFICES ASSUME Room PROVE Spec => []ConflictNeedsLoss
  OBVIOUS
<1>2. TypeOK /\ Dense /\ ConflictNeedsLoss /\ [Next]_vars => ConflictNeedsLoss'
  BY <1>1, ConflictStep
<1>3. Init => ConflictNeedsLoss
  BY DEF Init, ConflictNeedsLoss, Injective, Held, Empty
<1>4. Spec => []Dense
  BY <1>1, TablesHaveNoHoles
<1> QED
  BY <1>2, <1>3, <1>4, LeasesTyped, PTL DEF Spec
=============================================================================
