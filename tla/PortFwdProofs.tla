--------------------------- MODULE PortFwdProofs ---------------------------
(***************************************************************************)
(* Proofs about the port forwards (PortFwd), for every number of rules,    *)
(* clients and datagrams.                                                  *)
(*                                                                         *)
(* SocketsHaveReaders is not inductive alone: the loop could write to, and *)
(* the reaper and a reader could close, a path nobody made.  A path's      *)
(* number is the datagram's that made it (PathsMade), and before that it   *)
(* has neither goroutine nor socket (PathsUnmade).                         *)
(***************************************************************************)
EXTENDS PortFwd, TLAPS

USE PortFwdConstants

\* The table holds paths that were made, and the loop writes to such a one.
PathsMade ==
    /\ paths \subseteq 1 .. served
    /\ server = "write" => inHand \in 1 .. served

\* A path that is still to be made has neither goroutine nor socket.
PathsUnmade == \A p \in Path : p > served => reader[p] = "none" /\ ~guestConn[p]

PfInv == PfTypeOK /\ PathsMade /\ PathsUnmade /\ SocketsHaveReaders

-----------------------------------------------------------------------------
(* Facts about the operators                                                *)

\* Close closes one socket.
LEMMA CloseType ==
    ASSUME guestConn \in [Path -> BOOLEAN], NEW p \in Path, Close(p)
    PROVE  /\ guestConn' \in [Path -> BOOLEAN]
           /\ ~guestConn'[p]
           /\ \A q \in Path \ {p} : guestConn'[q] = guestConn[q]
  BY Zenon DEF Close

-----------------------------------------------------------------------------
(* Steps                                                                    *)

\* Start touches no path.
LEMMA StartStep ==
    ASSUME PfInv, OpenRule \/ RuleFails
    PROVE  PfInv'
<1>1. UNCHANGED <<served, inHand, paths, pathSrc, guestConn, reader, stale>>
  BY DEF OpenRule, RuleFails, table
<1>2. server' \in {"off", "read", "write", "gone"} /\ (server' = "write" => server = "write")
  BY DEF PfInv, PfTypeOK, OpenRule, RuleFails
<1>3. starting' \in 1 .. Aborted /\ opened' \subseteq 1 .. RuleCount
  <2>1. starting \in 1 .. RuleCount /\ opened \subseteq 1 .. RuleCount
    BY DEF PfInv, PfTypeOK, OpenRule, RuleFails
  <2>2. CASE OpenRule
    BY <2>1, <2>2 DEF OpenRule, Aborted
  <2>3. CASE RuleFails
    BY <2>3 DEF RuleFails, Aborted
  <2> QED
    BY <2>2, <2>3
<1>4. PfTypeOK'
  BY <1>1, <1>2, <1>3 DEF PfInv, PfTypeOK
<1> QED
  BY <1>1, <1>2, <1>4
     DEF PfInv, PathsMade, PathsUnmade, SocketsHaveReaders

\* A datagram of a client that has a path, or that gets none.
LEMMA ReceiveOldStep ==
    ASSUME PfInv, NEW c \in Client, Receive(c), ReceiveKnown(c) \/ ReceiveDropped(c)
    PROVE  PfInv'
<1>1. UNCHANGED <<starting, opened, paths, pathSrc, guestConn, reader>>
  BY DEF Receive, ReceiveKnown, ReceiveDropped, table
<1>2. served \in Nat /\ served' = served + 1 /\ served' \in 0 .. MaxClientDatagrams
  BY DEF PfInv, PfTypeOK, Receive
<1>3. /\ inHand' \in paths \/ (UNCHANGED <<server, inHand>>)
      /\ server' \in {"write", server}
      /\ stale' \subseteq stale
  BY DEF ReceiveKnown, ReceiveDropped, PathsOf, table
<1>4. PfTypeOK'
  BY <1>1, <1>2, <1>3 DEF PfInv, PfTypeOK
<1>5. PathsMade'
  <2>1. \A q \in 1 .. served : q \in 1 .. served'
    BY <1>2
  <2> QED
    BY <1>1, <1>3, <2>1 DEF PfInv, PathsMade
<1>6. PathsUnmade' /\ SocketsHaveReaders'
  BY <1>1, <1>2 DEF PfInv, PathsUnmade, SocketsHaveReaders, Path
<1> QED
  BY <1>4, <1>5, <1>6 DEF PfInv

\* A datagram that makes a path.
LEMMA ReceiveNewStep ==
    ASSUME PfInv, NEW c \in Client, Receive(c), ReceiveNew(c)
    PROVE  PfInv'
<1> DEFINE p == served + 1
<1>1. served \in Nat /\ served' = p /\ p \in Path /\ p \in Nat
  BY DEF PfInv, PfTypeOK, Receive, Path
<1>2. /\ inHand' = p
      /\ paths' = paths \cup {p}
      /\ pathSrc' = [pathSrc EXCEPT ![p] = c]
      /\ guestConn' = [guestConn EXCEPT ![p] = TRUE]
      /\ reader' = [reader EXCEPT ![p] = "read"]
      /\ server' = "write"
      /\ UNCHANGED <<starting, opened, stale>>
  BY DEF Receive, ReceiveNew
<1>3. /\ paths \subseteq Path
      /\ pathSrc \in [Path -> Client \cup {NoClient}]
      /\ guestConn \in [Path -> BOOLEAN]
      /\ reader \in [Path -> {"none", "read", "close", "gone"}]
  BY DEF PfInv, PfTypeOK
<1>4. p \notin paths /\ \A q \in paths : q \in Path /\ pathSrc[q] # c
  BY <1>1, <1>3 DEF PfInv, PathsMade, ReceiveNew, PathsOf
<1> HIDE DEF p
<1>5. guestConn' \in [Path -> BOOLEAN] /\ \A q \in Path \ {p} : guestConn'[q] = guestConn[q]
  BY <1>1, <1>2, <1>3, Zenon
<1>6. /\ pathSrc'[p] = c /\ reader'[p] = "read"
      /\ \A q \in Path \ {p} : pathSrc'[q] = pathSrc[q] /\ reader'[q] = reader[q]
  BY <1>1, <1>2, <1>3
<1>7. PfTypeOK'
  BY <1>1, <1>2, <1>3, <1>5 DEF PfInv, PfTypeOK, Path
<1>8. PathsMade'
  BY <1>1, <1>2 DEF PfInv, PathsMade, p
<1>9. PathsUnmade'
  <2>1. \A q \in Path : q > served' => q # p /\ q > served
    BY <1>1 DEF Path, p
  <2> QED
    BY <1>5, <1>6, <2>1 DEF PfInv, PathsUnmade
<1>11. SocketsHaveReaders'
  BY <1>5, <1>6 DEF PfInv, SocketsHaveReaders
<1> QED
  BY <1>7, <1>8, <1>9, <1>11 DEF PfInv

\* The loop writes to the guest, or ends.
LEMMA ServerStep ==
    ASSUME PfInv, WriteGuest \/ ServerEnds
    PROVE  PfInv'
<1>1. /\ UNCHANGED <<starting, opened, served, paths, pathSrc, reader, stale>>
      /\ server' \in {"read", "gone"}
      /\ inHand' \in {inHand, NoPath}
  BY DEF WriteGuest, ServerEnds, table
<1>2. guestConn \in [Path -> BOOLEAN]
  BY DEF PfInv, PfTypeOK
<1>3. WriteGuest => inHand \in Path
  BY DEF PfInv, PfTypeOK, PathsMade, WriteGuest, Path
<1>4. guestConn' \in [Path -> BOOLEAN] /\ \A q \in Path : guestConn'[q] => guestConn[q]
  <2>1. CASE UNCHANGED guestConn
    BY <1>2, <2>1
  <2>2. CASE WriteGuest /\ Close(inHand)
    BY <1>2, <1>3, <2>2, CloseType, Zenon
  <2> QED
    BY <2>1, <2>2 DEF WriteGuest, ServerEnds, table
<1>5. PfTypeOK'
  BY <1>1, <1>4 DEF PfInv, PfTypeOK
<1> QED
  BY <1>1, <1>4, <1>5
     DEF PfInv, PathsMade, PathsUnmade, SocketsHaveReaders

\* The reader of a path ends in one of its ways, or its time stamp grows old.
LEMMA ReaderStep ==
    ASSUME PfInv, NEW p \in Path, PathStep(p)
    PROVE  PfInv'
<1>1. UNCHANGED <<starting, opened, server, served, inHand, pathSrc>>
  BY DEF ReplyFails, PathStep, ReadFails, ReadTimesOut, ReaderUnlists, ReaderCloses, GrowsStale
<1>2. paths' \subseteq paths /\ stale' \subseteq stale \cup {p}
  BY DEF ReplyFails, PathStep, ReadFails, ReadTimesOut, ReaderUnlists, ReaderCloses, GrowsStale
<1>3. /\ guestConn \in [Path -> BOOLEAN]
      /\ reader \in [Path -> {"none", "read", "close", "gone"}]
  BY DEF PfInv, PfTypeOK
<1>4. /\ reader' \in [Path -> {"none", "read", "close", "gone"}]
      /\ \A q \in Path \ {p} : reader'[q] = reader[q]
      /\ reader'[p] = reader[p] \/ (reader[p] # "none" /\ reader'[p] \in {"close", "gone"})
  BY <1>3 DEF ReplyFails, PathStep, ReadFails, ReadTimesOut, ReaderUnlists, ReaderCloses, GrowsStale
<1>5. Close(p) \/ (UNCHANGED guestConn /\ (UNCHANGED reader \/ reader'[p] = "close"))
  BY <1>3 DEF ReplyFails, ReplyLost, PathStep, ReadFails, ReadTimesOut, ReaderUnlists, ReaderCloses, GrowsStale
<1>6. /\ guestConn' \in [Path -> BOOLEAN]
      /\ \A q \in Path : guestConn'[q] => guestConn[q]
      /\ guestConn'[p] => UNCHANGED reader \/ reader'[p] = "close"
  <2>1. CASE Close(p)
    BY <1>3, <2>1, CloseType, Zenon
  <2>2. CASE UNCHANGED guestConn /\ (UNCHANGED reader \/ reader'[p] = "close")
    BY <1>3, <2>2
  <2> QED
    BY <1>5, <2>1, <2>2
<1>7. PfTypeOK'
  BY <1>1, <1>2, <1>4, <1>6 DEF PfInv, PfTypeOK
<1>8. PathsMade'
  BY <1>1, <1>2 DEF PfInv, PathsMade
<1>9. PathsUnmade'
  BY <1>1, <1>4, <1>6 DEF PfInv, PathsUnmade
<1>10. SocketsHaveReaders'
  BY <1>4, <1>6 DEF PfInv, SocketsHaveReaders
<1> QED
  BY <1>7, <1>8, <1>9, <1>10 DEF PfInv

\* The reaper closes sockets and shortens the table.
LEMMA ReapStep ==
    ASSUME PfInv, Reap
    PROVE  PfInv'
<1>1. UNCHANGED <<starting, opened, server, served, inHand, pathSrc, reader, stale>>
  BY DEF Reap
<1>2. paths' \subseteq paths
  BY DEF Reap
<1>3. guestConn' \in [Path -> BOOLEAN] /\ \A q \in Path : guestConn'[q] => guestConn[q]
  BY Zenon DEF Reap
<1>4. PfTypeOK'
  BY <1>1, <1>2, <1>3 DEF PfInv, PfTypeOK
<1> QED
  BY <1>1, <1>2, <1>3, <1>4
     DEF PfInv, PathsMade, PathsUnmade, SocketsHaveReaders

\* Every step keeps the invariant.
LEMMA PfStep == PfInv /\ [PfNext]_pfVars => PfInv'
<1> SUFFICES ASSUME PfInv, [PfNext]_pfVars PROVE PfInv'
  OBVIOUS
<1>1. ASSUME NEW c \in Client, Receive(c) PROVE PfInv'
  BY <1>1, ReceiveOldStep, ReceiveNewStep DEF Receive
<1>2. CASE UNCHANGED pfVars
  BY <1>2 DEF pfVars, PfInv, PfTypeOK, PathsMade, PathsUnmade, SocketsHaveReaders
<1> QED
  BY <1>1, <1>2, StartStep, ServerStep, ReaderStep, ReapStep DEF PfNext

LEMMA PfInvHolds == PfSpec => []PfInv
<1>1. PfInit => PfInv
  BY DEF PfInit, PfInv, PfTypeOK, PathsMade, PathsUnmade, SocketsHaveReaders, Aborted
<1> QED
  BY <1>1, PfStep, PTL DEF PfSpec

-----------------------------------------------------------------------------
(* The theorems                                                             *)

\* Every variable of the port forwards keeps its type.
THEOREM PfTypeCorrect == PfSpec => []PfTypeOK
  BY PfInvHolds, PTL DEF PfInv

\* No netstack socket is left open without a goroutine that closes it.
THEOREM SocketsAreRead == PfSpec => []SocketsHaveReaders
  BY PfInvHolds, PTL DEF PfInv
=============================================================================
