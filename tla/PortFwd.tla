------------------------------ MODULE PortFwd ------------------------------
(***************************************************************************)
(* Port forwards (internal/portfwd): Start opens one host listener per     *)
(* rule, in order, and closes them all again when one cannot be opened.    *)
(* The first rule here is a UDP rule, and its serveUDP is modelled whole:  *)
(* the loop that reads the host socket, the paths it makes (one netstack   *)
(* socket per client), the goroutine that reads each path, and the reaper. *)
(* The other rules only open and close.                                    *)
(*                                                                         *)
(* Time is abstract: a path's time stamp may grow old and a read deadline  *)
(* may pass at any moment.                                                 *)
(***************************************************************************)
EXTENDS Naturals

CONSTANTS
    RuleCount,          \* rules in config.yaml
    Client,             \* remote senders
    NoClient,           \* nobody
    MaxClientDatagrams  \* bound: datagrams the clients send

ASSUME PortFwdConstants ==
    /\ RuleCount \in Nat \ {0}
    /\ NoClient \notin Client
    /\ MaxClientDatagrams \in Nat

Path == 1 .. MaxClientDatagrams     \* a datagram makes at most one path
NoPath == 0
Aborted == RuleCount + 2            \* Start returned an error

VARIABLES
    starting,       \* Start: the rule it is at, or how it ended
    opened,         \* the rules whose listener is open
    server,         \* the loop of serveUDP: off, read, write, gone
    served,         \* datagrams it has read
    inHand,         \* the path it is about to write to
    paths,          \* serveUDP's table
    pathSrc,        \* the client of a path
    guestConn,      \* whether a path's netstack socket is open
    reader,         \* a path's goroutine: none, read, close, gone
    stale           \* paths whose last datagram is 30 seconds old

pfVars == <<starting, opened, server, served, inHand, paths, pathSrc, guestConn, reader, stale>>
table == <<paths, pathSrc, guestConn, reader, stale>>

PfInit ==
    /\ starting = 1
    /\ opened = {}
    /\ server = "off"
    /\ served = 0
    /\ inHand = NoPath
    /\ paths = {}
    /\ pathSrc = [p \in Path |-> NoClient]
    /\ guestConn = [p \in Path |-> FALSE]
    /\ reader = [p \in Path |-> "none"]
    /\ stale = {}

Close(p) == guestConn' = [guestConn EXCEPT ![p] = FALSE]

-----------------------------------------------------------------------------
(* Faulty variants of definitions below.                                    *)

\* The reader leaves its socket open when the client cannot be reached.
ReplyLostLeaks(p) == UNCHANGED guestConn

-----------------------------------------------------------------------------
(* Start                                                                    *)

OpenRule ==
    /\ starting \in 1 .. RuleCount
    /\ opened' = opened \cup {starting}
    /\ starting' = starting + 1
    /\ server' = IF starting = 1 THEN "read" ELSE server
    /\ UNCHANGED <<served, inHand, table>>

\* abort: a bad guest address, or a port that is taken.
RuleFails ==
    /\ starting \in 1 .. RuleCount
    /\ starting' = Aborted
    /\ opened' = {}
    /\ UNCHANGED <<server, served, inHand, table>>

-----------------------------------------------------------------------------
(* The loop of serveUDP                                                     *)

PathsOf(c) == {p \in paths : pathSrc[p] = c}

\* A datagram of a client that has a path already,
ReceiveKnown(c) ==
    /\ \E p \in PathsOf(c) :
          /\ inHand' = p
          /\ stale' = stale \ {p}
    /\ server' = "write"
    /\ UNCHANGED <<paths, pathSrc, guestConn, reader>>

\* of one that has none and gets one,
ReceiveNew(c) ==
    /\ PathsOf(c) = {}
    /\ LET p == served + 1
       IN  /\ inHand' = p
           /\ paths' = paths \cup {p}
           /\ pathSrc' = [pathSrc EXCEPT ![p] = c]
           /\ guestConn' = [guestConn EXCEPT ![p] = TRUE]
           /\ reader' = [reader EXCEPT ![p] = "read"]
    /\ server' = "write"
    /\ UNCHANGED stale

\* or of one that gets none because no socket could be made.
ReceiveDropped(c) ==
    /\ PathsOf(c) = {}
    /\ UNCHANGED <<server, inHand, table>>

Receive(c) ==
    /\ server = "read" /\ 1 \in opened
    /\ served < MaxClientDatagrams
    /\ served' = served + 1
    /\ ReceiveKnown(c) \/ ReceiveNew(c) \/ ReceiveDropped(c)
    /\ UNCHANGED <<starting, opened>>

\* guest.Write, outside the mutex: it works on an open socket, and closes the
\* socket when it does not.  The path stays in the table.
WriteGuest ==
    /\ server = "write"
    /\ server' = "read"
    /\ inHand' = NoPath
    /\ (guestConn[inHand] /\ UNCHANGED guestConn) \/ Close(inHand)
    /\ UNCHANGED <<starting, opened, served, paths, pathSrc, reader, stale>>

\* The host socket was closed by abort: the loop and the reaper end.
ServerEnds ==
    /\ server = "read" /\ 1 \notin opened
    /\ server' = "gone"
    /\ UNCHANGED <<starting, opened, served, inHand, table>>

-----------------------------------------------------------------------------
(* The reader of a path and the reaper                                      *)

ReplyLost(p) == Close(p)

\* A datagram of the guest cannot be passed on to the client: the socket is
\* closed, the reader gone, and the path still in the table.  (One that can be
\* passed on changes nothing here.)
ReplyFails(p) ==
    /\ reader[p] = "read" /\ guestConn[p]
    /\ reader' = [reader EXCEPT ![p] = "gone"]
    /\ ReplyLost(p)
    /\ UNCHANGED <<starting, opened, server, served, inHand, paths, pathSrc, stale>>

\* gconn.Read fails: the reader takes its path out of the table, and then closes
\* the socket.
ReaderUnlists(p) ==
    /\ reader[p] = "read"
    /\ reader' = [reader EXCEPT ![p] = "close"]
    /\ paths' = paths \ {p}
    /\ UNCHANGED <<starting, opened, server, served, inHand, pathSrc, guestConn, stale>>

\* It fails because somebody closed the socket, or because the guest was silent
\* for 30 seconds: every datagram of the guest renews the deadline.
ReadFails(p)    == ~guestConn[p] /\ ReaderUnlists(p)
ReadTimesOut(p) == guestConn[p] /\ ReaderUnlists(p)

ReaderCloses(p) ==
    /\ reader[p] = "close"
    /\ reader' = [reader EXCEPT ![p] = "gone"]
    /\ Close(p)
    /\ UNCHANGED <<starting, opened, server, served, inHand, paths, pathSrc, stale>>

GrowsStale(p) ==
    /\ p \in paths \ stale
    /\ stale' = stale \cup {p}
    /\ UNCHANGED <<starting, opened, server, served, inHand, paths, pathSrc, guestConn, reader>>

Reaped == paths \cap stale

\* Faulty: the reaper takes idle paths out of the table and leaves their
\* sockets to the readers.
ReapKeepsSockets ==
    /\ server \in {"read", "write"}
    /\ Reaped # {}
    /\ paths' = paths \ Reaped
    /\ UNCHANGED <<starting, opened, server, served, inHand, pathSrc, guestConn, reader, stale>>

\* One tick of the reaper, as long as the loop runs.
Reap ==
    /\ server \in {"read", "write"}
    /\ Reaped # {}
    /\ guestConn' = [p \in Path |-> p \notin Reaped /\ guestConn[p]]
    /\ paths' = paths \ Reaped
    /\ UNCHANGED <<starting, opened, server, served, inHand, pathSrc, reader, stale>>

PathStep(p) ==
    ReplyFails(p) \/ ReadFails(p) \/ ReadTimesOut(p) \/ ReaderCloses(p) \/ GrowsStale(p)

PfNext ==
    \/ OpenRule \/ RuleFails
    \/ \E c \in Client : Receive(c)
    \/ WriteGuest \/ ServerEnds \/ Reap
    \/ \E p \in Path : PathStep(p)

\* Goroutines run, time stamps grow old, the ticker ticks.  A guest may keep a
\* path's reader busy for as long as its datagrams reach the client; once the
\* host socket is closed none does, and a read that returns, with a datagram or
\* at its deadline, is the reader's last.  Nothing is assumed of clients.
PfFairness ==
    /\ WF_pfVars(WriteGuest) /\ WF_pfVars(ServerEnds) /\ WF_pfVars(Reap)
    /\ \A p \in Path :
          /\ WF_pfVars(ReadFails(p))
          /\ WF_pfVars(1 \notin opened /\ (ReadTimesOut(p) \/ ReplyFails(p)))
          /\ WF_pfVars(ReaderCloses(p))
          /\ WF_pfVars(GrowsStale(p))

PfSpec == PfInit /\ [][PfNext]_pfVars /\ PfFairness

-----------------------------------------------------------------------------
(* Properties                                                               *)

PfTypeOK ==
    /\ starting \in 1 .. Aborted
    /\ opened \subseteq 1 .. RuleCount
    /\ server \in {"off", "read", "write", "gone"}
    /\ served \in 0 .. MaxClientDatagrams
    /\ inHand \in Path \cup {NoPath}
    /\ paths \subseteq Path
    /\ pathSrc \in [Path -> Client \cup {NoClient}]
    /\ guestConn \in [Path -> BOOLEAN]
    /\ reader \in [Path -> {"none", "read", "close", "gone"}]
    /\ stale \subseteq Path

\* An open socket has a goroutine that will close it; a path that lost its
\* reader, and so has a closed socket, waits for the reaper (portfwd.go:235-237).
SocketsHaveReaders ==
    \A p \in Path : guestConn[p] => reader[p] \in {"read", "close"}

\* Once its clients are silent a server keeps nothing, however much the guest
\* has to say: the reaper closes the sockets of idle paths and that ends their
\* readers (portfwd.go:141, 157-182, 221-232).  The table is empty, that of a
\* client that was cut off by a failing reply too, unless Start gave up and the
\* loop is gone; after an abort no loop and no reader stays behind
\* (portfwd.go:40-45).
PathsDie ==
    <>[](/\ \A p \in Path : ~guestConn[p] /\ reader[p] \in {"none", "gone"}
         /\ server # "gone" => paths = {}
         /\ starting = Aborted => server \in {"off", "gone"})
=============================================================================
