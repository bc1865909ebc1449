------------------------------- MODULE Splice -------------------------------
(***************************************************************************)
(* Two connections spliced by two copying goroutines, as the helpers do it *)
(* in three places:                                                        *)
(*   nat     tcpHandler and pump (internal/nat/nat.go): either copier      *)
(*           closes both connections when it ends;                         *)
(*   pipe    serveTCP and pipe (internal/portfwd/portfwd.go): a third      *)
(*           goroutine waits for the first copier and closes both;         *)
(*   bridge  pump (helpers/vdews/main.go): the same, and then it waits for *)
(*           the second copier too.                                        *)
(* Side "a" is the connection that was there first, "b" the one dialled    *)
(* for it.  In the bridge a is a unix socket in blocking mode wrapped in   *)
(* an os.File: closing it neither wakes a read or a write that blocks on   *)
(* it nor closes the descriptor before they return.  And b is a WebSocket, *)
(* whose Close takes the lock of a Send that is under way and itself       *)
(* writes.  (A bridge in serve mode dials the unix socket and accepts the  *)
(* other; that differs in nothing but which of them DialFails closes.)     *)
(***************************************************************************)
EXTENDS Naturals

CONSTANT MaxChunks      \* bound: chunks of data a side sends

ASSUME SpliceConstants == MaxChunks \in Nat

Side == {"a", "b"}
Other(s) == IF s = "a" THEN "b" ELSE "a"

VARIABLES
    splice,     \* nat, pipe or bridge
    owner,      \* the goroutine that accepted: dial, run, second, end
    ours,       \* our socket on each side: none, open, closed
    held,       \* copiers whose blocked call keeps a closed unix socket open
    far,        \* the far end of each side: open, half (will send no more), gone
    sent,       \* chunks the far end sent,
    unread,     \*   those that wait in our socket,
    arrived,    \*   and chunks written towards it that it gets to read
    reset,      \* sides whose TCP connection was reset by our end
    copier,     \* the goroutine that reads a side: none, read, write, report, end
    reports     \* the channel done, errc

spVars == <<splice, owner, ours, held, far, sent, unread, arrived, reset, copier, reports>>

SpInit ==
    /\ splice \in {"nat", "pipe", "bridge"}
    /\ owner = "dial"
    /\ ours = [s \in Side |-> IF s = "a" THEN "open" ELSE "none"]
    /\ held = {}
    /\ far = [s \in Side |-> "open"]
    /\ sent = [s \in Side |-> 0]
    /\ unread = [s \in Side |-> 0]
    /\ arrived = [s \in Side |-> 0]
    /\ reset = {}
    /\ copier = [s \in Side |-> "none"]
    /\ reports = 0

\* The one socket that is not TCP.
Unix(s) == splice = "bridge" /\ s = "a"

\* A reset throws away what the far end has yet to receive.
Lost(sides) == {f \in [Side -> 0 .. MaxChunks] :
                  \A s \in Side : f[s] = arrived[s] \/ (s \in sides /\ f[s] < arrived[s])}

\* Both connections are closed.  TCP resets one that is closed with data unread;
\* calls that block on the unix socket may be in progress, and go on.
CloseBoth ==
    /\ ours' = [s \in Side |-> "closed"]
    /\ reset' = reset \cup {s \in Side : ours[s] = "open" /\ unread[s] > 0 /\ ~Unix(s)}
    /\ arrived' \in Lost(reset')
    /\ held' \in SUBSET {s \in Side : (Unix(s) /\ copier[s] = "read") \/ (Unix(Other(s)) /\ copier[s] = "write")}

-----------------------------------------------------------------------------
(* Faulty variants of definitions below.                                    *)

\* The channel has no buffer: a report waits for somebody to read it.
ReportRoomUnbuffered == reports = 0 /\ owner \in {"run", "second"}

\* Nobody waits for the first report.
TearDownAtOnce ==
    /\ owner = "run" /\ splice # "nat"
    /\ CloseBoth
    /\ owner' = IF splice = "bridge" THEN "second" ELSE "end"
    /\ UNCHANGED <<splice, far, sent, unread, copier, reports>>

-----------------------------------------------------------------------------
(* Setting up                                                               *)

Dialled ==
    /\ owner = "dial"
    /\ owner' = "run"
    /\ ours' = [ours EXCEPT !["b"] = "open"]
    /\ copier' = [s \in Side |-> "read"]
    /\ UNCHANGED <<splice, held, far, sent, unread, arrived, reset, reports>>

\* The first connection is closed again.  (tcpHandler refuses it, or finds that
\* it went away during the dial and closes the second.)
DialFails ==
    /\ owner = "dial"
    /\ owner' = "end"
    /\ ours' = [ours EXCEPT !["a"] = "closed"]
    /\ UNCHANGED <<splice, held, far, sent, unread, arrived, reset, copier, reports>>

-----------------------------------------------------------------------------
(* The far ends                                                             *)

FarSends(s) ==
    /\ far[s] = "open" /\ (ours[s] = "open" \/ (Unix(s) /\ held # {})) /\ sent[s] < MaxChunks
    /\ sent' = [sent EXCEPT ![s] = @ + 1]
    /\ unread' = [unread EXCEPT ![s] = @ + 1]
    /\ UNCHANGED <<splice, owner, ours, held, far, arrived, reset, copier, reports>>

\* It sends on after we closed, and gets a reset.
FarSendsLate(s) ==
    /\ far[s] = "open" /\ ours[s] = "closed" /\ ~Unix(s) /\ sent[s] < MaxChunks
    /\ sent' = [sent EXCEPT ![s] = @ + 1]
    /\ reset' = reset \cup {s}
    /\ arrived' \in Lost({s})
    /\ UNCHANGED <<splice, owner, ours, held, far, unread, copier, reports>>

FarStops(s) ==
    /\ \/ far[s] = "open" /\ far' = [far EXCEPT ![s] = "half"]
       \/ far[s] # "gone" /\ far' = [far EXCEPT ![s] = "gone"]
    /\ UNCHANGED <<splice, owner, ours, held, sent, unread, arrived, reset, copier, reports>>

-----------------------------------------------------------------------------
(* Copying                                                                  *)

\* A call on our socket finds it open, or began before the close.
Usable(c, s) == ours[s] = "open" \/ c \in held

CopyReads(s) ==
    /\ copier[s] = "read" /\ Usable(s, s) /\ unread[s] > 0
    /\ unread' = [unread EXCEPT ![s] = @ - 1]
    /\ copier' = [copier EXCEPT ![s] = "write"]
    /\ held' = held \ {s}
    /\ UNCHANGED <<splice, owner, ours, far, sent, arrived, reset, reports>>

\* The write goes through.  It may never: a far end that does not read blocks it.
CopyWrites(s) ==
    /\ copier[s] = "write" /\ Usable(s, Other(s)) /\ far[Other(s)] # "gone"
    /\ arrived' = [arrived EXCEPT ![Other(s)] = @ + 1]
    /\ copier' = [copier EXCEPT ![s] = "read"]
    /\ held' = held \ {s}
    /\ UNCHANGED <<splice, owner, ours, far, sent, unread, reset, reports>>

\* A copier returns: pump calls done, the others report on a channel.
Returns(s) ==
    /\ IF splice = "nat"
       THEN /\ copier' = [copier EXCEPT ![s] = "end"]
            /\ CloseBoth
       ELSE /\ copier' = [copier EXCEPT ![s] = "report"]
            /\ held' = held \ {s}
            /\ UNCHANGED <<ours, reset, arrived>>
    /\ UNCHANGED <<splice, owner, far, sent, unread, reports>>

\* End of file comes after the data.
Exhausted(s) == far[s] # "open" /\ unread[s] = 0

\* The read fails: end of file, a reset, or our own socket closed under it.
CopyReadFails(s) ==
    /\ copier[s] = "read"
    /\ Exhausted(s) \/ far[s] = "gone" \/ ~Usable(s, s)
    /\ Returns(s)

CopyWriteFails(s) ==
    /\ copier[s] = "write"
    /\ far[Other(s)] = "gone" \/ ~Usable(s, Other(s))
    /\ Returns(s)

\* A send on a channel with room for two never blocks.
ReportRoom == reports < 2

Report(s) ==
    /\ copier[s] = "report"
    /\ ReportRoom
    /\ reports' = reports + 1
    /\ copier' = [copier EXCEPT ![s] = "end"]
    /\ UNCHANGED <<splice, owner, ours, held, far, sent, unread, arrived, reset>>

\* The first report: both connections are closed, the bridge's WebSocket not
\* before a Send on it has returned.
TearDown ==
    /\ owner = "run" /\ reports > 0
    /\ splice = "bridge" => copier["a"] # "write"
    /\ reports' = reports - 1
    /\ CloseBoth
    /\ owner' = IF splice = "bridge" THEN "second" ELSE "end"
    /\ UNCHANGED <<splice, far, sent, unread, copier>>

SecondReport ==
    /\ owner = "second" /\ reports > 0
    /\ reports' = reports - 1
    /\ owner' = "end"
    /\ UNCHANGED <<splice, ours, held, far, sent, unread, arrived, reset, copier>>

SpNext ==
    \/ Dialled \/ DialFails \/ TearDown \/ SecondReport
    \/ \E s \in Side :
          \/ FarSends(s) \/ FarSendsLate(s) \/ FarStops(s)
          \/ CopyReads(s) \/ CopyWrites(s) \/ CopyReadFails(s) \/ CopyWriteFails(s) \/ Report(s)

\* Goroutines run.  Nothing is assumed of the far ends: a write may block for
\* ever, and so may the close frame that the bridge writes to a far end that is
\* still there.
SpFairness ==
    /\ WF_spVars(TearDown /\ (splice = "bridge" => far["b"] = "gone")) /\ WF_spVars(SecondReport)
    /\ \A s \in Side : /\ WF_spVars(CopyReads(s)) /\ WF_spVars(CopyReadFails(s))
                       /\ WF_spVars(CopyWriteFails(s)) /\ WF_spVars(Report(s))

SpSpec == SpInit /\ [][SpNext]_spVars /\ SpFairness

-----------------------------------------------------------------------------
(* Properties                                                               *)

SpTypeOK ==
    /\ splice \in {"nat", "pipe", "bridge"}
    /\ owner \in {"dial", "run", "second", "end"}
    /\ ours \in [Side -> {"none", "open", "closed"}]
    /\ held \subseteq Side
    /\ far \in [Side -> {"open", "half", "gone"}]
    /\ sent \in [Side -> 0 .. MaxChunks]
    /\ unread \in [Side -> 0 .. MaxChunks]
    /\ arrived \in [Side -> 0 .. MaxChunks]
    /\ reset \subseteq Side
    /\ copier \in [Side -> {"none", "read", "write", "report", "end"}]
    /\ reports \in 0 .. 2

\* A side that finishes sending, and whose partner neither finishes nor goes
\* away, has everything it sent delivered when the pair is torn down - provided
\* the partner was not sending at that moment, which would reset its connection.
\* (The answer it may still be waiting for is cut off: either end closes both.)
FirstToEndIsHeard ==
    \A s \in Side :
        (/\ far[s] = "half" /\ far[Other(s)] = "open" /\ owner # "dial"
         /\ ours[Other(s)] = "closed" /\ Other(s) \notin reset)
            => arrived[Other(s)] = sent[s]

\* First failure tears the pair down (nat.go:274, portfwd.go:125): once a copier
\* has ended, both sockets get closed and every goroutine ends, though the far
\* ends neither read nor send.  Of the bridge, where vdews/main.go:76 says so
\* too, this holds only once both its far ends have gone: until then a call on
\* the unix socket, or the WebSocket's Close, may hold it up.
TornDown ==
    (/\ \E s \in Side : copier[s] \in {"report", "end"}
     /\ splice = "bridge" => \A s \in Side : far[s] = "gone")
        ~> /\ \A s \in Side : ours[s] = "closed" /\ copier[s] = "end"
           /\ splice # "nat" => owner = "end"
=============================================================================
