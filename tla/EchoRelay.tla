----------------------------- MODULE EchoRelay -----------------------------
(***************************************************************************)
(* The ICMP echo relay of the hub (internal/nat/icmp.go).  A guest's echo  *)
(* request gets a sequence number of the relay's own, under the mutex, and *)
(* is then sent from a host socket, outside it; a reply is matched to its  *)
(* flow by that number alone.  HandleFrame runs in several goroutines at   *)
(* once: the writer of the uplink's port, and whoever forwards a frame     *)
(* inline while the switch has no peers.  The network loses, repeats,      *)
(* delays and reorders.                                                    *)
(*                                                                         *)
(* Requests are numbered in the order in which they enter the table; the   *)
(* number stands for the guest, its id, its sequence number and payload.   *)
(***************************************************************************)
EXTENDS Naturals, Sequences

CONSTANTS
    EchoCaller,     \* goroutines that call HandleFrame
    SeqSpace,       \* numbers a uint16 has: 65536 in the code
    MaxEchoes       \* bound: requests relayed

ASSUME EchoConstants == SeqSpace \in Nat \ {0} /\ MaxEchoes \in Nat

EchoSeq == 0 .. SeqSpace - 1
Echo == 1 .. MaxEchoes
NoEcho == 0

VARIABLES
    echoes,     \* requests that have entered the table
    echoSeq,    \* ICMPRelay.seq
    flows,      \* ICMPRelay.flows: the request behind every number
    sending,    \* each caller between the table and the socket: what it holds
    onWire,     \* packets sent: the relay's number, and whose payload it is
    expired,    \* requests whose flow is past its deadline
    answers     \* the payloads delivered as the answer to each request

echoVars == <<echoes, echoSeq, flows, sending, onWire, expired, answers>>

Resting == <<0, NoEcho>>

EchoInit ==
    /\ echoes = 0
    /\ echoSeq = 0
    /\ flows = [s \in EchoSeq |-> NoEcho]
    /\ sending = [c \in EchoCaller |-> Resting]
    /\ onWire = {}
    /\ expired = {}
    /\ answers = [r \in Echo |-> <<>>]

-----------------------------------------------------------------------------
(* Faulty variants of definitions below.                                    *)

\* The number is read again after the unlock.
PacketReread(c) == <<echoSeq, sending[c][2]>>

\* sweepLocked with its comparison the wrong way round.
SweptInverted(r) == IF r \in expired THEN r ELSE NoEcho

\* handleReply leaves the flow in the table.
WithoutFlowNever(s) == flows

\* The number does not wrap with the type but runs on past it.
SuccSeqUnbounded(s) == s + 1

-----------------------------------------------------------------------------
SuccSeq(s) == (s + 1) % SeqSpace

\* sweepLocked, entry by entry.
Swept(r) == IF r \in expired THEN NoEcho ELSE r

WithoutFlow(s) == [flows EXCEPT ![s] = NoEcho]

Packet(c) == sending[c]

\* HandleFrame up to its unlock: an overwritten flow is forgotten.
EchoEnters(c) ==
    /\ sending[c] = Resting
    /\ echoes < MaxEchoes
    /\ LET s == SuccSeq(echoSeq)
           r == echoes + 1
       IN  /\ echoSeq' = s
           /\ echoes' = r
           /\ flows' = [q \in EchoSeq |-> IF q = s THEN r ELSE Swept(flows[q])]
           /\ sending' = [sending EXCEPT ![c] = <<s, r>>]
    /\ UNCHANGED <<onWire, expired, answers>>

EchoSent(c) ==
    /\ sending[c] # Resting
    /\ onWire' = onWire \cup {Packet(c)}
    /\ sending' = [sending EXCEPT ![c] = Resting]
    /\ UNCHANGED <<echoes, echoSeq, flows, expired, answers>>

\* The send fails: the entry under this number is deleted, whosever it is by
\* now, and the frame goes on to netstack.
EchoSendFails(c) ==
    /\ sending[c] # Resting
    /\ flows' = WithoutFlow(sending[c][1])
    /\ sending' = [sending EXCEPT ![c] = Resting]
    /\ UNCHANGED <<echoes, echoSeq, onWire, expired, answers>>

\* icmpFlowTTL passes.
EchoExpires(s) ==
    /\ flows[s] # NoEcho
    /\ expired' = expired \cup {flows[s]}
    /\ UNCHANGED <<echoes, echoSeq, flows, sending, onWire, answers>>

\* readLoop and handleReply: the reply to any packet that was ever sent.  One
\* that finds no flow is dropped.
EchoReply(p) ==
    /\ flows[p[1]] # NoEcho
    /\ answers' = [answers EXCEPT ![flows[p[1]]] = Append(@, p[2])]
    /\ flows' = WithoutFlow(p[1])
    /\ UNCHANGED <<echoes, echoSeq, sending, onWire, expired>>

EchoNext ==
    \/ \E c \in EchoCaller : EchoEnters(c) \/ EchoSent(c) \/ EchoSendFails(c)
    \/ \E s \in EchoSeq : EchoExpires(s)
    \/ \E p \in onWire : EchoReply(p)

EchoSpec == EchoInit /\ [][EchoNext]_echoVars

-----------------------------------------------------------------------------
(* Properties                                                               *)

EchoTypeOK ==
    /\ echoes \in 0 .. MaxEchoes
    /\ echoSeq \in EchoSeq
    /\ flows \in [EchoSeq -> Echo \cup {NoEcho}]
    /\ sending \in [EchoCaller -> EchoSeq \X (Echo \cup {NoEcho})]
    /\ onWire \subseteq EchoSeq \X Echo
    /\ expired \subseteq Echo
    /\ answers \in [Echo -> Seq(Echo)]

\* Two requests share a number of the relay: a full round lies between them.
SameNumber(r, q) == r # q /\ r % SeqSpace = q % SeqSpace

\* Whatever the callers and the network do, a guest is given somebody else's
\* answer only when the relay's numbers went round in between: a reply that
\* came so late that its number serves a younger request (icmp.go:104, 156).
AnswersOwnRequest ==
    \A r \in Echo : \A k \in DOMAIN answers[r] :
        answers[r][k] = r \/ (answers[r][k] < r /\ SameNumber(answers[r][k], r))

\* A repeated reply is not passed on twice (icmp.go:158).
AnsweredOnce == \A r \in Echo : Len(answers[r]) <= 1

\* A request that was sent stays answerable until its deadline, unless the
\* numbers went round: neither a sweep, nor another caller's failed send, nor
\* another reply takes its flow away (icmp.go:106, 112, 158).
SentStaysAnswerable ==
    \A p \in onWire :
        \/ flows[p[1]] = p[2]
        \/ p[2] \in expired
        \/ answers[p[2]] # <<>>
        \/ \E q \in 1 .. echoes : SameNumber(p[2], q)
=============================================================================
