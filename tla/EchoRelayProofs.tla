-------------------------- MODULE EchoRelayProofs --------------------------
(***************************************************************************)
(* Proofs about the echo relay (EchoRelay), for every number of callers,   *)
(* every size of the number space and every number of requests.            *)
(*                                                                         *)
(* What makes the properties hold is that the relay's number is the        *)
(* request's own, modulo the size of the number space (Numbered), that the *)
(* table holds the youngest request of a number (FlowsYoungest), and that  *)
(* a request is held by one caller or is on the wire, never both (HeldOnce *)
(* - without it a failed send could take the flow of a packet that left).  *)
(***************************************************************************)
EXTENDS EchoRelay, Integers, TLAPS

USE EchoConstants

\* The relay's number of a request.
Num(r) == r % SeqSpace

\* A caller between the table and the socket.
Busy(c) == sending[c] # Resting

\* The number that is sent belongs to the request that is sent.
Numbered ==
    /\ echoSeq = Num(echoes)
    /\ \A c \in EchoCaller :
          Busy(c) => sending[c][2] \in 1 .. echoes /\ sending[c][1] = Num(sending[c][2])
    /\ \A p \in onWire : p[2] \in 1 .. echoes /\ p[1] = Num(p[2])

\* A request is held by one caller, or is on the wire.
HeldOnce ==
    \A c \in EchoCaller : Busy(c) =>
        /\ \A d \in EchoCaller \ {c} : sending[d][2] # sending[c][2]
        /\ \A p \in onWire : p[2] # sending[c][2]

\* A flow is the youngest request with its number.
FlowsYoungest ==
    \A s \in EchoSeq : flows[s] # NoEcho =>
        /\ flows[s] \in 1 .. echoes /\ Num(flows[s]) = s
        /\ \A q \in 1 .. echoes : Num(q) = s => q <= flows[s]

\* A request that has a flow has no answer, nor has one that is still to come.
FlowsUnanswered ==
    /\ \A s \in EchoSeq : flows[s] # NoEcho => answers[flows[s]] = <<>>
    /\ \A r \in Echo : r > echoes => answers[r] = <<>>

\* What SentStaysAnswerable says of a packet on the wire; here also of one that
\* is about to be sent.
Answerable(p) ==
    \/ flows[p[1]] = p[2]
    \/ p[2] \in expired
    \/ answers[p[2]] # <<>>
    \/ \E q \in 1 .. echoes : SameNumber(p[2], q)

IssuedAnswerable ==
    /\ \A p \in onWire : Answerable(p)
    /\ \A c \in EchoCaller : Busy(c) => Answerable(sending[c])

EchoInv ==
    /\ EchoTypeOK /\ Numbered /\ HeldOnce /\ FlowsYoungest /\ FlowsUnanswered
    /\ IssuedAnswerable /\ AnswersOwnRequest /\ AnsweredOnce

-----------------------------------------------------------------------------
(* The relay's numbers                                                      *)

\* A remainder is a number of the relay,
LEMMA NumType == ASSUME NEW n \in Nat PROVE Num(n) \in EchoSeq
  BY DEF Num, EchoSeq

\* and there is only one.
LEMMA OneRemainder ==
    ASSUME NEW p \in Int, NEW q \in Int, NEW a \in EchoSeq, NEW b \in EchoSeq,
           SeqSpace * p + a = SeqSpace * q + b
    PROVE  a = b
<1> USE DEF EchoSeq
<1>1. CASE p = q
  BY <1>1
<1>2. CASE p >= q + 1
  <2>1. SeqSpace * p >= SeqSpace * (q + 1)
    BY <1>2
  <2> QED
    BY <2>1
<1>3. CASE q >= p + 1
  <2>1. SeqSpace * q >= SeqSpace * (p + 1)
    BY <1>3
  <2> QED
    BY <2>1
<1> QED
  BY <1>1, <1>2, <1>3

\* A natural number from its quotient and its remainder.
LEMMA Division ==
    ASSUME NEW n \in Nat
    PROVE  n \div SeqSpace \in Int /\ n = SeqSpace * (n \div SeqSpace) + Num(n)
  BY DEF Num

\* SuccSeq gives the number of the next request.
LEMMA NumSucc == ASSUME NEW n \in Nat PROVE SuccSeq(Num(n)) = Num(n + 1)
<1> DEFINE m == Num(n) + 1
<1>1. Num(n) \in EchoSeq /\ m \in Nat /\ m = Num(n) + 1
  BY NumType DEF EchoSeq
<1> HIDE DEF m
<1> DEFINE u == n \div SeqSpace
           v == m \div SeqSpace
           w == (n + 1) \div SeqSpace
<1>2. u \in Int /\ v \in Int /\ w \in Int /\ u + v \in Int
  BY <1>1, Division
<1>3. Num(m) \in EchoSeq /\ Num(n + 1) \in EchoSeq
  BY <1>1, NumType
<1>4. /\ n = SeqSpace * u + Num(n)
      /\ m = SeqSpace * v + Num(m)
      /\ n + 1 = SeqSpace * w + Num(n + 1)
  BY <1>1, Division
<1> HIDE DEF u, v, w
<1>5. SeqSpace * (u + v) = SeqSpace * u + SeqSpace * v
  BY <1>2
<1>6. SeqSpace * u \in Int /\ SeqSpace * v \in Int /\ SeqSpace * w \in Int
  BY <1>2
<1>7. SeqSpace * (u + v) + Num(m) = SeqSpace * w + Num(n + 1)
  BY <1>1, <1>3, <1>4, <1>5, <1>6 DEF EchoSeq
<1>8. Num(m) = Num(n + 1)
  BY <1>2, <1>3, <1>7, OneRemainder
<1> QED
  BY <1>1, <1>8 DEF SuccSeq, Num

LEMMA NumZero == Num(0) = 0
  BY DEF Num

-----------------------------------------------------------------------------
(* Steps                                                                    *)

\* The parts of a pair that is sent.
LEMMA PacketType ==
    ASSUME EchoTypeOK
    PROVE  /\ \A p \in onWire : p[1] \in EchoSeq /\ p[2] \in Echo
           /\ \A c \in EchoCaller : sending[c][1] \in EchoSeq /\ sending[c][2] \in Echo \cup {NoEcho}
  BY DEF EchoTypeOK

\* A request enters the table.
LEMMA EchoEntersStep ==
    ASSUME EchoInv, NEW c \in EchoCaller, EchoEnters(c)
    PROVE  EchoInv'
<1> DEFINE r == echoes + 1
           s == Num(r)
<1>1. echoes \in Nat /\ r \in Echo /\ s \in EchoSeq /\ r \in Nat
  BY NumType DEF EchoInv, EchoTypeOK, EchoEnters, Echo
<1>2. /\ echoSeq' = s
      /\ echoes' = r
      /\ flows' = [q \in EchoSeq |-> IF q = s THEN r ELSE Swept(flows[q])]
      /\ sending' = [sending EXCEPT ![c] = <<s, r>>]
      /\ UNCHANGED <<onWire, expired, answers>>
  BY <1>1, NumSucc DEF EchoInv, Numbered, EchoEnters
<1> HIDE DEF s
<1>s. s = Num(r)
  BY DEF s
<1> HIDE DEF r
<1>r. r = echoes + 1
  BY DEF r
<1>3. EchoTypeOK'
  <2>1. flows' \in [EchoSeq -> Echo \cup {NoEcho}]
    BY <1>1, <1>2 DEF EchoInv, EchoTypeOK, Swept
  <2>2. sending' \in [EchoCaller -> EchoSeq \X (Echo \cup {NoEcho})]
    BY <1>1, <1>2 DEF EchoInv, EchoTypeOK
  <2>3. echoes' \in 0 .. MaxEchoes
    BY <1>1, <1>2 DEF Echo
  <2> QED
    BY <1>1, <1>2, <2>1, <2>2, <2>3 DEF EchoInv, EchoTypeOK
<1>4. \A d \in EchoCaller : sending'[d] = IF d = c THEN <<s, r>> ELSE sending[d]
  BY <1>2 DEF EchoInv, EchoTypeOK
<1>5. <<s, r>> # Resting /\ <<s, r>>[1] = s /\ <<s, r>>[2] = r
  BY <1>1, <1>r DEF Resting, NoEcho
<1>6. Numbered'
  BY <1>1, <1>2, <1>4, <1>5, <1>s, <1>r DEF EchoInv, Numbered, Busy
<1>7. HeldOnce'
  <2>1. \A d \in EchoCaller : sending[d][2] # r
    BY <1>1, <1>r DEF EchoInv, Numbered, Busy, Resting, NoEcho
  <2>2. \A p \in onWire : p[2] # r
    BY <1>1, <1>r DEF EchoInv, Numbered
  <2> QED
    BY <1>2, <1>4, <1>5, <2>1, <2>2 DEF EchoInv, HeldOnce, Busy
<1>8. \A q \in EchoSeq : flows'[q] = IF q = s THEN r ELSE Swept(flows[q])
  BY <1>2
<1>9. FlowsYoungest'
  BY <1>1, <1>2, <1>8, <1>s, <1>r DEF EchoInv, FlowsYoungest, Swept
<1>10. FlowsUnanswered'
  BY <1>1, <1>2, <1>8, <1>r DEF EchoInv, FlowsUnanswered, Swept
<1>11. ASSUME NEW p, p[1] \in EchoSeq, p[2] \in 1 .. echoes, p[1] = Num(p[2]), Answerable(p)
       PROVE  Answerable(p)'
  <2>1. CASE flows[p[1]] = p[2]
    <3>1. CASE p[1] = s
      <4>1. SameNumber(p[2], r)
        BY <1>1, <1>11, <1>s, <1>r, <3>1 DEF SameNumber, Num
      <4>2. r \in 1 .. echoes'
        BY <1>1, <1>2, <1>r
      <4> QED
        BY <4>1, <4>2 DEF Answerable, SameNumber
    <3>2. CASE p[1] # s
      BY <1>2, <1>8, <1>11, <2>1, <3>2 DEF Answerable, Swept
    <3> QED
      BY <3>1, <3>2
  <2>2. CASE p[2] \in expired \/ answers[p[2]] # <<>>
    BY <1>2, <2>2 DEF Answerable
  <2>3. CASE \E q \in 1 .. echoes : SameNumber(p[2], q)
    <3>1. \A q \in 1 .. echoes : q \in 1 .. echoes'
      BY <1>1, <1>2, <1>r
    <3> QED
      BY <2>3, <3>1 DEF Answerable, SameNumber
  <2> QED
    BY <1>11, <2>1, <2>2, <2>3 DEF Answerable
<1>12. IssuedAnswerable'
  <2>1. \A p \in onWire' : Answerable(p)'
    BY <1>2, <1>11, PacketType DEF EchoInv, Numbered, IssuedAnswerable
  <2>2. ASSUME NEW d \in EchoCaller, Busy(d)' PROVE Answerable(sending[d])'
    <3>1. CASE d = c
      BY <1>1, <1>4, <1>5, <1>8, <3>1 DEF Answerable
    <3>2. CASE d # c
      <4>1. sending'[d] = sending[d] /\ Busy(d)
        BY <1>4, <2>2, <3>2 DEF Busy
      <4> QED
        BY <1>11, <4>1, PacketType DEF EchoInv, Numbered, IssuedAnswerable
    <3> QED
      BY <3>1, <3>2
  <2> QED
    BY <2>1, <2>2 DEF IssuedAnswerable
<1>13. AnswersOwnRequest' /\ AnsweredOnce'
  BY <1>2 DEF EchoInv, AnswersOwnRequest, AnsweredOnce, SameNumber
<1> QED
  BY <1>3, <1>6, <1>7, <1>9, <1>10, <1>12, <1>13 DEF EchoInv

\* A packet leaves.
LEMMA EchoSentStep ==
    ASSUME EchoInv, NEW c \in EchoCaller, EchoSent(c)
    PROVE  EchoInv'
<1>1. /\ onWire' = onWire \cup {sending[c]}
      /\ \A d \in EchoCaller : sending'[d] = IF d = c THEN Resting ELSE sending[d]
      /\ UNCHANGED <<echoes, echoSeq, flows, expired, answers>>
      /\ Busy(c)
  BY DEF EchoInv, EchoTypeOK, EchoSent, Packet, Busy
<1>2. EchoTypeOK'
  <2>1. sending[c] \in EchoSeq \X Echo
    BY <1>1 DEF EchoInv, EchoTypeOK, Numbered, NoEcho, Echo
  <2>2. sending' \in [EchoCaller -> EchoSeq \X (Echo \cup {NoEcho})]
    BY DEF EchoInv, EchoTypeOK, EchoSent, Resting, EchoSeq
  <2> QED
    BY <1>1, <2>1, <2>2 DEF EchoInv, EchoTypeOK
<1>3. Numbered'
  BY <1>1 DEF EchoInv, Numbered, Busy
<1>4. HeldOnce'
  <2>1. Resting[2] = NoEcho
    BY DEF Resting
  <2>2. \A d \in EchoCaller : Busy(d) => sending[d][2] # NoEcho
    BY DEF EchoInv, Numbered, NoEcho
  <2> QED
    BY <1>1, <2>1, <2>2 DEF EchoInv, HeldOnce, Busy
<1>5. FlowsYoungest' /\ FlowsUnanswered' /\ AnswersOwnRequest' /\ AnsweredOnce'
  BY <1>1 DEF EchoInv, FlowsYoungest, FlowsUnanswered, AnswersOwnRequest, AnsweredOnce, SameNumber
<1>6. IssuedAnswerable'
  <2>1. ASSUME NEW x, Answerable(x) PROVE Answerable(x)'
    BY <1>1, <2>1 DEF Answerable, SameNumber
  <2>2. \A p \in onWire' : Answerable(p)
    BY <1>1 DEF EchoInv, IssuedAnswerable
  <2>3. ASSUME NEW d \in EchoCaller, Busy(d)' PROVE sending'[d] = sending[d] /\ Answerable(sending[d])
    BY <1>1, <2>3 DEF EchoInv, IssuedAnswerable, Busy
  <2>4. ASSUME NEW d \in EchoCaller, Busy(d)' PROVE Answerable(sending[d])'
    <3>1. Answerable(sending[d]) /\ sending'[d] = sending[d]
      BY <2>3, <2>4
    <3> QED
      BY <1>1, <3>1 DEF Answerable, SameNumber
  <2> QED
    BY <2>1, <2>2, <2>4 DEF IssuedAnswerable
<1> QED
  BY <1>2, <1>3, <1>4, <1>5, <1>6 DEF EchoInv

\* A flow is taken out of the table because its send failed: whoever else was
\* answerable under this number stays so, for there are two of them now.
LEMMA EchoSendFailsStep ==
    ASSUME EchoInv, NEW c \in EchoCaller, EchoSendFails(c)
    PROVE  EchoInv'
<1> DEFINE x == sending[c]
<1>1. /\ \A d \in EchoCaller : sending'[d] = IF d = c THEN Resting ELSE sending[d]
      /\ \A s \in EchoSeq : flows'[s] = IF s = x[1] THEN NoEcho ELSE flows[s]
      /\ UNCHANGED <<echoes, echoSeq, onWire, expired, answers>>
      /\ Busy(c)
  BY DEF EchoInv, EchoTypeOK, EchoSendFails, WithoutFlow, Busy
<1>2. x[2] \in 1 .. echoes /\ x[1] = Num(x[2]) /\ x[1] \in EchoSeq
  BY <1>1, PacketType DEF EchoInv, Numbered
<1>3. EchoTypeOK'
  <2>1. sending' \in [EchoCaller -> EchoSeq \X (Echo \cup {NoEcho})]
    BY DEF EchoInv, EchoTypeOK, EchoSendFails, Resting, EchoSeq
  <2> QED
    BY <1>1, <2>1 DEF EchoInv, EchoTypeOK, EchoSendFails, WithoutFlow
<1> HIDE DEF x
<1>4. Numbered'
  BY <1>1 DEF EchoInv, Numbered, Busy
<1>5. HeldOnce'
  <2>1. Resting[2] = NoEcho
    BY DEF Resting
  <2>2. \A d \in EchoCaller : Busy(d) => sending[d][2] # NoEcho
    BY DEF EchoInv, Numbered, NoEcho
  <2> QED
    BY <1>1, <2>1, <2>2 DEF EchoInv, HeldOnce, Busy
<1>6. FlowsYoungest' /\ FlowsUnanswered' /\ AnswersOwnRequest' /\ AnsweredOnce'
  BY <1>1 DEF EchoInv, FlowsYoungest, FlowsUnanswered, AnswersOwnRequest, AnsweredOnce, SameNumber
<1>7. ASSUME NEW p, p[1] \in EchoSeq, p[2] \in 1 .. echoes, p[1] = Num(p[2]), Answerable(p),
             p[2] # x[2]
      PROVE  Answerable(p)'
  <2>1. CASE p[1] = x[1]
    <3>1. SameNumber(p[2], x[2])
      BY <1>2, <1>7, <2>1 DEF SameNumber, Num
    <3> QED
      BY <1>1, <1>2, <3>1 DEF Answerable, SameNumber
  <2>2. CASE p[1] # x[1]
    BY <1>1, <1>7, <2>2 DEF Answerable, SameNumber
  <2> QED
    BY <2>1, <2>2
<1>8. IssuedAnswerable'
  <2>1. \A p \in onWire' : Answerable(p)'
    BY <1>1, <1>7, PacketType DEF EchoInv, Numbered, HeldOnce, IssuedAnswerable, x
  <2>2. ASSUME NEW d \in EchoCaller, Busy(d)' PROVE Answerable(sending[d])'
    <3>1. d # c /\ sending'[d] = sending[d] /\ Busy(d)
      BY <1>1, <2>2 DEF Busy
    <3> QED
      BY <1>1, <1>7, <3>1, PacketType DEF EchoInv, Numbered, HeldOnce, IssuedAnswerable, x
  <2> QED
    BY <2>1, <2>2 DEF IssuedAnswerable
<1> QED
  BY <1>3, <1>4, <1>5, <1>6, <1>8 DEF EchoInv

\* A reply finds its flow.
LEMMA EchoReplyStep ==
    ASSUME EchoInv, NEW p \in onWire, EchoReply(p)
    PROVE  EchoInv'
<1> DEFINE r == flows[p[1]]
<1>1. p[1] \in EchoSeq /\ p[2] \in Echo /\ p[2] \in 1 .. echoes /\ p[1] = Num(p[2])
  BY PacketType DEF EchoInv, Numbered
<1>2. /\ r \in Echo /\ r \in 1 .. echoes /\ Num(r) = p[1] /\ p[2] <= r /\ answers[r] = <<>>
      /\ p[2] \in Nat /\ r \in Nat
  BY <1>1 DEF EchoInv, EchoTypeOK, FlowsYoungest, FlowsUnanswered, EchoReply, Echo
<1>3. /\ answers' = [answers EXCEPT ![r] = Append(@, p[2])]
      /\ \A s \in EchoSeq : flows'[s] = IF s = p[1] THEN NoEcho ELSE flows[s]
      /\ flows' \in [EchoSeq -> Echo \cup {NoEcho}]
      /\ UNCHANGED <<echoes, echoSeq, sending, onWire, expired>>
  BY DEF EchoInv, EchoTypeOK, EchoReply, WithoutFlow
<1>4. answers \in [Echo -> Seq(Echo)] /\ echoes \in Nat
  BY DEF EchoInv, EchoTypeOK
<1> HIDE DEF r
<1>5. \A q \in Echo : answers'[q] = IF q = r THEN <<p[2]>> ELSE answers[q]
  BY <1>2, <1>3, <1>4
<1>6. EchoTypeOK'
  <2>1. answers' \in [Echo -> Seq(Echo)]
    BY <1>1, <1>2, <1>3, <1>4
  <2> QED
    BY <1>3, <2>1 DEF EchoInv, EchoTypeOK
<1>7. Numbered' /\ HeldOnce'
  BY <1>3 DEF EchoInv, Numbered, HeldOnce, Busy
<1>8. FlowsYoungest'
  BY <1>3 DEF EchoInv, FlowsYoungest
<1>9. FlowsUnanswered'
  <2>1. \A s \in EchoSeq : flows'[s] # NoEcho => flows'[s] = flows[s] /\ flows[s] \in Echo /\ flows[s] # r
    BY <1>2, <1>3 DEF EchoInv, EchoTypeOK, FlowsYoungest
  <2> QED
    BY <1>2, <1>3, <1>4, <1>5, <2>1 DEF EchoInv, FlowsUnanswered
<1>10. ASSUME NEW x, x[1] \in EchoSeq, x[2] \in Echo, x[1] = Num(x[2]), Answerable(x)
       PROVE  Answerable(x)'
  <2>1. <<p[2]>> # <<>>
    OBVIOUS
  <2>2. CASE x[2] = r
    BY <1>5, <1>10, <2>1, <2>2 DEF Answerable
  <2>3. CASE x[2] # r /\ x[1] = p[1]
    BY <1>3, <1>5, <1>10, <2>3 DEF Answerable, SameNumber, r
  <2>4. CASE x[2] # r /\ x[1] # p[1]
    BY <1>3, <1>5, <1>10, <2>4 DEF Answerable, SameNumber
  <2> QED
    BY <2>2, <2>3, <2>4
<1>11. IssuedAnswerable'
  BY <1>3, <1>10, PacketType DEF EchoInv, EchoTypeOK, Numbered, IssuedAnswerable, Busy, Echo
<1>12. AnswersOwnRequest'
  <2>1. p[2] = r \/ (p[2] < r /\ SameNumber(p[2], r))
    BY <1>1, <1>2 DEF SameNumber, Num
  <2>2. ASSUME NEW q \in Echo, NEW k \in DOMAIN answers'[q]
        PROVE  answers'[q][k] = q \/ (answers'[q][k] < q /\ SameNumber(answers'[q][k], q))
    <3>1. CASE q = r
      <4>1. answers'[q] = <<p[2]>> /\ DOMAIN <<p[2]>> = {1}
        BY <1>5, <3>1
      <4>2. answers'[q][k] = p[2]
        BY <2>2, <4>1
      <4> QED
        BY <2>1, <3>1, <4>2
    <3>2. CASE q # r
      BY <1>5, <2>2, <3>2 DEF EchoInv, AnswersOwnRequest
    <3> QED
      BY <3>1, <3>2
  <2> QED
    BY <2>2 DEF AnswersOwnRequest, SameNumber
<1>13. AnsweredOnce'
  <2>1. Len(<<p[2]>>) = 1
    OBVIOUS
  <2>2. ASSUME NEW q \in Echo PROVE Len(answers'[q]) <= 1
    <3>1. CASE q = r
      <4>1. answers'[q] = <<p[2]>>
        BY <1>5, <3>1
      <4> QED
        BY <2>1, <4>1
    <3>2. CASE q # r
      BY <1>5, <3>2 DEF EchoInv, AnsweredOnce
    <3> QED
      BY <3>1, <3>2
  <2> QED
    BY <2>2 DEF AnsweredOnce
<1> QED
  BY <1>6, <1>7, <1>8, <1>9, <1>11, <1>12, <1>13 DEF EchoInv

\* Every step of the relay keeps the invariant.
LEMMA EchoStep == EchoInv /\ [EchoNext]_echoVars => EchoInv'
<1> SUFFICES ASSUME EchoInv, [EchoNext]_echoVars PROVE EchoInv'
  OBVIOUS
<1>1. ASSUME NEW s \in EchoSeq, EchoExpires(s) PROVE EchoInv'
  <2>1. UNCHANGED <<echoes, echoSeq, flows, sending, onWire, answers>> /\ expired \subseteq expired'
    BY <1>1 DEF EchoExpires
  <2>2. EchoTypeOK'
    BY <1>1 DEF EchoExpires, EchoInv, EchoTypeOK
  <2>3. IssuedAnswerable'
    BY <2>1 DEF EchoInv, IssuedAnswerable, Answerable, Busy, SameNumber
  <2> QED
    BY <2>1, <2>2, <2>3 DEF EchoInv, Numbered, HeldOnce, FlowsYoungest, FlowsUnanswered, Busy,
                            AnswersOwnRequest, AnsweredOnce, SameNumber
<1>2. CASE UNCHANGED echoVars
  BY <1>2 DEF echoVars, EchoInv, EchoTypeOK, Numbered, HeldOnce, FlowsYoungest, FlowsUnanswered,
              IssuedAnswerable, Answerable, Busy, AnswersOwnRequest, AnsweredOnce, SameNumber
<1> QED
  BY <1>1, <1>2, EchoEntersStep, EchoSentStep, EchoSendFailsStep, EchoReplyStep DEF EchoNext

LEMMA EchoInvHolds == EchoSpec => []EchoInv
<1>1. EchoInit => EchoInv
  <2> SUFFICES ASSUME EchoInit PROVE EchoInv
    OBVIOUS
  <2> USE DEF EchoInit
  <2>1. EchoTypeOK
    BY DEF EchoTypeOK, EchoSeq, Resting
  <2>2. Numbered /\ HeldOnce /\ FlowsYoungest /\ FlowsUnanswered /\ IssuedAnswerable
    BY NumZero DEF Numbered, HeldOnce, FlowsYoungest, FlowsUnanswered, IssuedAnswerable, Busy
  <2>3. AnswersOwnRequest /\ AnsweredOnce
    BY DEF AnswersOwnRequest, AnsweredOnce
  <2> QED
    BY <2>1, <2>2, <2>3 DEF EchoInv
<1> QED
  BY <1>1, EchoStep, PTL DEF EchoSpec

-----------------------------------------------------------------------------
(* The theorems                                                             *)

\* Every variable of the relay keeps its type.
THEOREM EchoTypeCorrect == EchoSpec => []EchoTypeOK
  BY EchoInvHolds, PTL DEF EchoInv

\* Whatever the callers and the network do, and however small the number space
\* is: a guest gets its own answer, or that of an older request whose number
\* came round again (handleReply matches by the number alone).
THEOREM EchoAnswersOwnRequest == EchoSpec => []AnswersOwnRequest
  BY EchoInvHolds, PTL DEF EchoInv

\* handleReply passes no repeated reply on.
THEOREM EchoAnsweredOnce == EchoSpec => []AnsweredOnce
  BY EchoInvHolds, PTL DEF EchoInv

\* What was sent stays answerable until its deadline or until the numbers went
\* round: no sweep, no reply and no failed send of another caller takes its flow.
THEOREM EchoStaysAnswerable == EchoSpec => []SentStaysAnswerable
<1>1. EchoInv => SentStaysAnswerable
  BY DEF EchoInv, IssuedAnswerable, Answerable, SentStaysAnswerable
<1> QED
  BY <1>1, EchoInvHolds, PTL
=============================================================================
