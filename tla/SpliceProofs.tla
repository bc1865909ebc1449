---------------------------- MODULE SpliceProofs ----------------------------
(***************************************************************************)
(* Proofs about the spliced connections (Splice), for every amount of data *)
(* and for all three of the splices.                                       *)
(*                                                                         *)
(* That the first side to end is heard rests on who can end a pair: while  *)
(* a side is still open and the other has only stopped sending, the pair   *)
(* is as it was set up, or the copier of the side that stopped has reached *)
(* its end of file - after the last chunk (HeardOrIntact).                 *)
(***************************************************************************)
EXTENDS Splice, TLAPS

USE SpliceConstants

\* A pair whose second connection was dialled, and of which nothing has ended.
Intact ==
    /\ owner = "run" /\ reports = 0
    /\ \A s \in Side : ours[s] = "open" /\ copier[s] \in {"read", "write"}

\* The chunk that a copier has read and not yet written.
Hand(s) == IF copier[s] = "write" THEN 1 ELSE 0

\* Both copiers are started together; until then nothing is read or written.
SetUp ==
    \/ owner # "dial" /\ \A s \in Side : copier[s] # "none"
    \/ /\ owner \in {"dial", "end"} /\ reports = 0
       /\ ours["b"] = "none" /\ sent["b"] = 0
       /\ owner = "dial" => ours["a"] = "open" /\ \A s \in Side : unread[s] = sent[s]
       /\ \A s \in Side : copier[s] = "none" /\ arrived[s] = 0

\* What is read was sent, and what arrives was read.
NothingMadeUp == \A s \in Side : arrived[Other(s)] + unread[s] + Hand(s) <= sent[s]

\* A side whose partner is open has been read to its end.
Heard(s) == far[s] = "half" /\ unread[s] = 0 /\ copier[s] \in {"report", "end"}

\* A side that is not gone, with a partner that is open and was not reset, has
\* lost nothing; and if anything has ended, it has been read to its end.
HeardOrIntact ==
    (\A s \in Side : copier[s] # "none") =>
        \A s \in Side : (far[s] # "gone" /\ far[Other(s)] = "open") =>
            /\ Other(s) \notin reset => arrived[Other(s)] + unread[s] + Hand(s) = sent[s]
            /\ Intact \/ Heard(s)

SpInv == SpTypeOK /\ SetUp /\ NothingMadeUp /\ HeardOrIntact

-----------------------------------------------------------------------------
(* Facts about the operators                                                *)

LEMMA Sides ==
    /\ "a" \in Side /\ "b" \in Side
    /\ \A s \in Side : Other(s) \in Side /\ Other(s) # s /\ Other(Other(s)) = s
    /\ \A s, x \in Side : x = s \/ x = Other(s)
  BY DEF Side, Other

\* Counters are numbers, and what is on the way is bounded by what was sent.
LEMMA Counts ==
    ASSUME SpInv, NEW s \in Side
    PROVE  /\ arrived[s] \in 0 .. MaxChunks /\ unread[s] \in 0 .. MaxChunks /\ sent[s] \in 0 .. MaxChunks
           /\ Hand(s) \in {0, 1}
           /\ arrived[Other(s)] + unread[s] + Hand(s) <= sent[s]
  BY DEF SpInv, SpTypeOK, NothingMadeUp, Hand

\* Arrived data is only ever taken back from a side that is reset.
TakenBack ==
    /\ arrived' \in [Side -> 0 .. MaxChunks] /\ reset \subseteq reset' /\ reset' \subseteq Side
    /\ \A s \in Side : arrived'[s] <= arrived[s] /\ (s \in reset' \/ arrived'[s] = arrived[s])

LEMMA LostTakesBack ==
    ASSUME SpTypeOK, NEW sides, arrived' \in Lost(sides), reset \subseteq reset', reset' \subseteq Side,
           sides \subseteq reset'
    PROVE  TakenBack
<1>1. arrived' \in [Side -> 0 .. MaxChunks]
      /\ \A s \in Side : arrived'[s] = arrived[s] \/ (s \in sides /\ arrived'[s] < arrived[s])
  BY DEF Lost
<1>2. \A s \in Side : arrived[s] \in Nat /\ arrived'[s] \in Nat
  BY <1>1 DEF SpTypeOK
<1> QED
  BY <1>1, <1>2 DEF TakenBack

LEMMA NothingTakenBack ==
    ASSUME SpTypeOK, UNCHANGED <<arrived, reset>>
    PROVE  TakenBack
<1>1. \A s \in Side : arrived[s] \in Nat
  BY DEF SpTypeOK
<1> QED
  BY <1>1 DEF SpTypeOK, TakenBack

LEMMA CloseBothType ==
    ASSUME SpTypeOK, CloseBoth
    PROVE  TakenBack /\ ours' \in [Side -> {"none", "open", "closed"}] /\ held' \subseteq Side
<1>1. reset \subseteq reset' /\ reset' \subseteq Side /\ arrived' \in Lost(reset')
  BY DEF SpTypeOK, CloseBoth
<1>2. TakenBack
  BY <1>1, LostTakesBack
<1> QED
  BY <1>2 DEF CloseBoth

\* A copier that returns leaves the other one as it is.
LEMMA ReturnsType ==
    ASSUME SpTypeOK, NEW s \in Side, Returns(s)
    PROVE  /\ TakenBack /\ ours' \in [Side -> {"none", "open", "closed"}] /\ held' \subseteq Side
           /\ copier' \in [Side -> {"none", "read", "write", "report", "end"}]
           /\ copier'[s] \in {"report", "end"}
           /\ \A x \in Side \ {s} : copier'[x] = copier[x]
           /\ UNCHANGED <<splice, owner, far, sent, unread, reports>>
<1>1. CASE splice = "nat"
  <2>1. CloseBoth /\ copier' = [copier EXCEPT ![s] = "end"]
        /\ UNCHANGED <<splice, owner, far, sent, unread, reports>>
    BY <1>1 DEF Returns
  <2> QED
    BY <2>1, CloseBothType DEF SpTypeOK
<1>2. CASE splice # "nat"
  <2>1. UNCHANGED <<ours, reset, arrived>> /\ held' = held \ {s}
        /\ copier' = [copier EXCEPT ![s] = "report"]
        /\ UNCHANGED <<splice, owner, far, sent, unread, reports>>
    BY <1>2 DEF Returns
  <2> QED
    BY <2>1, NothingTakenBack DEF SpTypeOK
<1> QED
  BY <1>1, <1>2

-----------------------------------------------------------------------------
(* Steps                                                                    *)

\* A step that moves no data, after which every side with an open partner has
\* been heard, keeps the invariant.
LEMMA EndingStep ==
    ASSUME SpInv, SpTypeOK', TakenBack, UNCHANGED <<far, sent, unread>>, owner' # "dial",
           \A x \in Side : copier[x] # "none",
           \A x \in Side : copier'[x] = copier[x] \/ copier'[x] \in {"report", "end"},
           \A x \in Side : (far[x] # "gone" /\ far[Other(x)] = "open") => Heard(x)' /\ copier[x] # "write"
    PROVE  SpInv'
<1>1. \A x \in Side : copier'[x] # "none"
  OBVIOUS
<1>2. \A x \in Side : Hand(x)' <= Hand(x) /\ Hand(x)' \in {0, 1} /\ Hand(x) \in {0, 1}
  BY DEF Hand
<1>3. \A x \in Side : /\ arrived[x] \in Nat /\ arrived'[x] \in Nat /\ unread[x] \in Nat /\ sent[x] \in Nat
                      /\ arrived'[x] <= arrived[x]
  BY DEF SpInv, SpTypeOK, TakenBack
<1>4. NothingMadeUp'
  BY <1>2, <1>3, Sides DEF SpInv, NothingMadeUp
<1>5. HeardOrIntact'
  <2> SUFFICES ASSUME NEW x \in Side, far[x] # "gone", far[Other(x)] = "open"
               PROVE  /\ Other(x) \notin reset' => arrived'[Other(x)] + unread'[x] + Hand(x)' = sent'[x]
                      /\ Heard(x)'
    BY DEF HeardOrIntact
  <2>1. Heard(x)' /\ copier[x] # "write"
    OBVIOUS
  <2>2. Hand(x)' = Hand(x)
    BY <2>1 DEF Hand, Heard
  <2>3. ASSUME Other(x) \notin reset'
        PROVE  arrived'[Other(x)] = arrived[Other(x)] /\ Other(x) \notin reset
    BY <2>3, Sides DEF TakenBack
  <2> QED
    BY <2>1, <2>2, <2>3 DEF SpInv, HeardOrIntact
<1> QED
  BY <1>1, <1>4, <1>5 DEF SpInv, SetUp

\* A copier's call fails, and the copier returns: if its side has an open
\* partner, it was a read at the end of the data.
LEMMA CopyFailsStep ==
    ASSUME SpInv, NEW s \in Side, CopyReadFails(s) \/ CopyWriteFails(s)
    PROVE  SpInv'
<1>1. Returns(s) /\ copier[s] \in {"read", "write"}
  BY DEF CopyReadFails, CopyWriteFails
<1>2. owner # "dial" /\ \A x \in Side : copier[x] # "none"
  BY <1>1 DEF SpInv, SetUp
<1>3. /\ TakenBack /\ copier'[s] \in {"report", "end"} /\ \A x \in Side \ {s} : copier'[x] = copier[x]
      /\ UNCHANGED <<splice, owner, far, sent, unread, reports>>
  BY <1>1, ReturnsType DEF SpInv
<1>4. SpTypeOK'
  BY <1>1, <1>3, ReturnsType DEF SpInv, SpTypeOK, TakenBack
<1>5. ASSUME NEW x \in Side, far[x] # "gone", far[Other(x)] = "open"
      PROVE  Heard(x)' /\ copier[x] # "write"
  <2>1. Intact \/ Heard(x)
    BY <1>2, <1>5 DEF SpInv, HeardOrIntact
  <2>2. CASE Heard(x)
    <3>1. copier'[x] \in {"report", "end"}
      BY <1>3, <2>2 DEF Heard
    <3> QED
      BY <1>3, <2>2, <3>1 DEF Heard
  <2>3. CASE Intact
    <3>1. Usable(s, s) /\ Usable(s, Other(s))
      BY <2>3, Sides DEF Intact, Usable
    <3>2. CASE CopyWriteFails(s)
      <4>1. far[Other(s)] = "gone"
        BY <3>1, <3>2 DEF CopyWriteFails
      <4>2. x = s \/ x = Other(s)
        BY Sides
      <4> QED
        BY <1>5, <4>1, <4>2, Sides
    <3>3. CASE CopyReadFails(s)
      <4>1. far[s] = "gone" \/ (far[s] # "open" /\ unread[s] = 0)
        BY <3>1, <3>3 DEF CopyReadFails, Exhausted
      <4>2. x = s \/ x = Other(s)
        BY Sides
      <4>3. x = s /\ far[s] = "half" /\ unread[s] = 0
        BY <1>5, <4>1, <4>2, Sides DEF SpInv, SpTypeOK
      <4>4. copier[x] # "write"
        BY <3>3, <4>3 DEF CopyReadFails
      <4> QED
        BY <1>3, <4>3, <4>4 DEF Heard
    <3> QED
      BY <3>2, <3>3
  <2> QED
    BY <2>1, <2>2, <2>3 DEF Heard
<1> QED
  BY <1>2, <1>3, <1>4, <1>5, EndingStep

\* A report is on its way, so a copier has ended.
LEMMA ReportStep ==
    ASSUME SpInv, TearDown \/ SecondReport \/ \E s \in Side : Report(s)
    PROVE  SpInv'
<1>1. /\ ~Intact /\ owner # "dial" /\ owner' # "dial"
      /\ UNCHANGED <<splice, far, sent, unread>> /\ \A x \in Side : copier[x] # "none"
  BY DEF SpInv, SetUp, TearDown, SecondReport, Report, Intact
<1>2. \A x \in Side : copier'[x] = copier[x] \/ copier'[x] \in {"report", "end"}
  BY DEF SpInv, SpTypeOK, TearDown, SecondReport, Report
<1>3. TakenBack /\ SpTypeOK'
  <2>1. CASE TearDown
    BY <2>1, CloseBothType DEF SpInv, SpTypeOK, TearDown, TakenBack
  <2>2. CASE SecondReport
    BY <2>2, NothingTakenBack DEF SpInv, SpTypeOK, SecondReport
  <2>3. ASSUME NEW s \in Side, Report(s) PROVE TakenBack /\ SpTypeOK'
    BY <2>3, NothingTakenBack DEF SpInv, SpTypeOK, Report, ReportRoom
  <2> QED
    BY <2>1, <2>2, <2>3
<1>4. ASSUME NEW x \in Side, far[x] # "gone", far[Other(x)] = "open"
      PROVE  Heard(x)' /\ copier[x] # "write"
  <2>1. Heard(x)
    BY <1>1, <1>4 DEF SpInv, HeardOrIntact
  <2>2. copier'[x] \in {"report", "end"} /\ copier[x] # "write"
    BY <1>2, <2>1 DEF Heard
  <2> QED
    BY <1>1, <2>1, <2>2 DEF Heard
<1> QED
  BY <1>1, <1>2, <1>3, <1>4, EndingStep

\* A chunk is read, or written: none is lost on the way.
LEMMA CopyStep ==
    ASSUME SpInv, NEW s \in Side, CopyReads(s) \/ CopyWrites(s)
    PROVE  SpInv'
<1> DEFINE o == Other(s)
<1>1. o \in Side /\ o # s /\ Other(o) = s /\ \A x \in Side : x \in {s, o}
  BY Sides
<1>2. /\ UNCHANGED <<splice, owner, ours, far, sent, reset, reports>> /\ held' = held \ {s}
      /\ copier[s] \in {"read", "write"} /\ copier'[s] \in {"read", "write"} /\ copier'[o] = copier[o]
      /\ copier' \in [Side -> {"none", "read", "write", "report", "end"}]
  BY <1>1 DEF SpInv, SpTypeOK, CopyReads, CopyWrites
<1>3. owner # "dial" /\ \A x \in Side : copier[x] # "none"
  BY <1>2 DEF SpInv, SetUp
<1>4. SetUp'
  BY <1>1, <1>2, <1>3 DEF SetUp
<1>5. /\ arrived[o] \in 0 .. MaxChunks /\ unread[s] \in 0 .. MaxChunks /\ sent[s] \in 0 .. MaxChunks
      /\ arrived[s] \in 0 .. MaxChunks /\ unread[o] \in 0 .. MaxChunks /\ sent[o] \in 0 .. MaxChunks
      /\ arrived[o] + unread[s] + Hand(s) <= sent[s]
  BY <1>1, Counts
<1>6. /\ arrived'[o] + unread'[s] + Hand(s)' = arrived[o] + unread[s] + Hand(s)
      /\ arrived'[s] = arrived[s] /\ unread'[o] = unread[o] /\ Hand(o)' = Hand(o)
      /\ arrived' \in [Side -> 0 .. MaxChunks] /\ unread' \in [Side -> 0 .. MaxChunks]
  <2>1. CASE CopyReads(s)
    <3>1. /\ copier[s] = "read" /\ copier'[s] = "write" /\ unread[s] > 0
          /\ unread' = [unread EXCEPT ![s] = @ - 1] /\ arrived' = arrived
      BY <2>1 DEF CopyReads, SpInv, SpTypeOK
    <3>2. Hand(s) = 0 /\ Hand(s)' = 1 /\ Hand(o)' = Hand(o)
      BY <1>2, <3>1 DEF Hand
    <3>3. unread'[s] = unread[s] - 1 /\ unread'[o] = unread[o] /\ unread' \in [Side -> 0 .. MaxChunks]
      BY <1>1, <1>5, <3>1 DEF SpInv, SpTypeOK
    <3> QED
      BY <1>5, <3>1, <3>2, <3>3 DEF SpInv, SpTypeOK
  <2>2. CASE CopyWrites(s)
    <3>1. /\ copier[s] = "write" /\ copier'[s] = "read"
          /\ arrived' = [arrived EXCEPT ![o] = @ + 1] /\ unread' = unread
      BY <2>2 DEF CopyWrites, SpInv, SpTypeOK
    <3>2. Hand(s) = 1 /\ Hand(s)' = 0 /\ Hand(o)' = Hand(o)
      BY <1>2, <3>1 DEF Hand
    <3>3. arrived'[o] = arrived[o] + 1 /\ arrived'[s] = arrived[s] /\ arrived' \in [Side -> 0 .. MaxChunks]
      BY <1>1, <1>5, <3>1, <3>2 DEF SpInv, SpTypeOK
    <3> QED
      BY <1>5, <3>1, <3>2, <3>3 DEF SpInv, SpTypeOK
  <2> QED
    BY <2>1, <2>2
<1>7. SpTypeOK'
  BY <1>2, <1>6 DEF SpInv, SpTypeOK
<1> HIDE DEF o
<1>8. \A x \in Side : arrived'[Other(x)] + unread'[x] + Hand(x)' = arrived[Other(x)] + unread[x] + Hand(x)
  BY <1>1, <1>6 DEF o
<1>9. NothingMadeUp'
  BY <1>2, <1>8 DEF SpInv, NothingMadeUp
<1>10. HeardOrIntact'
  <2> SUFFICES ASSUME NEW x \in Side, far[x] # "gone", far[Other(x)] = "open"
               PROVE  /\ Other(x) \notin reset => arrived'[Other(x)] + unread'[x] + Hand(x)' = sent[x]
                      /\ Intact' \/ Heard(x)'
    BY <1>2 DEF HeardOrIntact
  <2>1. /\ Other(x) \notin reset => arrived[Other(x)] + unread[x] + Hand(x) = sent[x]
        /\ Intact \/ Heard(x)
    BY <1>3 DEF SpInv, HeardOrIntact
  <2>2. Intact => Intact'
    BY <1>1, <1>2 DEF Intact
  <2>3. Heard(x) => Heard(x)'
    BY <1>1, <1>2, <1>6 DEF Heard
  <2> QED
    BY <1>8, <2>1, <2>2, <2>3
<1> QED
  BY <1>4, <1>7, <1>9, <1>10 DEF SpInv

\* The far end sends.
LEMMA FarSendsStep ==
    ASSUME SpInv, NEW s \in Side, FarSends(s)
    PROVE  SpInv'
<1> DEFINE o == Other(s)
<1>1. o \in Side /\ o # s /\ Other(o) = s /\ \A x \in Side : x \in {s, o}
  BY Sides
<1>2. /\ far[s] = "open" /\ sent[s] < MaxChunks
      /\ sent' = [sent EXCEPT ![s] = @ + 1] /\ unread' = [unread EXCEPT ![s] = @ + 1]
      /\ UNCHANGED <<splice, owner, ours, held, far, arrived, reset, copier, reports>>
      /\ \A x \in Side : Hand(x)' = Hand(x)
  BY DEF FarSends, Hand
<1>3. /\ arrived[o] \in 0 .. MaxChunks /\ unread[s] \in 0 .. MaxChunks /\ sent[s] \in 0 .. MaxChunks
      /\ Hand(s) \in {0, 1} /\ arrived[o] + unread[s] + Hand(s) <= sent[s]
  BY <1>1, Counts
<1>4. /\ sent'[s] = sent[s] + 1 /\ sent'[o] = sent[o]
      /\ unread'[s] = unread[s] + 1 /\ unread'[o] = unread[o]
      /\ sent' \in [Side -> 0 .. MaxChunks] /\ unread' \in [Side -> 0 .. MaxChunks]
  BY <1>1, <1>2, <1>3 DEF SpInv, SpTypeOK
<1>5. SpTypeOK'
  BY <1>2, <1>4 DEF SpInv, SpTypeOK
<1>6. NothingMadeUp'
  BY <1>1, <1>2, <1>3, <1>4 DEF SpInv, NothingMadeUp
<1>7. SetUp'
  <2>1. CASE \A x \in Side : copier[x] # "none"
    BY <1>2, <2>1 DEF SpInv, SetUp
  <2>2. CASE ~\A x \in Side : copier[x] # "none"
    <3>1. s = "a" /\ o = "b"
      BY <2>2, Sides DEF SpInv, SetUp, FarSends, Unix, Side, Other
    <3>2. owner = "dial" => \A x \in Side : unread'[x] = sent'[x]
      BY <1>1, <1>4, <2>2 DEF SpInv, SetUp
    <3> QED
      BY <1>2, <1>4, <2>2, <3>1, <3>2 DEF SpInv, SetUp
  <2> QED
    BY <2>1, <2>2
<1>8. HeardOrIntact'
  <2> SUFFICES ASSUME \A x \in Side : copier[x] # "none",
                      NEW x \in Side, far[x] # "gone", far[Other(x)] = "open"
               PROVE  /\ Other(x) \notin reset => arrived[Other(x)] + unread'[x] + Hand(x) = sent'[x]
                      /\ Intact' \/ Heard(x)'
    BY <1>2 DEF HeardOrIntact
  <2>1. /\ Other(x) \notin reset => arrived[Other(x)] + unread[x] + Hand(x) = sent[x]
        /\ Intact \/ Heard(x)
    BY DEF SpInv, HeardOrIntact
  <2>2. Intact => Intact'
    BY <1>2 DEF Intact
  <2>3. CASE x = s
    <3>1. ~Heard(x)
      BY <1>2, <2>3 DEF Heard
    <3> QED
      BY <1>3, <1>4, <2>1, <2>2, <2>3, <3>1
  <2>4. CASE x = o
    <3>1. Heard(x) => Heard(x)'
      BY <1>2, <1>4, <2>4 DEF Heard
    <3> QED
      BY <1>4, <2>1, <2>2, <2>4, <3>1
  <2> QED
    BY <1>1, <2>3, <2>4
<1> QED
  BY <1>5, <1>6, <1>7, <1>8 DEF SpInv

\* The far end sends to a socket that we closed: the pair had ended, so no
\* side with this one as its open partner is owed anything more.
LEMMA FarSendsLateStep ==
    ASSUME SpInv, NEW s \in Side, FarSendsLate(s)
    PROVE  SpInv'
<1> DEFINE o == Other(s)
<1>1. o \in Side /\ o # s /\ Other(o) = s /\ \A x \in Side : x \in {s, o}
  BY Sides
<1>2. /\ far[s] = "open" /\ ours[s] = "closed" /\ sent[s] < MaxChunks
      /\ sent' = [sent EXCEPT ![s] = @ + 1] /\ reset' = reset \cup {s} /\ arrived' \in Lost({s})
      /\ UNCHANGED <<splice, owner, ours, held, far, unread, copier, reports>>
      /\ \A x \in Side : Hand(x)' = Hand(x)
  BY DEF FarSendsLate, Hand
<1>3. TakenBack
  BY <1>2, LostTakesBack DEF SpInv, SpTypeOK
<1>4. sent'[s] = sent[s] + 1 /\ sent'[o] = sent[o] /\ sent' \in [Side -> 0 .. MaxChunks]
  BY <1>1, <1>2, Counts DEF SpInv, SpTypeOK
<1>5. SpTypeOK'
  BY <1>2, <1>3, <1>4 DEF SpInv, SpTypeOK, TakenBack
<1>6. /\ arrived'[o] <= arrived[o] /\ arrived'[s] <= arrived[s]
      /\ arrived'[o] \in Nat /\ arrived'[s] \in Nat
  BY <1>1, <1>3 DEF TakenBack
<1>7. NothingMadeUp'
  <2>1. arrived'[o] + unread'[s] + Hand(s)' <= sent'[s]
    BY <1>1, <1>2, <1>4, <1>6, Counts
  <2>2. arrived'[s] + unread'[o] + Hand(o)' <= sent'[o]
    <3>1. arrived[s] + unread[o] + Hand(o) <= sent[o] /\ arrived[s] \in Nat /\ unread[o] \in Nat
          /\ Hand(o) \in {0, 1} /\ sent[o] \in Nat
      BY <1>1, Counts
    <3> QED
      BY <1>1, <1>2, <1>4, <1>6, <3>1
  <2> QED
    BY <1>1, <2>1, <2>2 DEF NothingMadeUp
<1>8. SetUp'
  <2>1. CASE \A x \in Side : copier[x] # "none"
    BY <1>2, <2>1 DEF SpInv, SetUp
  <2>2. CASE ~\A x \in Side : copier[x] # "none"
    <3>1. s = "a" /\ o = "b" /\ owner = "end" /\ \A x \in Side : arrived[x] = 0
      BY <1>2, <2>2 DEF SpInv, SetUp, Side, Other
    <3>2. \A x \in Side : arrived'[x] = 0
      BY <1>1, <1>6, <3>1
    <3> QED
      BY <1>2, <1>4, <2>2, <3>1, <3>2 DEF SpInv, SetUp
  <2> QED
    BY <2>1, <2>2
<1>9. HeardOrIntact'
  <2> SUFFICES ASSUME \A x \in Side : copier[x] # "none",
                      NEW x \in Side, far[x] # "gone", far[Other(x)] = "open"
               PROVE  /\ Other(x) \notin reset' => arrived'[Other(x)] + unread'[x] + Hand(x)' = sent'[x]
                      /\ Heard(x)'
    BY <1>2 DEF HeardOrIntact
  <2>1. Heard(x)
    BY <1>2 DEF SpInv, HeardOrIntact, Intact
  <2>2. x = o
    BY <1>1, <1>2, <2>1 DEF Heard
  <2> QED
    BY <1>1, <1>2, <2>1, <2>2 DEF Heard
<1> QED
  BY <1>5, <1>7, <1>8, <1>9 DEF SpInv

\* The far end stops sending, or goes away.
LEMMA FarStopsStep ==
    ASSUME SpInv, NEW s \in Side, FarStops(s)
    PROVE  SpInv'
<1>1. /\ UNCHANGED <<splice, owner, ours, held, sent, unread, arrived, reset, copier, reports>>
      /\ \A x \in Side : Hand(x)' = Hand(x)
  BY DEF FarStops, Hand
<1>2. /\ far' \in [Side -> {"open", "half", "gone"}]
      /\ \A x \in Side : far'[x] = "open" => far[x] = "open"
      /\ \A x \in Side : far'[x] # "gone" => far[x] # "gone"
      /\ \A x \in Side : far[x] = "half" => far'[x] # "open"
  BY DEF SpInv, SpTypeOK, FarStops
<1>3. SpTypeOK' /\ SetUp' /\ NothingMadeUp'
  BY <1>1, <1>2 DEF SpInv, SpTypeOK, SetUp, NothingMadeUp
<1>4. HeardOrIntact'
  <2> SUFFICES ASSUME \A x \in Side : copier[x] # "none",
                      NEW x \in Side, far'[x] # "gone", far'[Other(x)] = "open"
               PROVE  /\ Other(x) \notin reset => arrived[Other(x)] + unread[x] + Hand(x) = sent[x]
                      /\ Intact' \/ Heard(x)'
    BY <1>1 DEF HeardOrIntact
  <2>1. far[x] # "gone" /\ far[Other(x)] = "open"
    BY <1>2, Sides
  <2>2. Intact => Intact'
    BY <1>1 DEF Intact
  <2>3. Heard(x) => Heard(x)'
    BY <1>1, <1>2 DEF Heard
  <2> QED
    BY <2>1, <2>2, <2>3 DEF SpInv, HeardOrIntact
<1> QED
  BY <1>3, <1>4 DEF SpInv

\* Setting up moves no data.
LEMMA DialStep ==
    ASSUME SpInv, Dialled \/ DialFails
    PROVE  SpInv'
<1>1. UNCHANGED <<splice, held, far, sent, unread, arrived, reset, reports>> /\ owner = "dial"
  BY DEF Dialled, DialFails
<1>2. /\ reports = 0 /\ ours["a"] = "open" /\ ours["b"] = "none" /\ sent["b"] = 0
      /\ \A x \in Side : copier[x] = "none" /\ arrived[x] = 0 /\ unread[x] = sent[x]
  BY <1>1 DEF SpInv, SetUp
<1>3. CASE Dialled
  <2>1. /\ owner' = "run" /\ copier' = [s \in Side |-> "read"]
        /\ ours' = [ours EXCEPT !["b"] = "open"]
    BY <1>3 DEF Dialled
  <2>2. SpTypeOK' /\ SetUp'
    BY <1>1, <2>1, Sides DEF SpInv, SpTypeOK, SetUp
  <2>3. Intact'
    BY <1>1, <1>2, <2>1 DEF SpInv, SpTypeOK, Intact, Side
  <2>4. \A s \in Side : arrived'[Other(s)] + unread'[s] + Hand(s)' = sent'[s] /\ sent[s] \in Nat
    BY <1>1, <1>2, <2>1, Sides DEF SpInv, SpTypeOK, Hand
  <2> QED
    BY <1>1, <2>2, <2>3, <2>4 DEF SpInv, NothingMadeUp, HeardOrIntact
<1>4. CASE DialFails
  <2>1. owner' = "end" /\ ours' = [ours EXCEPT !["a"] = "closed"] /\ UNCHANGED copier
    BY <1>4 DEF DialFails
  <2>2. SpTypeOK'
    BY <1>1, <2>1 DEF SpInv, SpTypeOK
  <2>3. SetUp'
    BY <1>1, <1>2, <2>1, Sides DEF SpInv, SetUp, SpTypeOK
  <2>4. NothingMadeUp' /\ HeardOrIntact'
    BY <1>1, <1>2, <2>1, Sides DEF SpInv, NothingMadeUp, HeardOrIntact, Hand
  <2> QED
    BY <2>2, <2>3, <2>4 DEF SpInv
<1> QED
  BY <1>3, <1>4

\* Every step keeps the invariant.
LEMMA SpStep == SpInv /\ [SpNext]_spVars => SpInv'
<1> SUFFICES ASSUME SpInv, [SpNext]_spVars PROVE SpInv'
  OBVIOUS
<1>1. CASE UNCHANGED spVars
  BY <1>1 DEF spVars, SpInv, SpTypeOK, SetUp, NothingMadeUp, HeardOrIntact, Heard, Hand, Intact
<1> QED
  BY <1>1, CopyStep, CopyFailsStep, ReportStep, FarSendsStep, FarSendsLateStep, FarStopsStep, DialStep
     DEF SpNext

LEMMA SpInvHolds == SpSpec => []SpInv
<1>1. SpInit => SpInv
  BY Sides DEF SpInit, SpInv, SpTypeOK, SetUp, NothingMadeUp, HeardOrIntact, Hand
<1> QED
  BY <1>1, SpStep, PTL DEF SpSpec

-----------------------------------------------------------------------------
(* The theorems                                                             *)

\* Every variable of a splice keeps its type.
THEOREM SpTypeCorrect == SpSpec => []SpTypeOK
  BY SpInvHolds, PTL DEF SpInv

\* In all three splices, and however much is sent: a side that finishes first,
\* with a partner that stays and is not reset, has everything it sent delivered
\* when its partner's connection is closed.
THEOREM FirstToEndHeard == SpSpec => []FirstToEndIsHeard
<1>1. SpInv => FirstToEndIsHeard
  <2> SUFFICES ASSUME SpInv, NEW s \in Side, far[s] = "half", far[Other(s)] = "open", owner # "dial",
                      ours[Other(s)] = "closed", Other(s) \notin reset
               PROVE  arrived[Other(s)] = sent[s]
    BY DEF FirstToEndIsHeard
  <2>1. Other(s) \in Side
    BY Sides
  <2>2. CASE \A x \in Side : copier[x] # "none"
    <3>1. ~Intact
      BY <2>1 DEF Intact
    <3>2. arrived[Other(s)] + unread[s] + Hand(s) = sent[s] /\ Heard(s)
      BY <2>2, <3>1 DEF SpInv, HeardOrIntact
    <3> QED
      BY <2>1, <3>2, Counts DEF Heard, Hand
  <2>3. CASE ~\A x \in Side : copier[x] # "none"
    <3>1. ours["b"] = "none" /\ sent["b"] = 0 /\ \A x \in Side : arrived[x] = 0
      BY <2>3 DEF SpInv, SetUp
    <3>2. s = "b"
      BY <3>1 DEF Side, Other
    <3> QED
      BY <2>1, <3>1, <3>2
  <2> QED
    BY <2>2, <2>3
<1> QED
  BY <1>1, SpInvHolds, PTL
=============================================================================
