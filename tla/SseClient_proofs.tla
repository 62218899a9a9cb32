-------------------------- MODULE SseClient_proofs --------------------------
(***************************************************************************)
(* Proofs about SseClient: whatever the length of an answer and wherever   *)
(* its stream is cut, what is printed is what was sent.                    *)
(***************************************************************************)
EXTENDS SseClient, InductionLemmas, FiniteSetTheorems, SequenceTheorems, TLAPS

\* What lies between the server and the printed text: a stream of whole events,
\* all but the first k that were sent, of which buf holds the front.
Follows(s, k) ==
  /\ Len(s) = (Len(sent) - k) * EventLength
  /\ \A q \in k + 1 .. Len(sent), j \in 1 .. EventLength :
       s[(q - k - 1) * EventLength + j] = Encode(sent[q])[j]

\* The pieces of the first k items are printed.
ShowsUpTo(k) == {i \in 1 .. k : Shows(sent[i])}
Printed(p, k) ==
  /\ Len(p) = Cardinality(ShowsUpTo(k))
  /\ \A i \in ShowsUpTo(k) :
       p[Cardinality({j \in ShowsUpTo(k) : j <= i})] = sent[i].text

Atoms == {LF, CR} \cup [half : {1, 2}, item : Items]
StreamTyped ==
  /\ eol \in {<<LF>>, <<CR, LF>>}
  /\ sent \in Seq(Items) /\ wire \in Seq(Atoms) /\ buf \in Seq(Atoms)
  /\ printed \in Seq(Pieces)
  /\ pc \in {"healthz", "post", "stream", "events", "ok", "error"}

\* Where the reader is: it waits for a chunk with less than an event in hand.
ReaderAt(k) ==
  /\ k \in 0 .. Len(sent)
  /\ Follows(buf \o wire, k)
  /\ Printed(printed, k)
  /\ pc # "events" => Len(buf) < EventLength
ReaderInv == \E k \in 0 .. Len(sent) : ReaderAt(k)

\* The answer: [DONE] comes last, and after Done or Error.
AnswerInv ==
  /\ \A i \in DOMAIN sent : sent[i].kind = "[DONE]" => i = Len(sent)
  /\ Closed => Answered

\* The model: the one that was checked, as long as the server is not restarted.
ModelInv ==
  /\ pc = "post" /\ ~restarted => loaded = asked
  /\ sent # <<>> /\ ~restarted => model = asked
  /\ pc \in {"healthz", "post"} => sent = <<>> /\ buf = <<>> /\ wire = <<>>
  /\ pc \in {"stream", "events", "ok"} => sent # <<>>

StreamInv == StreamTyped /\ ReaderInv /\ AnswerInv /\ ModelInv

-----------------------------------------------------------------------------
(* Events on the wire *)

\* Texts and line ends are told apart.
LEMMA AtomsDiffer ==
  /\ LF # CR
  /\ \A h \in {1, 2}, item \in Items : IsText([half |-> h, item |-> item])
  <1>1. LF # CR
    <2>1. LF.eol = "lf" /\ CR.eol = "cr"
      BY DEF LF, CR
    <2> QED
      BY <2>1
  <1>2. ASSUME NEW h \in {1, 2}, NEW item \in Items
        PROVE  [half |-> h, item |-> item] \notin {LF, CR}
    <2>1. DOMAIN [half |-> h, item |-> item] = {"half", "item"}
      OBVIOUS
    <2>2. DOMAIN LF = {"eol"} /\ DOMAIN CR = {"eol"}
      BY DEF LF, CR
    <2> QED
      BY <2>1, <2>2
  <1> QED
    BY <1>1, <1>2 DEF IsText

\* Two atoms of text and twice a line end, place by place.
LEMMA TwoLineEnds ==
  ASSUME NEW S, NEW h \in Seq(S), Len(h) = 2, NEW e \in Seq(S), Len(e) \in {1, 2}
  PROVE  LET s == h \o e \o e IN
         /\ s \in Seq(S) /\ Len(s) = 2 + 2 * Len(e)
         /\ s[1] = h[1] /\ s[2] = h[2]
         /\ \A i \in 1 .. Len(e) : s[2 + i] = e[i] /\ s[2 + Len(e) + i] = e[i]
  <1> DEFINE he == h \o e
             s == he \o e
  <1>1. /\ he \in Seq(S) /\ Len(he) = 2 + Len(e)
        /\ \A i \in 1 .. 2 + Len(e) : he[i] = IF i <= 2 THEN h[i] ELSE e[i - 2]
    <2>1. /\ he \in Seq(S) /\ Len(he) = Len(h) + Len(e)
          /\ \A i \in 1 .. Len(h) + Len(e) :
               he[i] = IF i <= Len(h) THEN h[i] ELSE e[i - Len(h)]
      BY ConcatProperties
    <2> QED
      BY ONLY <2>1, Len(h) = 2
  <1> HIDE DEF he
  <1>2. /\ s \in Seq(S) /\ Len(s) = 2 + Len(e) + Len(e)
        /\ \A i \in 1 .. 2 + Len(e) + Len(e) :
             s[i] = IF i <= 2 + Len(e) THEN he[i] ELSE e[i - (2 + Len(e))]
    <2>1. /\ s \in Seq(S) /\ Len(s) = Len(he) + Len(e)
          /\ \A i \in 1 .. Len(he) + Len(e) :
               s[i] = IF i <= Len(he) THEN he[i] ELSE e[i - Len(he)]
      BY <1>1, ConcatProperties
    <2>2. Len(he) = 2 + Len(e)
      BY <1>1
    <2> HIDE DEF s
    <2> QED
      BY ONLY <2>1, <2>2
  <1> HIDE DEF s
  <1>3. s[1] = h[1] /\ s[2] = h[2]
    BY <1>1, <1>2
  <1>4. ASSUME NEW i \in 1 .. Len(e)
        PROVE  s[2 + i] = e[i] /\ s[2 + Len(e) + i] = e[i]
    <2>1. /\ 2 + i \in 1 .. 2 + Len(e) + Len(e) /\ 2 + i <= 2 + Len(e) /\ ~(2 + i <= 2)
          /\ 2 + i \in 1 .. 2 + Len(e) /\ (2 + i) - 2 = i
      OBVIOUS
    <2>2. /\ 2 + Len(e) + i \in 1 .. 2 + Len(e) + Len(e) /\ ~(2 + Len(e) + i <= 2 + Len(e))
          /\ (2 + Len(e) + i) - (2 + Len(e)) = i
      OBVIOUS
    <2>3. s[2 + i] = he[2 + i] /\ he[2 + i] = e[i]
      BY <2>1, <1>1, <1>2
    <2>4. s[2 + Len(e) + i] = e[i]
      BY <2>2, <1>2
    <2> QED
      BY <2>3, <2>4
  <1> QED
    BY <1>2, <1>3, <1>4 DEF s, he

\* An event on the wire, atom by atom.
IsEncoded(s, item) ==
  /\ s \in Seq(Atoms) /\ Len(s) = EventLength
  /\ s[1] = Halves(item)[1] /\ s[2] = Halves(item)[2]
  /\ IsText(s[1]) /\ IsText(s[2])
  /\ \/ EventLength = 4 /\ s[3] = LF /\ s[4] = LF
     \/ EventLength = 6 /\ s[3] = CR /\ s[4] = LF /\ s[5] = CR /\ s[6] = LF

\* It is what the server sends.
LEMMA EncodeIs ==
  ASSUME StreamTyped, NEW item \in Items
  PROVE  IsEncoded(Encode(item), item)
  <1> DEFINE h == Halves(item)
             h1 == [half |-> 1, item |-> item]
             h2 == [half |-> 2, item |-> item]
  <1>1. h1 \in Atoms /\ h2 \in Atoms /\ LF \in Atoms /\ CR \in Atoms
    BY DEF Atoms
  <1>2. IsText(h1) /\ IsText(h2)
    BY AtomsDiffer
  <1>3. h = <<h1, h2>>
    BY DEF Halves
  <1> HIDE DEF h1, h2
  <1>4. h \in Seq(Atoms) /\ Len(h) = 2 /\ h[1] = h1 /\ h[2] = h2
    BY <1>1, <1>3
  <1>5. eol = <<LF>> \/ eol = <<CR, LF>>
    BY DEF StreamTyped
  <1>6. eol \in Seq(Atoms) /\ Len(eol) \in {1, 2}
    <2>1. CASE eol = <<LF>>
      BY <1>1, <2>1
    <2>2. CASE eol = <<CR, LF>>
      BY <1>1, <2>2
    <2> QED
      BY <1>5, <2>1, <2>2
  <1> DEFINE s == h \o eol \o eol
  <1> HIDE DEF h
  <1>7. /\ s \in Seq(Atoms) /\ Len(s) = 2 + 2 * Len(eol)
        /\ s[1] = h[1] /\ s[2] = h[2]
        /\ \A i \in 1 .. Len(eol) : s[2 + i] = eol[i] /\ s[2 + Len(eol) + i] = eol[i]
    BY <1>4, <1>6, TwoLineEnds, SMTT(40)
  <1> HIDE DEF s
  <1>8. \/ EventLength = 4 /\ s[3] = LF /\ s[4] = LF
        \/ EventLength = 6 /\ s[3] = CR /\ s[4] = LF /\ s[5] = CR /\ s[6] = LF
    <2>1. CASE eol = <<LF>>
      <3>1. Len(eol) = 1 /\ eol[1] = LF
        BY <2>1
      <3>2. s[2 + 1] = eol[1] /\ s[2 + 1 + 1] = eol[1]
        BY <1>7, <3>1
      <3> QED
        BY <3>1, <3>2 DEF EventLength
    <2>2. CASE eol = <<CR, LF>>
      <3>1. Len(eol) = 2 /\ eol[1] = CR /\ eol[2] = LF
        BY <2>2
      <3>2. /\ s[2 + 1] = eol[1] /\ s[2 + 2 + 1] = eol[1]
            /\ s[2 + 2] = eol[2] /\ s[2 + 2 + 2] = eol[2]
        BY <1>7, <3>1
      <3> QED
        BY <3>1, <3>2 DEF EventLength
    <2> QED
      BY <1>5, <2>1, <2>2
  <1>9. Len(s) = EventLength
    BY <1>7 DEF EventLength
  <1>10. Encode(item) = s
    BY DEF Encode, s, h
  <1> QED
    BY <1>2, <1>4, <1>7, <1>8, <1>9, <1>10 DEF IsEncoded, h

\* The text of an item is that item's and no other's.
LEMMA HoldsOne ==
  ASSUME NEW x \in Items, NEW y \in Items
  PROVE  Holds(Halves(x), y) <=> x = y
  <1>1. Len(Halves(x)) = 2 /\ DOMAIN Halves(x) = {1, 2}
    BY DEF Halves
  <1>2. <<Halves(x)[1], Halves(x)[2]>> = Halves(x)
    BY DEF Halves
  <1>3. 1 .. 2 - 1 = {1}
    OBVIOUS
  <1>4. Holds(Halves(x), y) <=> Halves(x) = Halves(y)
    BY <1>1, <1>2, <1>3 DEF Holds
  <1>5. Halves(x) = Halves(y) => x = y
    <2>1. Halves(x)[1].item = x /\ Halves(y)[1].item = y
      BY DEF Halves
    <2> QED
      BY <2>1
  <1> QED
    BY <1>4, <1>5

-----------------------------------------------------------------------------
(* The terminator *)

\* First is the smallest.
LEMMA FirstIs ==
  ASSUME NEW S \in SUBSET Nat, NEW i \in S, \A j \in S : i <= j
  PROVE  First(S) = i
  <1>1. \A n \in S : (\A j \in S : n <= j) => n = i
    <2> SUFFICES ASSUME NEW n \in S, \A j \in S : n <= j PROVE n = i
      OBVIOUS
    <2>1. n <= i /\ i <= n /\ n \in Nat /\ i \in Nat
      OBVIOUS
    <2> QED
      BY <2>1
  <1> QED
    BY <1>1 DEF First

\* Where a pattern of two or of four atoms starts.
LEMMA StartsAtIs ==
  ASSUME NEW S, NEW s \in Seq(S), NEW i \in 1 .. Len(s),
         NEW a \in S, NEW b \in S
  PROVE  /\ StartsAt(s, i, <<a, b>>) <=> i + 1 <= Len(s) /\ s[i] = a /\ s[i + 1] = b
         /\ StartsAt(s, i, <<a, b, a, b>>) <=>
              /\ i + 3 <= Len(s)
              /\ s[i] = a /\ s[i + 1] = b /\ s[i + 2] = a /\ s[i + 3] = b
  <1>1. Len(s) \in Nat /\ i \in Nat
    OBVIOUS
  <1>2. Len(<<a, b>>) = 2 /\ Len(<<a, b, a, b>>) = 4
    OBVIOUS
  <1>3. ASSUME i + 1 <= Len(s)
        PROVE  SubSeq(s, i, i + 1) = <<a, b>> <=> s[i] = a /\ s[i + 1] = b
    <2> DEFINE t == SubSeq(s, i, i + 1)
    <2>1. t \in Seq(S) /\ Len(t) = 2 /\ t[1] = s[i] /\ t[2] = s[i + 1]
      <3>1. i \in Int /\ i + 1 \in Int /\ \A j \in i .. i + 1 : s[j] \in S
        BY <1>1, <1>3
      <3>2. /\ t \in Seq(S) /\ Len(t) = IF i <= i + 1 THEN (i + 1) - i + 1 ELSE 0
            /\ \A j \in 1 .. (i + 1) - i + 1 : t[j] = s[i + j - 1]
        BY <3>1, SubSeqProperties
      <3> HIDE DEF t
      <3>3. (i + 1) - i + 1 = 2 /\ i <= i + 1 /\ i + 1 - 1 = i /\ i + 2 - 1 = i + 1
        BY <1>1
      <3>4. 1 \in 1 .. 2 /\ 2 \in 1 .. 2
        OBVIOUS
      <3>5. t[1] = s[i + 1 - 1] /\ t[2] = s[i + 2 - 1]
        BY <3>2, <3>3, <3>4
      <3> QED
        BY <3>2, <3>3, <3>5
    <2> HIDE DEF t
    <2>2. t = <<t[1], t[2]>>
      BY <2>1, SeqEqual
    <2> QED
      BY <2>1, <2>2 DEF t
  <1>4. ASSUME i + 3 <= Len(s)
        PROVE  SubSeq(s, i, i + 3) = <<a, b, a, b>> <=>
                 s[i] = a /\ s[i + 1] = b /\ s[i + 2] = a /\ s[i + 3] = b
    <2> DEFINE t == SubSeq(s, i, i + 3)
    <2>1. /\ t \in Seq(S) /\ Len(t) = 4
          /\ t[1] = s[i] /\ t[2] = s[i + 1] /\ t[3] = s[i + 2] /\ t[4] = s[i + 3]
      <3>1. i \in Int /\ i + 3 \in Int /\ \A j \in i .. i + 3 : s[j] \in S
        BY <1>1, <1>4
      <3>2. /\ t \in Seq(S) /\ Len(t) = IF i <= i + 3 THEN (i + 3) - i + 1 ELSE 0
            /\ \A j \in 1 .. (i + 3) - i + 1 : t[j] = s[i + j - 1]
        BY <3>1, SubSeqProperties
      <3> HIDE DEF t
      <3>3. /\ (i + 3) - i + 1 = 4 /\ i <= i + 3
            /\ i + 1 - 1 = i /\ i + 2 - 1 = i + 1 /\ i + 3 - 1 = i + 2 /\ i + 4 - 1 = i + 3
        BY <1>1
      <3>4. 1 \in 1 .. 4 /\ 2 \in 1 .. 4 /\ 3 \in 1 .. 4 /\ 4 \in 1 .. 4
        OBVIOUS
      <3>5. /\ t[1] = s[i + 1 - 1] /\ t[2] = s[i + 2 - 1]
            /\ t[3] = s[i + 3 - 1] /\ t[4] = s[i + 4 - 1]
        BY <3>2, <3>3, <3>4
      <3> QED
        BY <3>2, <3>3, <3>5
    <2> HIDE DEF t
    <2>2. t = <<t[1], t[2], t[3], t[4]>>
      BY <2>1, SeqEqual
    <2> QED
      BY <2>1, <2>2 DEF t
  <1>5. i + 2 - 1 = i + 1 /\ i + 4 - 1 = i + 3
    BY <1>1
  <1> QED
    BY <1>2, <1>3, <1>4, <1>5 DEF StartsAt

\* The first terminator is that of the first event, as soon as it has arrived
\* to its last atom.
LEMMA TerminatorIs ==
  ASSUME StreamTyped, NEW b \in Seq(Atoms), NEW item \in Items,
         \A j \in 1 .. EventLength : j <= Len(b) => b[j] = Encode(item)[j]
  PROVE  Terminator(b) = IF Len(b) < EventLength THEN <<0, 0>> ELSE <<3, EventLength - 2>>
  <1> DEFINE lf == Positions(b, <<LF, LF>>)
             crlf == Positions(b, <<CR, LF, CR, LF>>)
  <1>1. Len(b) \in Nat /\ LF \in Atoms /\ CR \in Atoms /\ LF # CR
    BY AtomsDiffer DEF Atoms
  <1>2. IsEncoded(Encode(item), item) /\ EventLength \in {4, 6}
    BY EncodeIs DEF IsEncoded
  <1>3. /\ Len(b) >= 1 => b[1] \notin {LF, CR}
        /\ Len(b) >= 2 => b[2] \notin {LF, CR}
    BY <1>1, <1>2 DEF IsEncoded, IsText
  <1>4. \A i \in 1 .. Len(b) : i \in lf <=> i + 1 <= Len(b) /\ b[i] = LF /\ b[i + 1] = LF
    <2>1. ASSUME NEW i \in 1 .. Len(b)
          PROVE  StartsAt(b, i, <<LF, LF>>) <=> i + 1 <= Len(b) /\ b[i] = LF /\ b[i + 1] = LF
      BY ONLY b \in Seq(Atoms), i \in 1 .. Len(b), <1>1, StartsAtIs
    <2> QED
      BY <2>1 DEF Positions
  <1>5. \A i \in 1 .. Len(b) : i \in crlf <=>
          i + 3 <= Len(b) /\ b[i] = CR /\ b[i + 1] = LF /\ b[i + 2] = CR /\ b[i + 3] = LF
    <2>1. ASSUME NEW i \in 1 .. Len(b)
          PROVE  StartsAt(b, i, <<CR, LF, CR, LF>>) <=>
                   /\ i + 3 <= Len(b)
                   /\ b[i] = CR /\ b[i + 1] = LF /\ b[i + 2] = CR /\ b[i + 3] = LF
      BY ONLY b \in Seq(Atoms), i \in 1 .. Len(b), <1>1, StartsAtIs
    <2> QED
      BY <2>1 DEF Positions
  <1>6. lf \subseteq 1 .. Len(b) /\ crlf \subseteq 1 .. Len(b)
    BY DEF Positions
  <1>7. Terminator(b) = CASE lf = {} /\ crlf = {} -> <<0, 0>>
                          [] crlf = {} /\ lf # {} -> <<First(lf), 2>>
                          [] lf = {} /\ crlf # {} -> <<First(crlf), 4>>
                          [] OTHER -> IF First(lf) <= First(crlf) THEN <<First(lf), 2>>
                                      ELSE <<First(crlf), 4>>
    BY DEF Terminator
  <1> HIDE DEF lf, crlf
  <1>8. /\ \A i \in lf : i >= 3 /\ i + 1 <= Len(b) /\ b[i] = LF /\ b[i + 1] = LF
        /\ \A i \in crlf : i >= 3 /\ i + 3 <= Len(b)
    <2>1. ASSUME NEW i \in lf \cup crlf PROVE i >= 3
      <3>1. i \in 1 .. Len(b) /\ b[i] \in {LF, CR}
        BY <2>1, <1>4, <1>5, <1>6
      <3>2. i # 1 /\ i # 2
        BY <3>1, <1>3
      <3> QED
        BY <3>1, <3>2
    <2> QED
      BY <2>1, <1>4, <1>5, <1>6
  <1>9. /\ lf # {} => First(lf) \in lf
        /\ crlf # {} => First(crlf) \in crlf
    <2>1. ASSUME NEW S \in SUBSET Nat, S # {} PROVE First(S) \in S
      <3>1. PICK n \in S : \A m \in S : n <= m
        BY <2>1, SmallestNat
      <3>2. First(S) = n
        BY <3>1, FirstIs
      <3> QED
        BY <3>2
    <2>2. lf \in SUBSET Nat /\ crlf \in SUBSET Nat
      BY <1>6
    <2> QED
      BY <2>1, <2>2
  <1>10. CASE EventLength = 4
    <2>1. CASE Len(b) < 4
      <3>1. lf = {} /\ crlf = {}
        BY <1>1, <1>6, <1>8, <2>1
      <3> QED
        BY <3>1, <1>7, <1>10, <2>1
    <2>2. CASE Len(b) >= 4
      <3>1. b[3] = LF /\ b[4] = LF
        BY <1>1, <1>2, <1>10, <2>2 DEF IsEncoded
      <3>2. 3 \in lf
        BY <3>1, <1>1, <1>4, <2>2
      <3>3. First(lf) = 3
        <4>1. lf \in SUBSET Nat /\ \A i \in lf : 3 <= i
          BY <1>6, <1>8
        <4> QED
          BY <3>2, <4>1, FirstIs
      <3>4. crlf # {} => 3 <= First(crlf)
        BY <1>6, <1>8, <1>9
      <3>5. Terminator(b) = <<3, 2>>
        BY <1>7, <3>2, <3>3, <3>4
      <3> QED
        BY <3>5, <1>1, <1>10, <2>2
    <2> QED
      BY <2>1, <2>2, <1>1
  <1>11. CASE EventLength = 6
    <2>1. CASE Len(b) < 6
      <3>1. crlf = {}
        BY <1>1, <1>6, <1>8, <2>1
      <3>2. ASSUME NEW i \in lf PROVE FALSE
        <4>1. i \in Nat /\ i >= 3 /\ i + 1 <= Len(b) /\ b[i] = LF /\ b[i + 1] = LF
          BY <1>6, <1>8
        <4>2. i = 3 \/ i = 4
          BY <4>1, <1>1, <2>1
        <4>3. Len(b) >= 3 /\ b[3] = CR
          BY <4>1, <1>1, <1>2, <1>11 DEF IsEncoded
        <4>4. i = 4 => b[5] = CR
          BY <4>1, <1>1, <1>2, <1>11 DEF IsEncoded
        <4> QED
          BY <4>1, <4>2, <4>3, <4>4, <1>1
      <3> QED
        BY <3>1, <3>2, <1>7, <1>11, <2>1
    <2>2. CASE Len(b) >= 6
      <3>1. b[3] = CR /\ b[4] = LF /\ b[5] = CR /\ b[6] = LF
        BY <1>1, <1>2, <1>11, <2>2 DEF IsEncoded
      <3>2. 3 \in crlf
        BY <3>1, <1>1, <1>5, <2>2
      <3>3. First(crlf) = 3
        <4>1. crlf \in SUBSET Nat /\ \A i \in crlf : 3 <= i
          BY <1>6, <1>8
        <4> QED
          BY <3>2, <4>1, FirstIs
      <3>4. lf # {} => First(lf) \in Nat /\ First(lf) > 3
        <4>1. ASSUME NEW i \in lf PROVE i \in Nat /\ i > 3
          <5>1. i \in Nat /\ i >= 3 /\ b[i] = LF
            BY <1>6, <1>8
          <5>2. i # 3
            BY <5>1, <3>1, <1>1
          <5> QED
            BY <5>1, <5>2
        <4> QED
          BY <4>1, <1>9
      <3>5. lf # {} => ~(First(lf) <= 3)
        BY <3>4
      <3>6. Terminator(b) = <<3, 4>>
        BY <1>7, <3>2, <3>3, <3>5
      <3> QED
        BY <3>6, <1>1, <1>11, <2>2
    <2> QED
      BY <2>1, <2>2, <1>1
  <1> QED
    BY <1>2, <1>10, <1>11

-----------------------------------------------------------------------------
(* The stream between server and reader *)

\* Where atom j of item q lies in a stream of all but the first k of n items.
LEMMA AtomAt ==
  ASSUME NEW L \in {4, 6}, NEW n \in Nat, NEW k \in 0 .. n, NEW q \in k + 1 .. n,
         NEW j \in 1 .. L
  PROVE  /\ (q - k - 1) * L + j \in 1 .. (n - k) * L
         /\ q # k + 1 => (q - (k + 1) - 1) * L + j + L = (q - k - 1) * L + j
  <1>1. CASE L = 4
    BY <1>1
  <1>2. CASE L = 6
    BY <1>2
  <1> QED
    BY <1>1, <1>2

\* The buffer begins with the first event that was not consumed.
LEMMA FrontIs ==
  ASSUME StreamTyped, NEW b \in Seq(Atoms), NEW w \in Seq(Atoms),
         NEW k \in 0 .. Len(sent) - 1, Follows(b \o w, k)
  PROVE  \A j \in 1 .. EventLength : j <= Len(b) => b[j] = Encode(sent[k + 1])[j]
  <1> DEFINE L == EventLength
             s == b \o w
  <1>1. Len(sent) \in Nat /\ k + 1 \in k + 1 .. Len(sent) /\ k \in Nat
    BY DEF StreamTyped
  <1>2. L \in {4, 6}
    <2>1. Mark("role") \in Items
      BY DEF Items
    <2> QED
      BY <2>1, EncodeIs DEF IsEncoded
  <1> DEFINE At(q) == \A j \in 1 .. L : s[(q - k - 1) * L + j] = Encode(sent[q])[j]
  <1>3. At(k + 1)
    <2>1. \A q \in k + 1 .. Len(sent) : At(q)
      BY DEF Follows
    <2> HIDE DEF At
    <2> QED
      BY <2>1, <1>1
  <1>4. \A j \in 1 .. L : (k + 1 - k - 1) * L + j = j
    <2>1. k + 1 - k - 1 = 0 /\ 0 * L = 0
      BY <1>1, <1>2
    <2> HIDE DEF L
    <2> QED
      BY <1>2, <2>1
  <1>5. \A j \in 1 .. Len(b) : s[j] = b[j]
    <2>1. \A j \in 1 .. Len(b) + Len(w) : s[j] = IF j <= Len(b) THEN b[j] ELSE w[j - Len(b)]
      BY ConcatProperties
    <2> QED
      BY <2>1
  <1> HIDE DEF L, s, At
  <1>6. ASSUME NEW j \in 1 .. L, j <= Len(b) PROVE b[j] = Encode(sent[k + 1])[j]
    <2>1. s[(k + 1 - k - 1) * L + j] = Encode(sent[k + 1])[j]
      BY <1>3 DEF At
    <2>2. s[j] = Encode(sent[k + 1])[j]
      BY <2>1, <1>4
    <2>3. j \in 1 .. Len(b)
      BY <1>2, <1>6
    <2> QED
      BY <2>2, <2>3, <1>5
  <1> QED
    BY <1>6 DEF L

\* Without that event the rest follows.
LEMMA RestFollows ==
  ASSUME StreamTyped, NEW b \in Seq(Atoms), NEW w \in Seq(Atoms),
         NEW k \in 0 .. Len(sent) - 1, Follows(b \o w, k), Len(b) >= EventLength
  PROVE  LET rest == SubSeq(b, EventLength + 1, Len(b)) IN
         rest \in Seq(Atoms) /\ Follows(rest \o w, k + 1)
  <1> DEFINE L == EventLength
             rest == SubSeq(b, L + 1, Len(b))
             s == b \o w
             t == rest \o w
             n == Len(sent)
  <1>1. n \in Nat /\ k \in Nat /\ k + 1 <= n /\ Len(b) \in Nat /\ Len(w) \in Nat
    BY DEF StreamTyped
  <1>2. L \in {4, 6}
    <2>1. Mark("role") \in Items
      BY DEF Items
    <2> QED
      BY <2>1, EncodeIs DEF IsEncoded
  <1>3. Len(s) = (n - k) * L
        /\ \A q \in k + 1 .. n, j \in 1 .. L :
             s[(q - k - 1) * L + j] = Encode(sent[q])[j]
    BY DEF Follows
  <1>4. Len(b) >= L
    OBVIOUS
  <1> HIDE DEF L
  <1>5. /\ rest \in Seq(Atoms) /\ Len(rest) = Len(b) - L
        /\ \A i \in 1 .. Len(b) - L : rest[i] = b[L + i]
    <2>1. \A i \in L + 1 .. Len(b) : b[i] \in Atoms
      BY <1>1, <1>2
    <2>2. L + 1 \in Int /\ Len(b) \in Int
      BY <1>1, <1>2
    <2>3. /\ rest \in Seq(Atoms)
          /\ Len(rest) = IF L + 1 <= Len(b) THEN Len(b) - (L + 1) + 1 ELSE 0
          /\ \A i \in 1 .. Len(b) - (L + 1) + 1 : rest[i] = b[(L + 1) + i - 1]
      BY <2>1, <2>2, SubSeqProperties, SMTT(40)
    <2> HIDE DEF rest
    <2>4. Len(b) - (L + 1) + 1 = Len(b) - L /\ \A i \in Nat : (L + 1) + i - 1 = L + i
      BY <1>1, <1>2
    <2>5. Len(rest) = Len(b) - L
      BY <2>3, <1>1, <1>2, <1>4
    <2>6. ASSUME NEW i \in 1 .. Len(b) - L PROVE rest[i] = b[L + i]
      <3>1. i \in 1 .. Len(b) - (L + 1) + 1 /\ (L + 1) + i - 1 = L + i
        BY <2>4
      <3> QED
        BY <3>1, <2>3
    <2> QED
      BY <2>3, <2>5, <2>6
  <1> HIDE DEF rest
  <1>6. /\ Len(s) = Len(b) + Len(w)
        /\ \A i \in 1 .. Len(b) + Len(w) : s[i] = IF i <= Len(b) THEN b[i] ELSE w[i - Len(b)]
    BY ConcatProperties
  <1>7. /\ Len(t) = Len(rest) + Len(w)
        /\ \A i \in 1 .. Len(rest) + Len(w) :
             t[i] = IF i <= Len(rest) THEN rest[i] ELSE w[i - Len(rest)]
    BY <1>5, ConcatProperties
  <1> HIDE DEF s, t, n
  <1>8. Len(t) = (n - (k + 1)) * L
    <2>1. Len(t) = (n - k) * L - L
      BY <1>1, <1>2, <1>3, <1>5, <1>6, <1>7
    <2>2. CASE L = 4
      BY <2>1, <2>2, <1>1
    <2>3. CASE L = 6
      BY <2>1, <2>3, <1>1
    <2> QED
      BY <1>2, <2>2, <2>3
  <1>9. ASSUME NEW i \in 1 .. Len(t) PROVE t[i] = s[i + L]
    <2>1. i \in 1 .. Len(rest) + Len(w) /\ i + L \in 1 .. Len(b) + Len(w)
      BY <1>1, <1>2, <1>4, <1>5, <1>7
    <2>2. CASE i <= Len(rest)
      <3>1. t[i] = rest[i] /\ i \in 1 .. Len(b) - L
        BY <2>1, <2>2, <1>1, <1>2, <1>5, <1>7
      <3>2. rest[i] = b[L + i] /\ L + i = i + L
        BY <3>1, <1>5, <1>2
      <3>3. i + L <= Len(b)
        BY <3>1, <1>1, <1>2
      <3>4. s[i + L] = b[i + L]
        BY <3>3, <2>1, <1>6
      <3> QED
        BY <3>1, <3>2, <3>4
    <2>3. CASE ~(i <= Len(rest))
      <3>1. t[i] = w[i - Len(rest)]
        BY <2>1, <2>3, <1>7
      <3>2. ~(i + L <= Len(b)) /\ (i + L) - Len(b) = i - Len(rest)
        BY <2>1, <2>3, <1>1, <1>2, <1>5
      <3>3. s[i + L] = w[(i + L) - Len(b)]
        BY <3>2, <2>1, <1>6
      <3> QED
        BY <3>1, <3>2, <3>3
    <2> QED
      BY <2>2, <2>3
  <1>10. ASSUME NEW q \in (k + 1) + 1 .. n, NEW j \in 1 .. L
         PROVE  t[(q - (k + 1) - 1) * L + j] = Encode(sent[q])[j]
    <2>1. k + 1 \in 0 .. n /\ q \in k + 1 .. n /\ q # k + 1 /\ k \in 0 .. n
      BY <1>1, <1>10
    <2>2. (q - (k + 1) - 1) * L + j \in 1 .. (n - (k + 1)) * L
      BY <1>1, <1>2, <2>1, AtomAt
    <2>3. (q - (k + 1) - 1) * L + j + L = (q - k - 1) * L + j
      BY <1>1, <1>2, <2>1, AtomAt
    <2> QED
      BY <2>1, <2>2, <2>3, <1>3, <1>8, <1>9
  <1>11. Follows(t, k + 1)
    BY <1>8, <1>10 DEF Follows, n, L
  <1> QED
    BY <1>5, <1>11 DEF rest, t, L

\* Where two joints are closed in either order.
LEMMA Regroup == \A x, y, z \in Seq(Atoms) : (x \o y) \o z = x \o (y \o z)
  BY ConcatAssociative

\* A new event comes last.
LEMMA SentFollows ==
  ASSUME StreamTyped, NEW b \in Seq(Atoms), NEW w \in Seq(Atoms), NEW item \in Items,
         NEW k \in 0 .. Len(sent), Follows(b \o w, k),
         sent' = Append(sent, item), eol' = eol, buf' = b, wire' = w \o Encode(item)
  PROVE  Follows(buf \o wire, k)' /\ wire' \in Seq(Atoms)
  <1> DEFINE L == EventLength
             n == Len(sent)
             s == b \o w
             e == Encode(item)
             t == s \o e
  <1>1. n \in Nat /\ k \in Nat /\ k <= n /\ sent \in Seq(Items)
    BY DEF StreamTyped
  <1>2. e \in Seq(Atoms) /\ Len(e) = L /\ L \in {4, 6}
    BY EncodeIs DEF IsEncoded
  <1>3. /\ Len(s) = (n - k) * L
        /\ \A q \in k + 1 .. n, j \in 1 .. L :
             s[(q - k - 1) * L + j] = Encode(sent[q])[j]
    BY DEF Follows
  <1>4. s \in Seq(Atoms)
    BY ConcatProperties
  <1>5. buf' \o wire' = t /\ wire' \in Seq(Atoms)
    <2>0. e \in Seq(Atoms)
      BY <1>2
    <2> HIDE DEF e
    <2>1. b \o (w \o e) = (b \o w) \o e
      BY <2>0, Regroup
    <2>2. w \o e \in Seq(Atoms)
      BY <1>2, ConcatProperties
    <2> QED
      BY <2>1, <2>2 DEF e
  <1>6. EventLength' = L /\ \A x : Encode(x)' = Encode(x)
    BY DEF EventLength, Encode, Halves
  <1>7. Len(sent') = n + 1 /\ sent'[n + 1] = item /\ \A i \in 1 .. n : sent'[i] = sent[i]
    BY <1>1
  <1> HIDE DEF e, s, L
  <1>8. /\ Len(t) = Len(s) + L
        /\ \A i \in 1 .. Len(s) + L : t[i] = IF i <= Len(s) THEN s[i] ELSE e[i - Len(s)]
    <2>1. /\ Len(t) = Len(s) + Len(e)
          /\ \A i \in 1 .. Len(s) + Len(e) :
               t[i] = IF i <= Len(s) THEN s[i] ELSE e[i - Len(s)]
      BY <1>2, <1>4, ConcatProperties
    <2> HIDE DEF t
    <2> QED
      BY <2>1, <1>2
  <1> HIDE DEF t, n
  <1>9. Len(t) = ((n + 1) - k) * L
    <2>1. CASE L = 4
      BY <2>1, <1>1, <1>3, <1>8
    <2>2. CASE L = 6
      BY <2>2, <1>1, <1>3, <1>8
    <2> QED
      BY <1>2, <2>1, <2>2
  <1>10. ASSUME NEW q \in k + 1 .. n + 1, NEW j \in 1 .. L
         PROVE  t[(q - k - 1) * L + j] = Encode(sent'[q])[j]
    <2> DEFINE i == (q - k - 1) * L + j
    <2>1. i \in 1 .. Len(t)
      <3>1. n + 1 \in Nat /\ k \in 0 .. n + 1
        BY <1>1
      <3>2. i \in 1 .. ((n + 1) - k) * L
        BY <1>2, <3>1, AtomAt
      <3> QED
        BY <3>2, <1>9
    <2>2. CASE q \in k + 1 .. n
      <3>1. i \in 1 .. (n - k) * L
        BY <1>1, <1>2, <2>2, AtomAt
      <3>2. t[i] = s[i]
        BY <3>1, <2>1, <1>3, <1>8
      <3>3. s[i] = Encode(sent[q])[j]
        BY <2>2, <1>3
      <3>4. q \in 1 .. n
        BY <2>2, <1>1
      <3> QED
        BY <3>2, <3>3, <3>4, <1>7
    <2>3. CASE q = n + 1
      <3>1. i = Len(s) + j
        <4>1. CASE L = 4
          BY <4>1, <2>3, <1>1, <1>3
        <4>2. CASE L = 6
          BY <4>2, <2>3, <1>1, <1>3
        <4> QED
          BY <1>2, <4>1, <4>2
      <3>2. Len(s) \in Nat
        BY <1>4
      <3>3. ~(i <= Len(s)) /\ i - Len(s) = j
        BY <3>1, <3>2, <1>2
      <3>4. t[i] = e[j]
        BY <3>3, <2>1, <1>8
      <3> QED
        BY <3>4, <2>3, <1>7 DEF e
    <2>4. q \in k + 1 .. n \/ q = n + 1
      BY <1>1
    <2> QED
      BY <2>2, <2>3, <2>4
  <1>11. /\ Len(t) = (Len(sent') - k) * EventLength'
         /\ \A q \in k + 1 .. Len(sent'), j \in 1 .. EventLength' :
              t[(q - k - 1) * EventLength' + j] = Encode(sent'[q])[j]
    BY <1>6, <1>7, <1>9, <1>10
  <1>12. Follows(buf \o wire, k)'
    <2> QED
      BY <1>5, <1>11 DEF Follows, EventLength, Encode, Halves
  <1> QED
    BY <1>5, <1>12

\* A chunk moves the border between what was received and what was not.
LEMMA ChunkFollows ==
  ASSUME NEW b \in Seq(Atoms), NEW w \in Seq(Atoms), NEW n \in 1 .. Len(w)
  PROVE  LET front == SubSeq(w, 1, n)
             back == SubSeq(w, n + 1, Len(w))
         IN  /\ b \o front \in Seq(Atoms) /\ back \in Seq(Atoms)
             /\ (b \o front) \o back = b \o w
  <1> DEFINE front == SubSeq(w, 1, n)
             back == SubSeq(w, n + 1, Len(w))
             N == Len(w)
             t == front \o back
  <1>1. N \in Nat /\ n \in Nat /\ 1 <= n /\ n <= N
    OBVIOUS
  <1>2. /\ front \in Seq(Atoms) /\ Len(front) = n
        /\ \A i \in 1 .. n : front[i] = w[i]
    OBVIOUS
  <1>3. /\ back \in Seq(Atoms) /\ Len(back) = N - n
        /\ \A i \in 1 .. N - n : back[i] = w[n + i]
    <2>1. \A i \in n + 1 .. N : w[i] \in Atoms
      BY <1>1
    <2>2. n + 1 \in Int /\ N \in Int
      BY <1>1
    <2>3. /\ back \in Seq(Atoms)
          /\ Len(back) = IF n + 1 <= N THEN N - (n + 1) + 1 ELSE 0
          /\ \A i \in 1 .. N - (n + 1) + 1 : back[i] = w[(n + 1) + i - 1]
      BY <2>1, <2>2, SubSeqProperties
    <2> HIDE DEF back, N
    <2>4. Len(back) = N - n
      BY <1>1, <2>3
    <2>5. ASSUME NEW i \in 1 .. N - n PROVE back[i] = w[n + i]
      <3>1. i \in 1 .. N - (n + 1) + 1 /\ (n + 1) + i - 1 = n + i
        BY <1>1
      <3> QED
        BY <3>1, <2>3
    <2> QED
      BY <2>3, <2>4, <2>5
  <1> HIDE DEF front, back
  <1>4. /\ t \in Seq(Atoms) /\ Len(t) = n + (N - n)
        /\ \A i \in 1 .. n + (N - n) : t[i] = IF i <= n THEN front[i] ELSE back[i - n]
    <2>1. /\ t \in Seq(Atoms) /\ Len(t) = Len(front) + Len(back)
          /\ \A i \in 1 .. Len(front) + Len(back) :
               t[i] = IF i <= Len(front) THEN front[i] ELSE back[i - Len(front)]
      BY <1>2, <1>3, ConcatProperties
    <2>2. Len(front) = n /\ Len(back) = N - n
      BY <1>2, <1>3
    <2> HIDE DEF t, N
    <2> QED
      BY ONLY <2>1, <2>2
  <1>5. t = w
    <2> HIDE DEF t
    <2>1. Len(t) = Len(w)
      BY <1>1, <1>4
    <2>2. ASSUME NEW i \in 1 .. Len(t) PROVE t[i] = w[i]
      <3>1. i \in 1 .. n + (N - n)
        BY <1>4
      <3>2. CASE i <= n
        BY <3>1, <3>2, <1>1, <1>2, <1>4
      <3>3. CASE ~(i <= n)
        <4>1. i - n \in 1 .. N - n /\ n + (i - n) = i
          BY <3>1, <3>3, <1>1
        <4>2. t[i] = back[i - n]
          BY <3>1, <3>3, <1>4
        <4>3. back[i - n] = w[n + (i - n)]
          BY <4>1, <1>3
        <4> QED
          BY <4>1, <4>2, <4>3
      <3> QED
        BY <3>2, <3>3
    <2> QED
      BY <2>1, <2>2, <1>4, SeqEqual
  <1>6. (b \o front) \o back = b \o t
    <2>1. front \in Seq(Atoms) /\ back \in Seq(Atoms)
      BY <1>2, <1>3
    <2> QED
      BY <2>1, Regroup
  <1>7. b \o front \in Seq(Atoms)
    BY <1>2, ConcatProperties
  <1> QED
    BY <1>3, <1>5, <1>6, <1>7 DEF front, back

\* The stream is the same for the same answer.
LEMMA SameStream ==
  ASSUME UNCHANGED <<sent, eol>>, NEW k, Follows(buf' \o wire', k)
  PROVE  Follows(buf \o wire, k)'
  BY DEF Follows, EventLength, Encode, Halves

-----------------------------------------------------------------------------
(* The pieces *)

\* An item's event says to print that item's text.
LEMMA PieceIs ==
  ASSUME NEW x \in Items
  PROVE  /\ PieceOf(Halves(x)) = IF Shows(x) THEN <<x.text>> ELSE <<>>
         /\ IsDone(Halves(x)) <=> x.kind = "[DONE]"
  <1>1. \A y \in Items : Shown(Halves(x), y) <=> y = x /\ Shows(x)
    BY HoldsOne DEF Shown
  <1>2. PieceOf(Halves(x)) = IF Shows(x) THEN <<x.text>> ELSE <<>>
    <2>1. CASE Shows(x)
      <3>1. (CHOOSE y \in Items : Shown(Halves(x), y)) = x
        BY <1>1, <2>1
      <3>2. \E y \in Items : Shown(Halves(x), y)
        BY <1>1, <2>1
      <3> QED
        BY <3>1, <3>2, <2>1 DEF PieceOf
    <2>2. CASE ~Shows(x)
      BY <1>1, <2>2 DEF PieceOf
    <2> QED
      BY <2>1, <2>2
  <1>3. Mark("[DONE]") \in Items /\ (x.kind = "[DONE]" <=> x = Mark("[DONE]"))
    BY DEF Items, Mark, Content
  <1> QED
    BY <1>2, <1>3, HoldsOne DEF IsDone

\* The items to be shown, and their places among the pieces.
LEMMA ShowsFinite ==
  ASSUME NEW T, T \subseteq Nat, NEW k \in Nat, T \subseteq 1 .. k, NEW i
  PROVE  LET upTo == {j \in T : j <= i} IN
         /\ IsFiniteSet(T) /\ Cardinality(T) \in Nat
         /\ IsFiniteSet(upTo) /\ Cardinality(upTo) \in Nat
         /\ Cardinality(upTo) <= Cardinality(T)
         /\ (\E j \in T : j <= i) => Cardinality(upTo) > 0
  <1> DEFINE upTo == {j \in T : j <= i}
  <1>1. IsFiniteSet(1 .. k)
    BY FS_Interval
  <1>2. IsFiniteSet(T)
    BY <1>1, FS_Subset
  <1>3. upTo \subseteq T
    OBVIOUS
  <1> HIDE DEF upTo
  <1>4. IsFiniteSet(upTo) /\ Cardinality(upTo) <= Cardinality(T)
    BY <1>2, <1>3, FS_Subset
  <1>5. Cardinality(T) \in Nat /\ Cardinality(upTo) \in Nat
    BY <1>2, <1>4, FS_CardinalityType
  <1>6. upTo # {} => Cardinality(upTo) # 0
    BY <1>4, FS_EmptySet
  <1>7. (\E j \in T : j <= i) => upTo # {}
    BY DEF upTo
  <1> QED
    BY <1>2, <1>4, <1>5, <1>6, <1>7 DEF upTo

\* One item more, and its piece if it has one.
LEMMA PrintsNext ==
  ASSUME NEW p \in Seq(Pieces), NEW k \in 0 .. Len(sent) - 1, sent \in Seq(Items),
         Printed(p, k)
  PROVE  LET x == sent[k + 1]
             q == p \o IF Shows(x) THEN <<x.text>> ELSE <<>>
         IN  q \in Seq(Pieces) /\ Printed(q, k + 1)
  <1> DEFINE x == sent[k + 1]
             q == p \o IF Shows(x) THEN <<x.text>> ELSE <<>>
             T == ShowsUpTo(k)
             U == ShowsUpTo(k + 1)
             Rank(S, i) == Cardinality({j \in S : j <= i})
  <1>1. k \in Nat /\ k + 1 \in 1 .. Len(sent) /\ x \in Items /\ Len(p) \in Nat
    OBVIOUS
  <1>2. T \subseteq Nat /\ T \subseteq 1 .. k /\ U \subseteq Nat /\ U \subseteq 1 .. k + 1
    BY <1>1 DEF ShowsUpTo
  <1>3. Len(p) = Cardinality(T) /\ \A i \in T : p[Rank(T, i)] = sent[i].text
    BY DEF Printed
  <1>4. U = IF Shows(x) THEN T \cup {k + 1} ELSE T
    BY <1>1 DEF ShowsUpTo
  <1>5. x.text \in Pieces
    BY <1>1, SseAssumption DEF Items, Content, Mark
  <1> HIDE DEF T, U, x
  <1>6. \A i \in T : {j \in U : j <= i} = {j \in T : j <= i}
    BY <1>1, <1>2, <1>4
  <1>7. IsFiniteSet(T) /\ Cardinality(T) \in Nat
    BY <1>1, <1>2, ShowsFinite
  <1>8. CASE ~Shows(x)
    <2>1. q = p
      BY <1>8, ConcatEmptySeq
    <2>2. U = T
      BY <1>4, <1>8
    <2> QED
      BY <2>1, <2>2, <1>3 DEF Printed, U, x
  <1>9. CASE Shows(x)
    <2> DEFINE e == <<x.text>>
    <2>1. e \in Seq(Pieces) /\ Len(e) = 1 /\ e[1] = x.text /\ q = p \o e
      BY <1>5, <1>9
    <2> HIDE DEF e, q
    <2>2. /\ q \in Seq(Pieces) /\ Len(q) = Len(p) + 1
          /\ \A i \in 1 .. Len(p) : q[i] = p[i]
          /\ q[Len(p) + 1] = x.text
      <3>1. /\ p \o e \in Seq(Pieces) /\ Len(p \o e) = Len(p) + Len(e)
            /\ \A i \in 1 .. Len(p) + Len(e) :
                 (p \o e)[i] = IF i <= Len(p) THEN p[i] ELSE e[i - Len(p)]
        BY <2>1, ConcatProperties
      <3>2. Len(p) + 1 \in 1 .. Len(p) + Len(e) /\ (Len(p) + 1) - Len(p) = 1
            /\ ~(Len(p) + 1 <= Len(p)) /\ \A i \in 1 .. Len(p) : i \in 1 .. Len(p) + Len(e)
        BY <1>1, <2>1
      <3> QED
        BY <3>1, <3>2, <1>1, <2>1
    <2>3. U = T \cup {k + 1} /\ k + 1 \notin T
      BY <1>1, <1>2, <1>4, <1>9
    <2>4. Cardinality(U) = Cardinality(T) + 1
      BY <2>3, <1>7, FS_AddElement
    <2>5. ASSUME NEW i \in U PROVE q[Rank(U, i)] = sent[i].text
      <3>1. CASE i \in T
        <4>1. Rank(U, i) = Rank(T, i)
          BY <3>1, <1>6
        <4>2. Rank(T, i) \in Nat /\ Rank(T, i) > 0 /\ Rank(T, i) <= Cardinality(T)
          <5>1. i <= i
            BY <3>1, <1>2
          <5> QED
            BY <5>1, <3>1, <1>1, <1>2, ShowsFinite
        <4>3. Rank(T, i) \in 1 .. Len(p)
          BY <4>2, <1>3, <1>7
        <4> QED
          BY <4>1, <4>3, <3>1, <1>3, <2>2
      <3>2. CASE i = k + 1
        <4>1. {j \in U : j <= i} = U
          <5>1. \A j \in U : j \in 1 .. k + 1
            BY <1>2
          <5>2. \A j \in U : j <= i
            BY <5>1, <3>2, <1>1
          <5> QED
            BY <5>2
        <4>2. Rank(U, i) = Len(p) + 1
          BY <4>1, <2>4, <1>3
        <4> QED
          BY <4>2, <3>2, <2>2 DEF x
      <3> QED
        BY <3>1, <3>2, <2>3
    <2>6. Printed(q, k + 1)
      BY <2>2, <2>4, <2>5, <1>3 DEF Printed, U
    <2> QED
      BY <2>2, <2>6 DEF q, x
  <1> QED
    BY <1>8, <1>9

\* What was printed stays so when more is sent.
LEMMA SamePrinted ==
  ASSUME sent \in Seq(Items), NEW item \in Items, NEW k \in 0 .. Len(sent),
         sent' = sent \/ sent' = Append(sent, item), Printed(printed', k)
  PROVE  Printed(printed, k)'
  <1>1. \A i \in 1 .. k : sent'[i] = sent[i]
    OBVIOUS
  <1>2. ShowsUpTo(k)' = ShowsUpTo(k)
    BY <1>1 DEF ShowsUpTo, Shows
  <1>3. \A i \in ShowsUpTo(k) : sent'[i] = sent[i]
    BY <1>1 DEF ShowsUpTo
  <1> QED
    BY <1>2, <1>3 DEF Printed

-----------------------------------------------------------------------------
(* The steps *)

\* The client opens no stream.
LEMMA BeforeStream ==
  ASSUME StreamInv,
         \/ pc \in {"healthz", "post"} /\ pc' \in {"healthz", "post", "error"}
            /\ UNCHANGED <<eol, sent, model, wire, buf, printed, asked>>
         \/ pc' \in {"ok", "error"} /\ pc = "stream"
            /\ UNCHANGED <<eol, sent, model, wire, buf, printed, asked, restarted, loaded>>,
         pc' = "post" /\ ~restarted' => loaded' = asked,
         restarted => restarted'
  PROVE  StreamInv'
  <1>1. StreamTyped'
    BY DEF StreamInv, StreamTyped
  <1>2. UNCHANGED <<eol, sent, wire, buf, printed>> /\ pc # "events" /\ pc' # "events"
    OBVIOUS
  <1>3. PICK k \in 0 .. Len(sent) : ReaderAt(k)
    BY DEF StreamInv, ReaderInv
  <1>4. Follows(buf' \o wire', k) /\ Printed(printed', k) /\ Len(buf) < EventLength
    BY <1>2, <1>3 DEF ReaderAt
  <1>5. Follows(buf \o wire, k)'
    BY <1>2, <1>4, SameStream
  <1>6. Printed(printed, k)'
    BY <1>2, <1>4 DEF Printed, ShowsUpTo, Shows
  <1>7. ReaderAt(k)'
    BY <1>2, <1>3, <1>4, <1>5, <1>6 DEF ReaderAt, EventLength
  <1>8. ReaderInv'
    BY <1>2, <1>3, <1>7 DEF ReaderInv
  <1>9. AnswerInv'
    BY <1>2 DEF StreamInv, AnswerInv, Closed, Answered, OfKind
  <1>10. ModelInv'
    BY DEF StreamInv, ModelInv
  <1> QED
    BY <1>1, <1>8, <1>9, <1>10 DEF StreamInv

\* The first event of an answer.
LEMMA PostAcceptedStep ==
  ASSUME StreamInv, PostAccepted
  PROVE  StreamInv'
  <1> DEFINE role == Mark("role")
  <1>1. /\ pc = "post" /\ pc' = "stream" /\ model' = loaded /\ sent' = <<role>>
        /\ wire' = Encode(role) /\ UNCHANGED <<loaded, asked, restarted, eol, buf, printed>>
    BY DEF PostAccepted
  <1>2. StreamTyped /\ sent = <<>> /\ buf = <<>> /\ wire = <<>>
    BY <1>1 DEF StreamInv, ModelInv
  <1>3. role \in Items /\ role.kind = "role"
    BY DEF Items, Mark
  <1>4. sent' = Append(sent, role) /\ Len(sent) = 0
    BY <1>1, <1>2
  <1>5. Encode(role) \in Seq(Atoms) /\ EventLength \in {4, 6}
    BY <1>2, <1>3, EncodeIs DEF IsEncoded
  <1> HIDE DEF role
  <1>6. /\ <<>> \in Seq(Atoms) /\ wire' = <<>> \o Encode(role)
        /\ <<>> \o <<>> = <<>>
    BY <1>1, <1>5, ConcatEmptySeq
  <1>7. PICK k \in 0 .. Len(sent) : ReaderAt(k)
    BY DEF StreamInv, ReaderInv
  <1>8. k = 0
    BY <1>4, <1>7
  <1>9. Follows(<<>> \o <<>>, k)
    BY <1>2, <1>7 DEF ReaderAt
  <1>10. Follows(buf \o wire, k)' /\ wire' \in Seq(Atoms)
    BY <1>1, <1>2, <1>3, <1>4, <1>6, <1>7, <1>9, SentFollows
  <1>11. Printed(printed, k)'
    BY <1>1, <1>2, <1>3, <1>4, <1>7, SamePrinted DEF ReaderAt, StreamTyped
  <1>12. Len(buf') < EventLength' /\ k \in 0 .. Len(sent')
    <2>1. EventLength' = EventLength /\ Len(buf') = 0 /\ Len(sent') = 1
      BY <1>1, <1>2 DEF EventLength
    <2> QED
      BY <2>1, <1>5, <1>8
  <1>13. ReaderInv'
    BY <1>1, <1>10, <1>11, <1>12 DEF ReaderInv, ReaderAt
  <1>14. StreamTyped'
    BY <1>1, <1>2, <1>3, <1>10 DEF StreamTyped
  <1>15. AnswerInv'
    <2>1. DOMAIN sent' = {1} /\ sent'[1].kind = "role"
      BY <1>1, <1>3
    <2>2. OfKind({"[DONE]"})' = {}
      BY <2>1 DEF OfKind
    <2> QED
      BY <2>1, <2>2 DEF AnswerInv, Closed
  <1>16. ModelInv'
    BY <1>1 DEF StreamInv, ModelInv
  <1> QED
    BY <1>13, <1>14, <1>15, <1>16 DEF StreamInv

\* [DONE] is sent once, after the answer's last item, and nothing after it.
LEMMA SendAnswers ==
  ASSUME sent \in Seq(Items), AnswerInv, NEW item \in Items, MaySend(item),
         sent' = Append(sent, item)
  PROVE  AnswerInv'
  <1>1. ~Closed
    BY DEF MaySend, AnswerInv
  <1>2. item.kind = "[DONE]" => Answered
    BY DEF MaySend
  <1> DEFINE n == Len(sent)
  <1>3. /\ n \in Nat /\ DOMAIN sent = 1 .. n /\ DOMAIN sent' = 1 .. n + 1
        /\ Len(sent') = n + 1 /\ sent'[n + 1] = item /\ \A i \in 1 .. n : sent'[i] = sent[i]
    OBVIOUS
  <1> HIDE DEF n
  <1>4. \A i \in 1 .. n : sent[i].kind # "[DONE]"
    BY <1>1, <1>3 DEF Closed, OfKind
  <1>5. \A i \in 1 .. n + 1 : i # n + 1 => i \in 1 .. n
    BY <1>3
  <1>6. \A i \in DOMAIN sent' : sent'[i].kind = "[DONE]" => i = Len(sent')
    BY <1>3, <1>4, <1>5
  <1>7. Answered => Answered'
    <2>1. \A i \in 1 .. n : i \in 1 .. n + 1
      BY <1>3
    <2> QED
      BY <2>1, <1>3 DEF Answered, OfKind
  <1>8. Closed' => item.kind = "[DONE]"
    BY <1>3, <1>4, <1>5 DEF Closed, OfKind
  <1> QED
    BY <1>2, <1>6, <1>7, <1>8 DEF AnswerInv

\* The server sends, and the reader stands where it stood.
LEMMA SendStep ==
  ASSUME StreamInv, NEW item \in Items, Send(item)
  PROVE  StreamInv'
  <1>1. /\ pc \in {"stream", "events"} /\ pc' = pc /\ MaySend(item)
        /\ sent' = Append(sent, item) /\ wire' = wire \o Encode(item)
        /\ UNCHANGED <<loaded, asked, restarted, eol, model, buf, printed>>
    BY DEF Send
  <1>2. StreamTyped /\ sent \in Seq(Items) /\ buf \in Seq(Atoms) /\ wire \in Seq(Atoms)
    BY DEF StreamInv, StreamTyped
  <1>3. PICK k \in 0 .. Len(sent) : ReaderAt(k)
    BY DEF StreamInv, ReaderInv
  <1>4. Follows(buf \o wire, k)' /\ wire' \in Seq(Atoms)
    BY <1>1, <1>2, <1>3, SentFollows DEF ReaderAt
  <1>5. Printed(printed, k)'
    BY <1>1, <1>2, <1>3, SamePrinted DEF ReaderAt
  <1>6. k \in 0 .. Len(sent')
    <2>1. Len(sent') = Len(sent) + 1
      BY <1>1, <1>2
    <2> QED
      BY <2>1, <1>2
  <1>7. ReaderAt(k)'
    BY <1>1, <1>3, <1>4, <1>5, <1>6 DEF ReaderAt, EventLength
  <1>8. ReaderInv'
    BY <1>6, <1>7 DEF ReaderInv
  <1>9. StreamTyped'
    <2>1. sent' \in Seq(Items)
      BY <1>1, <1>2
    <2> QED
      BY <2>1, <1>1, <1>2, <1>4 DEF StreamTyped
  <1>10. AnswerInv'
    BY <1>1, <1>2, SendAnswers DEF StreamInv
  <1>11. ModelInv'
    <2>1. sent # <<>>
      BY <1>1 DEF StreamInv, ModelInv
    <2>2. sent' # <<>>
      BY <1>1, <1>2
    <2> QED
      BY <2>1, <2>2, <1>1 DEF StreamInv, ModelInv
  <1> QED
    BY <1>8, <1>9, <1>10, <1>11 DEF StreamInv

\* A chunk arrives, and nothing is consumed yet.
LEMMA ReceiveStep ==
  ASSUME StreamInv, NEW n \in 1 .. Len(wire), Receive(n)
  PROVE  StreamInv'
  <1>1. /\ pc = "stream" /\ pc' = "events"
        /\ buf' = buf \o SubSeq(wire, 1, n) /\ wire' = SubSeq(wire, n + 1, Len(wire))
        /\ UNCHANGED <<loaded, asked, restarted, eol, sent, model, printed>>
    BY DEF Receive
  <1>2. StreamTyped /\ buf \in Seq(Atoms) /\ wire \in Seq(Atoms)
    BY DEF StreamInv, StreamTyped
  <1>3. PICK k \in 0 .. Len(sent) : ReaderAt(k)
    BY DEF StreamInv, ReaderInv
  <1>4. buf' \in Seq(Atoms) /\ wire' \in Seq(Atoms) /\ buf' \o wire' = buf \o wire
    BY <1>1, <1>2, ChunkFollows
  <1>5. Follows(buf \o wire, k)'
    BY <1>1, <1>3, <1>4, SameStream DEF ReaderAt
  <1>6. Printed(printed, k)'
    BY <1>1, <1>3 DEF ReaderAt, Printed, ShowsUpTo, Shows
  <1>7. ReaderInv'
    BY <1>1, <1>3, <1>5, <1>6 DEF ReaderInv, ReaderAt
  <1>8. StreamTyped'
    BY <1>1, <1>2, <1>4 DEF StreamTyped
  <1>9. AnswerInv'
    BY <1>1 DEF StreamInv, AnswerInv, Closed, Answered, OfKind
  <1>10. ModelInv'
    BY <1>1 DEF StreamInv, ModelInv
  <1> QED
    BY <1>7, <1>8, <1>9, <1>10 DEF StreamInv

\* A pass of the loop finds no terminator, and less than an event.
LEMMA PartialEventStep ==
  ASSUME StreamInv, PartialEvent
  PROVE  StreamInv'
  <1>1. /\ pc = "events" /\ pc' = "stream" /\ Terminator(buf)[2] = 0
        /\ UNCHANGED <<loaded, asked, restarted, eol, sent, model, wire, buf, printed>>
    BY DEF PartialEvent
  <1>2. StreamTyped /\ buf \in Seq(Atoms) /\ wire \in Seq(Atoms) /\ sent \in Seq(Items)
    BY DEF StreamInv, StreamTyped
  <1>3. PICK k \in 0 .. Len(sent) : ReaderAt(k)
    BY DEF StreamInv, ReaderInv
  <1>4. EventLength \in {4, 6}
    <2>1. Mark("role") \in Items
      BY DEF Items
    <2> QED
      BY <2>1, <1>2, EncodeIs DEF IsEncoded
  <1>5. Len(buf) < EventLength
    <2>1. CASE k = Len(sent)
      <3>1. Len(buf \o wire) = 0
        <4>1. Len(buf \o wire) = (Len(sent) - k) * EventLength
          BY <1>3 DEF ReaderAt, Follows
        <4>2. Len(sent) - k = 0
          BY <2>1, <1>2
        <4> QED
          BY <4>1, <4>2, <1>4
      <3>2. Len(buf \o wire) = Len(buf) + Len(wire)
        BY <1>2
      <3>3. Len(buf) \in Nat /\ Len(wire) \in Nat
        BY <1>2
      <3> QED
        BY <3>1, <3>2, <3>3, <1>4
    <2>2. CASE k # Len(sent)
      <3>1. k \in 0 .. Len(sent) - 1 /\ k + 1 \in 1 .. Len(sent)
        BY <2>2, <1>2
      <3>2. sent[k + 1] \in Items
        BY <3>1, <1>2
      <3>3. \A j \in 1 .. EventLength : j <= Len(buf) => buf[j] = Encode(sent[k + 1])[j]
        BY <3>1, <1>2, <1>3, FrontIs DEF ReaderAt
      <3>4. Terminator(buf) = IF Len(buf) < EventLength THEN <<0, 0>>
                              ELSE <<3, EventLength - 2>>
        BY <3>2, <3>3, <1>2, TerminatorIs
      <3>5. EventLength - 2 # 0
        BY <1>4
      <3> QED
        BY <3>4, <3>5, <1>1
    <2> QED
      BY <2>1, <2>2
  <1>6. Follows(buf' \o wire', k)
    BY <1>1, <1>3 DEF ReaderAt
  <1>7. Follows(buf \o wire, k)'
    BY <1>1, <1>6, SameStream
  <1>8. Printed(printed, k)'
    BY <1>1, <1>3 DEF ReaderAt, Printed, ShowsUpTo, Shows
  <1>9. ReaderInv'
    BY <1>1, <1>3, <1>5, <1>7, <1>8 DEF ReaderInv, ReaderAt, EventLength
  <1>10. StreamTyped'
    BY <1>1, <1>2 DEF StreamTyped
  <1>11. AnswerInv'
    BY <1>1 DEF StreamInv, AnswerInv, Closed, Answered, OfKind
  <1>12. ModelInv'
    BY <1>1 DEF StreamInv, ModelInv
  <1> QED
    BY <1>9, <1>10, <1>11, <1>12 DEF StreamInv

\* The loop consumes the next item's event, whole and alone, and prints what it
\* shows; at [DONE], which comes last, nothing is left.
LEMMA NextEventStep ==
  ASSUME StreamInv, NextEvent
  PROVE  StreamInv'
  <1> DEFINE t == Terminator(buf)
             event == SubSeq(buf, 1, t[1] - 1)
             L == EventLength
  <1>1. /\ pc = "events" /\ t[2] # 0 /\ buf' = SubSeq(buf, t[1] + t[2], Len(buf))
        /\ printed' = printed \o PieceOf(event)
        /\ pc' = IF IsDone(event) THEN "stream" ELSE "events"
        /\ UNCHANGED <<loaded, asked, restarted, eol, sent, model, wire>>
    BY DEF NextEvent
  <1>2. /\ StreamTyped /\ buf \in Seq(Atoms) /\ wire \in Seq(Atoms) /\ sent \in Seq(Items)
        /\ printed \in Seq(Pieces)
    BY DEF StreamInv, StreamTyped
  <1>3. PICK k \in 0 .. Len(sent) : ReaderAt(k)
    BY DEF StreamInv, ReaderInv
  <1>4. Len(buf) \in Nat /\ Len(wire) \in Nat /\ Len(sent) \in Nat /\ k \in Nat
        /\ Len(buf \o wire) = Len(buf) + Len(wire)
        /\ Len(buf \o wire) = (Len(sent) - k) * EventLength
        /\ Follows(buf \o wire, k) /\ Printed(printed, k)
    <2>1. Len(buf \o wire) = Len(buf) + Len(wire)
      BY <1>2
    <2>2. Follows(buf \o wire, k) /\ Printed(printed, k)
      BY <1>3 DEF ReaderAt
    <2>3. Len(buf \o wire) = (Len(sent) - k) * EventLength
      BY <2>2 DEF Follows
    <2>4. Len(buf) \in Nat /\ Len(wire) \in Nat /\ Len(sent) \in Nat /\ k \in Nat
      BY <1>2
    <2> QED
      BY <2>1, <2>2, <2>3, <2>4
  <1>5. L \in {4, 6}
    <2>1. Mark("role") \in Items
      BY DEF Items
    <2> QED
      BY <2>1, <1>2, EncodeIs DEF IsEncoded
  <1>6. k # Len(sent)
    <2> SUFFICES ASSUME k = Len(sent) PROVE FALSE
      OBVIOUS
    <2>1. (Len(sent) - k) * L = 0
      BY <1>4, <1>5
    <2>2. Len(buf) = 0
      BY <2>1, <1>4
    <2>3. Mark("role") \in Items
      BY DEF Items
    <2>4. \A j \in 1 .. L : ~(j <= Len(buf))
      BY <2>2, <1>5
    <2>5. Terminator(buf) = IF Len(buf) < L THEN <<0, 0>> ELSE <<3, L - 2>>
      BY <1>2, <2>3, <2>4, TerminatorIs
    <2>6. t = <<0, 0>>
      BY <2>2, <2>5, <1>5
    <2> QED
      BY <2>6, <1>1
  <1> DEFINE x == sent[k + 1]
  <1>7. k \in 0 .. Len(sent) - 1 /\ k + 1 \in 1 .. Len(sent) /\ x \in Items
    BY <1>2, <1>4, <1>6
  <1>8. \A j \in 1 .. L : j <= Len(buf) => buf[j] = Encode(x)[j]
    BY <1>2, <1>4, <1>7, FrontIs
  <1>9. t = <<3, L - 2>> /\ Len(buf) >= L
    <2>1. t = IF Len(buf) < L THEN <<0, 0>> ELSE <<3, L - 2>>
      BY <1>2, <1>7, <1>8, TerminatorIs
    <2>2. ~(Len(buf) < L)
      BY <2>1, <1>1
    <2> HIDE DEF t
    <2> QED
      BY <2>1, <2>2, <1>4, <1>5
  <1>10. event = Halves(x)
    <2>1. IsEncoded(Encode(x), x)
      BY <1>2, <1>7, EncodeIs
    <2>2. buf[1] = Halves(x)[1] /\ buf[2] = Halves(x)[2]
      BY <2>1, <1>5, <1>8, <1>9 DEF IsEncoded
    <2>3. event = SubSeq(buf, 1, 2)
      BY <1>9
    <2>4. /\ SubSeq(buf, 1, 2) \in Seq(Atoms) /\ Len(SubSeq(buf, 1, 2)) = 2
          /\ SubSeq(buf, 1, 2)[1] = buf[1] /\ SubSeq(buf, 1, 2)[2] = buf[2]
      BY <1>2, <1>4, <1>5, <1>9
    <2>5. Halves(x) \in Seq(Atoms) /\ Len(Halves(x)) = 2
      BY <1>7 DEF Halves, Atoms
    <2> DEFINE front == SubSeq(buf, 1, 2)
               h == Halves(x)
    <2> HIDE DEF front, h, x
    <2>6. Len(front) = 2 /\ Len(h) = 2 /\ front[1] = h[1] /\ front[2] = h[2]
      BY <2>2, <2>4, <2>5 DEF front, h
    <2>7. front \in Seq(Atoms) /\ h \in Seq(Atoms)
      BY <2>4, <2>5 DEF front, h
    <2>8. \A i \in 1 .. Len(front) : front[i] = h[i]
      BY <2>6
    <2>9. front = h
      BY <2>6, <2>7, <2>8, SeqEqual
    <2> QED
      BY <2>3, <2>9 DEF front, h
  <1>11. /\ printed' = printed \o IF Shows(x) THEN <<x.text>> ELSE <<>>
         /\ pc' = IF x.kind = "[DONE]" THEN "stream" ELSE "events"
    BY <1>1, <1>7, <1>10, PieceIs
  <1>12. buf' = SubSeq(buf, L + 1, Len(buf))
    <2>1. t[1] + t[2] = L + 1
      BY <1>5, <1>9
    <2> QED
      BY <2>1, <1>1
  <1> HIDE DEF t, event
  <1>13. buf' \in Seq(Atoms) /\ Follows(buf' \o wire, k + 1)
    BY <1>2, <1>4, <1>7, <1>9, <1>12, RestFollows
  <1>14. Follows(buf \o wire, k + 1)'
    BY <1>1, <1>13, SameStream
  <1>15. printed' \in Seq(Pieces) /\ Printed(printed', k + 1)
    BY <1>2, <1>4, <1>7, <1>11, PrintsNext
  <1>16. Printed(printed, k + 1)'
    BY <1>1, <1>15 DEF Printed, ShowsUpTo, Shows
  <1>17. pc' # "events" => Len(buf') < EventLength'
    <2> SUFFICES ASSUME pc' # "events" PROVE Len(buf') < EventLength'
      OBVIOUS
    <2>1. k + 1 = Len(sent)
      BY <1>7, <1>11 DEF StreamInv, AnswerInv
    <2>2. Len(buf' \o wire) = (Len(sent) - (k + 1)) * L
      BY <1>13 DEF Follows
    <2>3. Len(buf' \o wire) = Len(buf') + Len(wire) /\ Len(buf') \in Nat
      BY <1>2, <1>13
    <2>4. (Len(sent) - (k + 1)) * L = 0
      BY <2>1, <1>4, <1>5
    <2>5. Len(buf') = 0
      BY <2>2, <2>3, <2>4, <1>4
    <2>6. EventLength' = L
      BY <1>1 DEF EventLength
    <2> QED
      BY <2>5, <2>6, <1>5
  <1>18. ReaderInv'
    <2>1. k + 1 \in 0 .. Len(sent)'
      BY <1>1, <1>4, <1>7
    <2>2. ReaderAt(k + 1)'
      BY <2>1, <1>14, <1>16, <1>17 DEF ReaderAt
    <2> QED
      BY <2>1, <2>2 DEF ReaderInv
  <1>19. StreamTyped'
    BY <1>1, <1>2, <1>11, <1>13, <1>15 DEF StreamTyped
  <1>20. AnswerInv'
    BY <1>1 DEF StreamInv, AnswerInv, Closed, Answered, OfKind
  <1>21. ModelInv'
    BY <1>1, <1>11 DEF StreamInv, ModelInv
  <1> QED
    BY <1>18, <1>19, <1>20, <1>21 DEF StreamInv

\* The reader's invariant is inductive.
LEMMA StreamStep ==
  ASSUME StreamInv, [Next]_vars
  PROVE  StreamInv'
  <1>1. CASE Unhealthy \/ Healthy \/ PostFails
    <2>1. /\ pc \in {"healthz", "post"} /\ pc' \in {"healthz", "post", "error"}
          /\ UNCHANGED <<eol, sent, model, wire, buf, printed, asked>>
      BY <1>1 DEF Unhealthy, Healthy, PostFails, Ends
    <2>2. (pc' = "post" => loaded' = asked) /\ restarted' = restarted
      BY <1>1 DEF Unhealthy, Healthy, PostFails, Ends, IsAsked
    <2> QED
      BY <2>1, <2>2, BeforeStream
  <1>2. CASE StreamEnds \/ StreamBreaks
    BY <1>2, BeforeStream DEF StreamEnds, StreamBreaks, Ends
  <1>3. CASE Restart
    BY <1>3, BeforeStream DEF Restart
  <1>4. CASE Finished \/ UNCHANGED vars
    <2>1. UNCHANGED vars
      BY <1>4 DEF Finished
    <2>2. ReaderInv'
      <3>1. PICK k \in 0 .. Len(sent) : ReaderAt(k)
        BY DEF StreamInv, ReaderInv
      <3>2. Follows(buf' \o wire', k)
        BY <2>1, <3>1 DEF ReaderAt, vars
      <3>3. Follows(buf \o wire, k)'
        BY <2>1, <3>2, SameStream DEF vars
      <3>4. Printed(printed, k)'
        BY <2>1, <3>1 DEF ReaderAt, Printed, ShowsUpTo, Shows, vars
      <3> QED
        BY <2>1, <3>1, <3>3, <3>4 DEF ReaderInv, ReaderAt, EventLength, vars
    <2>3. StreamTyped' /\ ModelInv'
      BY <2>1 DEF StreamInv, StreamTyped, ModelInv, vars
    <2>4. AnswerInv'
      BY <2>1 DEF StreamInv, AnswerInv, Closed, Answered, OfKind, vars
    <2> QED
      BY <2>2, <2>3, <2>4 DEF StreamInv
  <1>5. CASE PostAccepted
    BY <1>5, PostAcceptedStep
  <1>6. CASE \E item \in Items : Send(item)
    BY <1>6, SendStep
  <1>7. CASE \E n \in 1 .. Len(wire) : Receive(n)
    BY <1>7, ReceiveStep
  <1>8. CASE NextEvent
    BY <1>8, NextEventStep
  <1>9. CASE PartialEvent
    BY <1>9, PartialEventStep
  <1> QED
    BY <1>1, <1>2, <1>3, <1>4, <1>5, <1>6, <1>7, <1>8, <1>9 DEF Next

\* What follows from it: the items whose event has arrived are those that were
\* consumed, and inside the loop those that are still in the buffer.
LEMMA StreamPrints == StreamInv => PrintsWhatWasSent
  <1> SUFFICES ASSUME StreamInv PROVE PrintsWhatWasSent
    OBVIOUS
  <1> DEFINE L == EventLength
             n == Len(sent)
  <1>1. /\ StreamTyped /\ buf \in Seq(Atoms) /\ wire \in Seq(Atoms) /\ sent \in Seq(Items)
        /\ printed \in Seq(Pieces)
    BY DEF StreamInv, StreamTyped
  <1>2. PICK k \in 0 .. n : ReaderAt(k)
    BY DEF StreamInv, ReaderInv
  <1>3. L \in {4, 6}
    <2>1. Mark("role") \in Items
      BY DEF Items
    <2> QED
      BY <2>1, <1>1, EncodeIs DEF IsEncoded
  <1>4. /\ n \in Nat /\ k \in Nat /\ k <= n /\ Len(buf) \in Nat /\ Len(wire) \in Nat
        /\ Len(buf) + Len(wire) = (n - k) * L
        /\ pc # "events" => Len(buf) < L
    <2>1. Len(buf \o wire) = (n - k) * L /\ (pc # "events" => Len(buf) < L)
      BY <1>2 DEF ReaderAt, Follows
    <2>2. Len(buf \o wire) = Len(buf) + Len(wire)
      BY <1>1
    <2>3. n \in Nat /\ k \in Nat /\ k <= n /\ Len(buf) \in Nat /\ Len(wire) \in Nat
      BY <1>1, <1>2
    <2> QED
      BY <2>1, <2>2, <2>3
  <1> DEFINE T == ShowsUpTo(k)
  <1>5. Len(printed) = Cardinality(T)
        /\ \A i \in T : printed[Cardinality({j \in T : j <= i})] = sent[i].text
    BY <1>2 DEF ReaderAt, Printed
  <1>6. Due = {i \in 1 .. n : Shows(sent[i]) /\ i * L + Len(wire) <= n * L}
    BY <1>1 DEF Due
  <1>7. T = {i \in 1 .. k : Shows(sent[i])}
    BY DEF ShowsUpTo
  <1> HIDE DEF L, n, T
  <1>8. ASSUME NEW i \in 1 .. n
        PROVE  /\ i <= k => i * L + Len(wire) <= n * L
               /\ pc # "events" /\ i > k => ~(i * L + Len(wire) <= n * L)
    <2>1. CASE L = 4
      BY <2>1, <1>4
    <2>2. CASE L = 6
      BY <2>2, <1>4
    <2> QED
      BY <1>3, <2>1, <2>2
  <1>9. T = {i \in Due : i <= k}
    <2>1. \A i \in 1 .. k : i \in 1 .. n /\ i <= k
      BY <1>4
    <2>2. \A i \in 1 .. n : i <= k => i \in 1 .. k
      BY <1>4
    <2> QED
      BY <2>1, <2>2, <1>6, <1>7, <1>8
  <1>10. Due \subseteq 1 .. n /\ T \subseteq Due /\ Due \subseteq Nat
    BY <1>4, <1>6, <1>9
  <1>11. /\ IsFiniteSet(Due) /\ Cardinality(Due) \in Nat
         /\ \A i : Place(i) \in Nat /\ Place(i) <= Cardinality(Due)
    BY <1>4, <1>10, ShowsFinite DEF Place
  <1>12. IsFiniteSet(T) /\ Cardinality(T) \in Nat /\ Cardinality(T) <= Cardinality(Due)
    BY <1>10, <1>11, FS_Subset, FS_CardinalityType
  <1>13. ASSUME NEW i \in Due, Place(i) <= Len(printed)
         PROVE  printed[Place(i)] = sent[i].text
    <2>1. CASE i <= k
      <3>1. i \in T
        BY <2>1, <1>9
      <3>2. {j \in Due : j <= i} = {j \in T : j <= i}
        <4>1. \A j \in Due : j <= i => j <= k
          BY <2>1, <1>4, <1>10
        <4> QED
          BY <4>1, <1>9
      <3> QED
        BY <3>1, <3>2, <1>5 DEF Place
    <2>2. CASE ~(i <= k)
      <3> DEFINE upTo == {j \in Due : j <= i}
      <3>1. i \notin T
        BY <2>2, <1>9
      <3>2. T \cup {i} \subseteq upTo
        <4>1. \A j \in T : j \in Due /\ j <= i
          BY <2>2, <1>4, <1>9, <1>10
        <4>2. i <= i
          BY <1>10
        <4> QED
          BY <4>1, <4>2
      <3>3. IsFiniteSet(upTo)
        BY <1>11, FS_Subset
      <3> HIDE DEF upTo
      <3>4. Cardinality(T \cup {i}) = Cardinality(T) + 1
        BY <3>1, <1>12, FS_AddElement
      <3>5. Cardinality(T \cup {i}) <= Cardinality(upTo)
        BY <3>2, <3>3, FS_Subset
      <3>6. Place(i) = Cardinality(upTo)
        BY DEF Place, upTo
      <3>7. Place(i) <= Cardinality(T)
        BY <1>5, <1>13
      <3>8. Cardinality(T) + 1 <= Place(i)
        BY <3>4, <3>5, <3>6
      <3> QED
        BY <3>7, <3>8, <1>11, <1>12
    <2> QED
      BY <2>1, <2>2
  <1>14. IF pc = "events" THEN Len(printed) <= Cardinality(Due)
                          ELSE Len(printed) = Cardinality(Due)
    <2>1. CASE pc = "events"
      BY <2>1, <1>5, <1>12
    <2>2. CASE pc # "events"
      <3>1. \A i \in Due : i <= k
        BY <2>2, <1>4, <1>6, <1>8
      <3>2. Due = T
        BY <3>1, <1>9
      <3> QED
        BY <3>2, <2>2, <1>5
    <2> QED
      BY <2>1, <2>2
  <1>15. printed # <<>> /\ ~restarted => model = asked
    <2>1. sent = <<>> => printed = <<>>
      <3> SUFFICES ASSUME sent = <<>> PROVE printed = <<>>
        OBVIOUS
      <3>1. n = 0
        BY DEF n
      <3>2. T = {}
        BY <3>1, <1>4, <1>7
      <3>3. Len(printed) = 0
        BY <3>2, <1>5, FS_EmptySet
      <3> QED
        BY <3>3, <1>1
    <2> QED
      BY <2>1 DEF StreamInv, ModelInv
  <1> QED
    BY <1>13, <1>14, <1>15 DEF PrintsWhatWasSent

\* However an answer is cut, whatever its line ends and its length: what is
\* printed is what was sent (PrintsWhatWasSent; run_remote, main.rs:1187-1222).
THEOREM ReaderPrints == Spec => []PrintsWhatWasSent
  <1>1. Init => StreamInv
    <2> SUFFICES ASSUME Init PROVE StreamInv
      OBVIOUS
    <2>1. /\ restarted = FALSE /\ eol \in {<<LF>>, <<CR, LF>>} /\ sent = <<>>
          /\ wire = <<>> /\ buf = <<>> /\ printed = <<>> /\ pc = "healthz"
      BY DEF Init
    <2>2. StreamTyped
      BY <2>1 DEF StreamTyped
    <2>3. EventLength \in {4, 6}
      <3>1. Mark("role") \in Items
        BY DEF Items
      <3> QED
        BY <3>1, <2>2, EncodeIs DEF IsEncoded
    <2>4. /\ <<>> \in Seq(Atoms) /\ <<>> \o <<>> = <<>>
          /\ buf \o wire = <<>> /\ Len(buf \o wire) = 0 /\ Len(sent) = 0 /\ Len(buf) = 0
      <3>1. <<>> \in Seq(Atoms) /\ <<>> \o <<>> = <<>>
        BY ConcatEmptySeq
      <3> QED
        BY <3>1, <2>1
    <2>5. Follows(buf \o wire, 0)
      <3>1. (Len(sent) - 0) * EventLength = 0
        BY <2>3, <2>4
      <3>2. 0 + 1 .. Len(sent) = {}
        BY <2>4
      <3> QED
        BY <3>1, <3>2, <2>4 DEF Follows
    <2>6. Printed(printed, 0)
      <3>1. ShowsUpTo(0) = {}
        BY DEF ShowsUpTo
      <3> QED
        BY <3>1, <2>1, FS_EmptySet DEF Printed
    <2>7. ReaderInv
      BY <2>3, <2>4, <2>5, <2>6 DEF ReaderInv, ReaderAt
    <2>8. AnswerInv
      BY <2>1 DEF AnswerInv, Closed, OfKind
    <2>9. ModelInv
      BY <2>1 DEF ModelInv
    <2> QED
      BY <2>2, <2>7, <2>8, <2>9 DEF StreamInv
  <1>2. StreamInv /\ [Next]_vars => StreamInv'
    BY StreamStep
  <1>3. Spec => []StreamInv
    BY <1>1, <1>2, PTL DEF Spec
  <1> QED
    BY <1>3, StreamPrints, PTL
=============================================================================
