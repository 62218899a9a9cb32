------------------------ MODULE ChatCompletion_proofs ------------------------
(***************************************************************************)
(* Proofs about ChatCompletion.  The scan of a reply for tool calls, for   *)
(* replies of any length; and the way of a request to its prompt: filter,  *)
(* instructions, trim and templates, for requests of any length and any    *)
(* budget.                                                                 *)
(***************************************************************************)
EXTENDS ChatCompletion, InductionLemmas, TLAPS

-----------------------------------------------------------------------------
(* The first and the last position *)

\* Of the positions that an operator of SequencesExt selects, the first is the
\* smallest and the last the largest.
LEMMA MinIs ==
  ASSUME NEW T \in SUBSET Nat, T # {}
  PROVE  Min(T) \in T /\ \A m \in T : Min(T) <= m
  BY SmallestNat DEF Min

\* A bounded set has its Max.
LEMMA MaxIs ==
  ASSUME NEW T \in SUBSET Nat, T # {}, NEW k \in Nat, \A m \in T : m <= k
  PROVE  Max(T) \in T /\ \A m \in T : m <= Max(T)
  <1>1. PICK n \in T : \A m \in T : m <= n
    BY LargestNat
  <1>2. \E x \in T : \A y \in T : x >= y
    BY <1>1
  <1>3. Max(T) \in T /\ \A y \in T : Max(T) >= y
    BY <1>2 DEF Max
  <1> QED
    BY <1>3

-----------------------------------------------------------------------------
(* The tags and the body of a block *)

\* A reply under the scan.
Scannable == reply \in Seq(Atoms) /\ cursor \in 1 .. Len(reply) + 1

\* The next "<" is the first one from the cursor on.
LEMMA NextLtIs ==
  ASSUME Scannable
  PROVE  \/ NextLt = 0 /\ \A k \in cursor .. Len(reply) : ~Bare(reply[k].kind)
         \/ /\ NextLt \in cursor .. Len(reply) /\ Bare(reply[NextLt].kind)
            /\ \A k \in cursor .. NextLt - 1 : ~Bare(reply[k].kind)
  <1> DEFINE T == {k \in cursor .. Len(reply) : Bare(reply[k].kind)}
  <1>1. NextLt = IF T # {} THEN Min(T) ELSE 0
    BY DEF NextLt, SelectInSubSeq
  <1>2. Len(reply) \in Nat /\ cursor \in Nat \ {0}
    BY DEF Scannable
  <1>3. T \in SUBSET Nat
    BY <1>2
  <1>4. CASE T = {}
    BY <1>1, <1>4
  <1>5. CASE T # {}
    <2>1. NextLt \in T /\ \A m \in T : NextLt <= m
      BY <1>1, <1>3, <1>5, MinIs
    <2>2. ASSUME NEW k \in cursor .. NextLt - 1 PROVE k \notin T
      BY <1>2, <2>1
    <2>3. \A k \in cursor .. NextLt - 1 : k \in cursor .. Len(reply)
      BY <1>2, <2>1
    <2> QED
      BY <2>1, <2>2, <2>3
  <1> QED
    BY <1>4, <1>5

\* The ">" is the first one from there on: the tag itself, unless it is a lone
\* "<".
LEMMA NextGtIs ==
  ASSUME Scannable, NextLt # 0
  PROVE  \/ NextGt = 0 /\ \A k \in NextLt .. Len(reply) : ~Ends(reply[k].kind)
         \/ /\ NextGt \in NextLt .. Len(reply) /\ Ends(reply[NextGt].kind)
            /\ \A k \in NextLt .. NextGt - 1 : ~Ends(reply[k].kind)
  <1> DEFINE T == {k \in NextLt .. Len(reply) : Ends(reply[k].kind)}
  <1>1. NextGt = IF T # {} THEN Min(T) ELSE 0
    BY DEF NextGt, SelectInSubSeq
  <1>2. Len(reply) \in Nat /\ NextLt \in Nat
    BY NextLtIs DEF Scannable
  <1>3. T \in SUBSET Nat
    BY <1>2
  <1>4. CASE T = {}
    BY <1>1, <1>4
  <1>5. CASE T # {}
    <2>1. NextGt \in T /\ \A m \in T : NextGt <= m
      BY <1>1, <1>3, <1>5, MinIs
    <2>2. ASSUME NEW k \in NextLt .. NextGt - 1 PROVE k \notin T
      BY <1>2, <2>1
    <2>3. \A k \in NextLt .. NextGt - 1 : k \in NextLt .. Len(reply)
      BY <1>2, <2>1
    <2> QED
      BY <2>1, <2>2, <2>3
  <1> QED
    BY <1>4, <1>5

\* An atom that ends with a ">" of its own is closed by that one.
LEMMA TagEndsIt ==
  ASSUME Scannable, NextLt # 0, Ends(reply[NextLt].kind)
  PROVE  NextGt = NextLt
  <1>1. NextLt \in Nat /\ Len(reply) \in Nat /\ NextLt <= Len(reply)
    BY NextLtIs DEF Scannable
  <1> QED
    BY <1>1, NextGtIs

\* The closing tag is the first one of that name.
LEMMA ClosedAtIs ==
  ASSUME Scannable, HasTag
  PROVE  LET close == Close(reply[NextLt].tag) IN
         \/ ClosedAt = 0 /\ \A k \in NextGt + 1 .. Len(reply) : reply[k] # close
         \/ /\ ClosedAt \in NextGt + 1 .. Len(reply) /\ reply[ClosedAt] = close
            /\ \A k \in NextGt + 1 .. ClosedAt - 1 : reply[k] # close
  <1> DEFINE T == {k \in NextGt + 1 .. Len(reply) : reply[k] = Close(reply[NextLt].tag)}
  <1>1. ClosedAt = IF T # {} THEN Min(T) ELSE 0
    BY DEF ClosedAt, SelectInSubSeq
  <1>2. Len(reply) \in Nat /\ NextGt \in Nat
    BY NextLtIs, NextGtIs DEF Scannable, HasTag
  <1>3. T \in SUBSET Nat
    BY <1>2
  <1>4. CASE T = {}
    BY <1>1, <1>4
  <1>5. CASE T # {}
    <2>1. ClosedAt \in T /\ \A m \in T : ClosedAt <= m
      BY <1>1, <1>3, <1>5, MinIs
    <2>2. ASSUME NEW k \in NextGt + 1 .. ClosedAt - 1 PROVE k \notin T
      BY <1>2, <2>1
    <2>3. \A k \in NextGt + 1 .. ClosedAt - 1 : k \in NextGt + 1 .. Len(reply)
      BY <1>2, <2>1
    <2> QED
      BY <2>1, <2>2, <2>3
  <1> QED
    BY <1>4, <1>5

\* Trimmed text is one JSON value exactly if the text has one and blanks beside
\* it, and then it is that one.
OneValueAt(s, k) ==
  /\ k \in 1 .. Len(s) /\ s[k].kind = "json"
  /\ \A l \in 1 .. Len(s) : l # k => Blank(s[l])

\* trim() finds that value.
LEMMA TrimmedIs ==
  ASSUME NEW S, NEW s \in Seq(S)
  PROVE  /\ IsJson(Trimmed(s)) => \E k : OneValueAt(s, k) /\ Trimmed(s)[1] = s[k]
         /\ \A k : OneValueAt(s, k) => IsJson(Trimmed(s)) /\ Trimmed(s)[1] = s[k]
  <1> DEFINE T == {i \in 1 .. Len(s) : ~Blank(s[i])}
             first == SelectInSeq(s, LAMBDA a : ~Blank(a))
             last == SelectLastInSeq(s, LAMBDA a : ~Blank(a))
  <1>1. /\ first = IF T # {} THEN Min(T) ELSE 0
        /\ last = IF T # {} THEN Max(T) ELSE 0
    BY DEF SelectInSeq, SelectLastInSeq
  <1>2. Len(s) \in Nat /\ T \in SUBSET Nat /\ \A m \in T : m <= Len(s)
    OBVIOUS
  <1>3. Trimmed(s) = IF first = 0 THEN <<>> ELSE SubSeq(s, first, last)
    BY DEF Trimmed
  <1>4. ASSUME T # {}
        PROVE  /\ first \in T /\ \A m \in T : first <= m
               /\ last \in T /\ \A m \in T : m <= last
    <2> HIDE DEF T, first, last
    <2>1. Min(T) \in T /\ \A m \in T : Min(T) <= m
      BY <1>2, <1>4, MinIs
    <2>2. Max(T) \in T /\ \A m \in T : m <= Max(T)
      BY <1>2, <1>4, MaxIs
    <2> QED
      BY <1>1, <1>4, <2>1, <2>2
  <1>5. T = {} => first = 0
    BY <1>1
  <1> HIDE DEF first, last
  <1>6. ASSUME T # {} PROVE Len(Trimmed(s)) = last - first + 1 /\ Trimmed(s)[1] = s[first]
    <2>1. first \in 1 .. Len(s) /\ last \in 1 .. Len(s) /\ first <= last
      BY <1>4, <1>6
    <2>2. Trimmed(s) = SubSeq(s, first, last)
      BY <1>3, <2>1
    <2> QED
      BY <2>1, <2>2
  <1>7. ASSUME IsJson(Trimmed(s)) PROVE \E k : OneValueAt(s, k) /\ Trimmed(s)[1] = s[k]
    <2>1. T # {}
      BY <1>3, <1>5, <1>7 DEF IsJson
    <2>2. first = last /\ first \in T
      BY <1>2, <1>4, <1>6, <1>7, <2>1 DEF IsJson
    <2>3. \A l \in 1 .. Len(s) : l # first => l \notin T
      BY <1>2, <1>4, <2>1, <2>2
    <2>4. OneValueAt(s, first)
      BY <1>6, <1>7, <2>1, <2>2, <2>3 DEF OneValueAt, IsJson
    <2> QED
      BY <1>6, <2>1, <2>4
  <1>8. ASSUME NEW k, OneValueAt(s, k) PROVE IsJson(Trimmed(s)) /\ Trimmed(s)[1] = s[k]
    <2>1. T = {k}
      BY <1>8 DEF OneValueAt, Blank
    <2>2. first = k /\ last = k
      BY <1>4, <2>1
    <2>3. k \in Nat
      BY <1>8 DEF OneValueAt
    <2> QED
      BY <1>6, <1>8, <2>1, <2>2, <2>3 DEF IsJson, OneValueAt
  <1> QED
    BY <1>7, <1>8

-----------------------------------------------------------------------------
(* The tags that stand by themselves *)

\* There is such a set for every text: going on by one place, its tag is added
\* if no tag of the set so far covers it.
LEMMA OutermostExists ==
  ASSUME NEW text, Len(text) \in Nat, DOMAIN text = 1 .. Len(text)
  PROVE  \E R \in SUBSET TagSites(text) : Outermost(text, R)
  <1> DEFINE Sites(n) == {i \in TagSites(text) : i <= n}
             Solves(n, R) == R = {i \in Sites(n) : \A h \in R : ~Covers(text, h, i)}
             S == {n \in 0 .. Len(text) : \E R \in SUBSET Sites(n) : Solves(n, R)}
  <1>1. TagSites(text) \subseteq 1 .. Len(text)
    BY DEF TagSites
  <1>2. \A h, i : Covers(text, h, i) => h < i
    BY DEF Covers
  <1>3. 0 \in S
    <2>1. Sites(0) = {}
      BY <1>1
    <2>2. Solves(0, {}) /\ {} \in SUBSET Sites(0)
      BY <2>1
    <2> QED
      BY <2>2
  <1>4. ASSUME NEW n \in 0 .. Len(text) - 1, n \in S PROVE n + 1 \in S
    <2> SUFFICES \E R \in SUBSET Sites(n + 1) : Solves(n + 1, R)
      OBVIOUS
    <2>1. PICK R \in SUBSET Sites(n) : Solves(n, R)
      BY <1>4
    <2>2. CASE n + 1 \in TagSites(text) /\ \A h \in R : ~Covers(text, h, n + 1)
      <3> DEFINE R1 == R \cup {n + 1}
      <3>1. Sites(n + 1) = Sites(n) \cup {n + 1}
        BY <1>1, <2>2
      <3>2. \A i \in Sites(n + 1) : ~Covers(text, n + 1, i)
        BY <1>1, <1>2
      <3>3. Solves(n + 1, R1)
        <4>1. ASSUME NEW i \in Sites(n)
              PROVE  i \in R1 <=> \A h \in R1 : ~Covers(text, h, i)
          <5>1. i # n + 1 /\ i \in Sites(n + 1)
            BY <1>1
          <5>2. i \in R <=> \A h \in R : ~Covers(text, h, i)
            BY <2>1
          <5> QED
            BY <3>2, <5>1, <5>2
        <4>2. n + 1 \in R1 /\ \A h \in R1 : ~Covers(text, h, n + 1)
          BY <2>2, <3>1, <3>2
        <4> HIDE DEF Sites
        <4>3. R1 \subseteq Sites(n + 1)
          BY <3>1
        <4> QED
          BY <3>1, <4>1, <4>2, <4>3
      <3>4. R1 \in SUBSET Sites(n + 1)
        BY <3>1
      <3> HIDE DEF Sites, Solves, R1
      <3> QED
        BY <3>3, <3>4
    <2>3. CASE n + 1 \in TagSites(text) /\ \E h \in R : Covers(text, h, n + 1)
      <3>1. Sites(n + 1) = Sites(n) \cup {n + 1}
        BY <1>1, <2>3
      <3> HIDE DEF Sites
      <3>2. Solves(n + 1, R) /\ R \in SUBSET Sites(n + 1)
        BY <2>1, <2>3, <3>1
      <3> HIDE DEF Solves
      <3> QED
        BY <3>2
    <2>4. CASE n + 1 \notin TagSites(text)
      <3>1. Sites(n + 1) = Sites(n)
        BY <1>1, <2>4
      <3> QED
        BY <2>1, <3>1
    <2> QED
      BY <2>2, <2>3, <2>4
  <1> HIDE DEF S
  <1>5. 0 .. Len(text) \subseteq S
    BY <1>3, <1>4, UpTo
  <1>6. Sites(Len(text)) = TagSites(text)
    BY <1>1
  <1>7. Len(text) \in S
    BY <1>5
  <1> QED
    BY <1>6, <1>7 DEF S, Outermost

\* A tag stands by itself exactly if no tag that does covers it.
LEMMA OuterTagsAre ==
  ASSUME NEW text, Len(text) \in Nat, DOMAIN text = 1 .. Len(text)
  PROVE  /\ OuterTags(text) \subseteq TagSites(text)
         /\ \A i \in TagSites(text) :
              i \in OuterTags(text) <=> \A h \in OuterTags(text) : ~Covers(text, h, i)
  <1>1. \E R \in SUBSET TagSites(text) : Outermost(text, R)
    BY OutermostExists
  <1>2. OuterTags(text) \in SUBSET TagSites(text) /\ Outermost(text, OuterTags(text))
    BY <1>1 DEF OuterTags
  <1> HIDE DEF OuterTags
  <1> QED
    BY <1>2 DEF Outermost

-----------------------------------------------------------------------------
(* The scan *)

\* The scan has looked at everything before the cursor: no tag that stands by
\* itself reaches over it, what was extracted are blocks from there, in order,
\* and they are all that stand by themselves.
Found(i) == \E c \in DOMAIN calls : calls[c].at = i

CallNames == {a.name : a \in Atoms} \cup {a.tag : a \in Atoms} \cup {""}
CallRecords == [name : CallNames, at : Nat, args : {"arguments", "rest", "empty"}]

InOrder ==
  \A c \in DOMAIN calls :
    /\ IsBlock(reply, calls[c]) /\ calls[c].at < cursor
    /\ c > 1 => calls[c - 1].at < calls[c].at

OnlyBare == DOMAIN calls = {1} /\ Len(calls) = 1 /\ calls[1].at = 0 /\ BareCall(reply)

Required == CallSites(reply) \cap OuterTags(reply)

CursorIsFree ==
  \A h \in OuterTags(reply), i \in cursor .. Len(reply) : h < cursor => ~Covers(reply, h, i)

ScanInv ==
  /\ reply \in Seq(Atoms) /\ cursor \in 1 .. Len(reply) + 1
  /\ calls \in Seq(CallRecords)
  /\ parse \in {"idle", "scanning", "none", "some"}
  /\ parse # "idle" => \/ parse = "some" /\ OnlyBare
                       \/ /\ InOrder /\ CursorIsFree
                          /\ \A i \in Required : i < cursor => Found(i)
                          /\ parse # "scanning" => \A i \in Required : Found(i)

\* What has to be found depends on the reply alone.
LEMMA SitesStay ==
  ASSUME UNCHANGED reply
  PROVE  Required' = Required
  BY DEF Required

\* The next tag stands by itself: nothing reaches over the cursor to it.
LEMMA TagStandsAlone ==
  ASSUME Scannable, HasTag, CursorIsFree
  PROVE  NextLt \in OuterTags(reply)
  <1>1. /\ Len(reply) \in Nat /\ cursor \in Nat \ {0} /\ DOMAIN reply = 1 .. Len(reply)
        /\ NextLt \in cursor .. Len(reply) /\ Bare(reply[NextLt].kind)
        /\ \A k \in cursor .. NextLt - 1 : ~Bare(reply[k].kind)
    BY NextLtIs DEF Scannable, HasTag
  <1>2. NextLt \in TagSites(reply)
    BY <1>1 DEF TagSites
  <1>3. ASSUME NEW h \in OuterTags(reply) PROVE ~Covers(reply, h, NextLt)
    <2>1. h \in 1 .. Len(reply) /\ Bare(reply[h].kind)
      BY <1>1, OuterTagsAre DEF TagSites
    <2>2. CASE h < cursor
      BY <1>1, <2>2 DEF CursorIsFree
    <2>3. CASE cursor <= h
      <3>1. ~(h < NextLt)
        BY <1>1, <2>1, <2>3
      <3> QED
        BY <3>1 DEF Covers
    <2> QED
      BY <1>1, <2>1, <2>2, <2>3
  <1> QED
    BY <1>1, <1>2, <1>3, OuterTagsAre

\* The block that the scan has come to is a complete one exactly if it is
\* callable, and its tag covers it and nothing more.
LEMMA BlockIsSite ==
  ASSUME Scannable, Block
  PROVE  /\ NextGt = NextLt /\ ClosedAt \in NextLt + 1 .. Len(reply)
         /\ Callable => \E k \in DOMAIN reply : /\ BlockAt(reply, NextLt, k, ClosedAt)
                                                /\ Body[1] = reply[k]
         /\ NextLt \in CallSites(reply) => Callable
         /\ \A i \in NextLt + 1 .. ClosedAt : Covers(reply, NextLt, i)
         /\ \A i \in ClosedAt + 1 .. Len(reply) : ~Covers(reply, NextLt, i)
  <1> DEFINE lt == NextLt
             tag == reply[lt].tag
             inner == SubSeq(reply, lt + 1, ClosedAt - 1)
  <1>1. /\ Len(reply) \in Nat /\ cursor \in Nat \ {0} /\ cursor <= lt
        /\ lt \in 1 .. Len(reply) /\ reply[lt].kind = "open"
    BY NextLtIs DEF Scannable, Block, FoundTag, HasTag
  <1>2. NextGt = lt
    BY <1>1, TagEndsIt DEF Ends
  <1>3. /\ ClosedAt \in lt + 1 .. Len(reply) /\ reply[ClosedAt] = Close(tag)
        /\ \A k \in lt + 1 .. ClosedAt - 1 : reply[k] # Close(tag)
    BY <1>2, ClosedAtIs DEF Block, FoundTag
  <1>4. /\ inner \in Seq(Atoms) /\ Len(inner) = ClosedAt - 1 - lt
        /\ \A i \in 1 .. Len(inner) : inner[i] = reply[lt + i]
    BY <1>1, <1>3 DEF Scannable
  <1>5. Body = Trimmed(inner)
    BY <1>2 DEF Body
  <1>d. DOMAIN reply = 1 .. Len(reply)
    BY DEF Scannable
  <1>n. lt \in Nat /\ ClosedAt \in Nat /\ lt < ClosedAt /\ ClosedAt <= Len(reply)
    BY <1>1, <1>3
  <1>m. Len(inner) = ClosedAt - 1 - lt
    BY <1>4
  <1>c. \A t : Close(t).kind = "close" /\ Close(t).tag = t
    BY DEF Close, Atom
  <1> HIDE DEF lt, inner
  <1>6. ASSUME Callable
        PROVE  \E k \in DOMAIN reply : BlockAt(reply, lt, k, ClosedAt) /\ Body[1] = reply[k]
    <2>1. PICK k : OneValueAt(inner, k) /\ Body[1] = inner[k]
      BY <1>4, <1>5, <1>6, TrimmedIs DEF Callable
    <2>2. k \in 1 .. Len(inner) /\ lt < lt + k /\ lt + k < ClosedAt
      BY <1>n, <1>m, <2>1 DEF OneValueAt
    <2>3. reply[lt + k].kind = "json" /\ NamesTool(tag, reply[lt + k])
      BY <1>4, <1>6, <2>1, <2>2 DEF OneValueAt, Callable, lt
    <2>4. ASSUME NEW l \in lt + 1 .. ClosedAt - 1, l # lt + k
          PROVE  Blank(reply[l])
      <3>1. l - lt \in 1 .. Len(inner) /\ l - lt # k /\ lt + (l - lt) = l
        BY <1>n, <1>m, <2>2, <2>4
      <3>2. inner[l - lt] = reply[l]
        BY <1>4, <3>1
      <3> QED
        BY <2>1, <3>1, <3>2 DEF OneValueAt
    <2>5. lt + k \in 1 .. Len(reply) /\ Body[1] = reply[lt + k]
      BY <1>4, <1>n, <2>1, <2>2
    <2>6. BlockAt(reply, lt, lt + k, ClosedAt)
      BY <1>1, <1>3, <2>2, <2>3, <2>4 DEF BlockAt
    <2> QED
      BY <1>d, <2>5, <2>6
  <1>7. ASSUME NEW k \in DOMAIN reply, NEW j \in DOMAIN reply, BlockAt(reply, lt, k, j)
        PROVE  Callable
    <2>1. /\ j \in 1 .. Len(reply) /\ k \in Nat /\ lt < k /\ k < j /\ reply[j] = Close(tag)
          /\ reply[k].kind = "json" /\ NamesTool(tag, reply[k])
          /\ \A l \in (lt + 1 .. j - 1) \ {k} : Blank(reply[l])
      BY <1>7, <1>d DEF BlockAt
    <2>2. j = ClosedAt
      <3>1. CASE j < ClosedAt
        <4>1. j \in lt + 1 .. ClosedAt - 1
          BY <1>n, <2>1, <3>1
        <4> QED
          BY <1>3, <2>1, <4>1
      <3>2. CASE ClosedAt < j
        <4>1. ClosedAt \in lt + 1 .. j - 1
          BY <1>n, <2>1, <3>2
        <4>2. reply[ClosedAt].kind \in {"space", "json"}
          BY <2>1, <4>1 DEF Blank
        <4> QED
          BY <1>3, <1>c, <4>2
      <3> QED
        BY <1>n, <2>1, <3>1, <3>2
    <2>3. k - lt \in 1 .. Len(inner) /\ lt + (k - lt) = k
      BY <1>n, <1>m, <2>1, <2>2
    <2>4. inner[k - lt] = reply[k]
      BY <1>4, <2>3
    <2>5. ASSUME NEW l \in 1 .. Len(inner), l # k - lt PROVE Blank(inner[l])
      <3>1. lt + l \in (lt + 1 .. j - 1) \ {k}
        BY <1>n, <1>m, <2>1, <2>2, <2>5
      <3> QED
        BY <1>4, <2>1, <3>1
    <2>6. OneValueAt(inner, k - lt)
      BY <2>1, <2>3, <2>4, <2>5 DEF OneValueAt
    <2> QED
      BY <1>4, <1>5, <2>1, <2>4, <2>6, TrimmedIs DEF Callable, lt
  <1>8. ASSUME NEW i \in lt + 1 .. ClosedAt PROVE Covers(reply, lt, i)
    <2>1. lt < i /\ ClosedAt \in i .. Len(reply)
      BY <1>n
    <2>2. \A j \in lt + 1 .. i - 1 : j \in lt + 1 .. ClosedAt - 1
      BY <1>n
    <2> QED
      BY <1>1, <1>3, <2>1, <2>2 DEF Covers
  <1>9. ASSUME NEW i \in ClosedAt + 1 .. Len(reply) PROVE ~Covers(reply, lt, i)
    <2>1. ClosedAt \in lt + 1 .. i - 1
      BY <1>n
    <2> QED
      BY <1>1, <1>3, <2>1 DEF Covers
  <1> QED
    BY <1>2, <1>3, <1>6, <1>7, <1>8, <1>9 DEF CallSites, lt

\* Scanning on, past the tag that was found and what it covers.
LEMMA ScanGoesOn ==
  ASSUME ScanInv, parse = "scanning", HasTag,
         UNCHANGED <<reply, parse>>,
         cursor' \in NextLt + 1 .. Len(reply) + 1,
         calls' \in Seq(CallRecords), InOrder',
         \A i : Found(i) => Found(i)',
         \A i \in NextLt + 1 .. cursor' - 1 : Covers(reply, NextLt, i),
         \A i \in cursor' .. Len(reply) : ~Covers(reply, NextLt, i),
         NextLt \in CallSites(reply) => \E c \in DOMAIN calls' : calls'[c].at = NextLt
  PROVE  ScanInv'
  <1>1. /\ Scannable /\ CursorIsFree
        /\ \A i \in Required : i < cursor => Found(i)
    BY DEF ScanInv, Scannable
  <1>2. /\ Len(reply) \in Nat /\ cursor \in Nat \ {0} /\ DOMAIN reply = 1 .. Len(reply)
        /\ NextLt \in cursor .. Len(reply)
        /\ \A k \in cursor .. NextLt - 1 : ~Bare(reply[k].kind)
    BY <1>1, NextLtIs DEF Scannable, HasTag
  <1>3. NextLt \in OuterTags(reply)
    BY <1>1, TagStandsAlone
  <1>4. \A h \in OuterTags(reply) : h \in 1 .. Len(reply) /\ Bare(reply[h].kind)
    BY <1>2, OuterTagsAre DEF TagSites
  <1>5. ASSUME NEW h \in OuterTags(reply), cursor <= h, h < cursor' PROVE h = NextLt
    <2>1. ~(h < NextLt)
      BY <1>2, <1>4, <1>5
    <2>2. ASSUME NextLt < h PROVE Covers(reply, NextLt, h)
      <3>1. h \in NextLt + 1 .. cursor' - 1
        BY <1>2, <1>4, <1>5, <2>2
      <3> QED
        BY <3>1
    <2>3. ~Covers(reply, NextLt, h)
      BY <1>2, <1>3, OuterTagsAre
    <2> QED
      BY <1>2, <1>4, <2>1, <2>2, <2>3
  <1>6. cursor' \in 1 .. Len(reply) + 1 /\ cursor < cursor'
    BY <1>2
  <1>7. ASSUME NEW h \in OuterTags(reply), NEW i \in cursor' .. Len(reply), h < cursor'
        PROVE  ~Covers(reply, h, i)
    <2>1. CASE h < cursor
      <3>1. i \in cursor .. Len(reply)
        BY <1>2, <1>6
      <3> QED
        BY <1>1, <2>1, <3>1 DEF CursorIsFree
    <2>2. CASE cursor <= h
      BY <1>5, <1>7, <2>2
    <2> QED
      BY <1>2, <1>4, <2>1, <2>2
  <1>8. CursorIsFree'
    BY <1>7 DEF CursorIsFree
  <1>9. ASSUME NEW i \in Required, i < cursor' PROVE Found(i)'
    <2>1. i \in OuterTags(reply) /\ i \in CallSites(reply) /\ i \in 1 .. Len(reply)
      BY <1>4 DEF Required
    <2>2. CASE i < cursor
      BY <1>1, <2>2
    <2>3. CASE cursor <= i
      <3>1. i = NextLt
        BY <1>5, <1>9, <2>1, <2>3
      <3> QED
        BY <2>1, <3>1 DEF Found
    <2> QED
      BY <1>2, <2>1, <2>2, <2>3
  <1> QED
    BY <1>6, <1>8, <1>9, SitesStay DEF ScanInv

\* A scan that goes on without a call keeps what it found in order.
LEMMA OrderStays ==
  ASSUME InOrder, calls \in Seq(CallRecords), UNCHANGED <<reply, calls>>, cursor \in Nat, cursor' \in Nat,
         cursor <= cursor'
  PROVE  /\ InOrder'
         /\ \A i : Found(i)' <=> Found(i)
  <1>1. \A c \in DOMAIN calls : calls[c].at \in Nat
    <2> \A c \in DOMAIN calls : calls[c] \in CallRecords
      OBVIOUS
    <2> QED
      BY DEF CallRecords
  <1>2. \A c \in DOMAIN calls : calls[c].at < cursor => calls[c].at < cursor'
    BY <1>1
  <1> QED
    BY <1>2 DEF InOrder, Found

\* Every step of the scan keeps its invariant: it goes on exactly behind what
\* the tag it has come to covers, and takes the block of that tag if it is one.
LEMMA ScanStep == ScanInv /\ Scan => ScanInv'
  <1> SUFFICES ASSUME ScanInv, Scan PROVE ScanInv'
    OBVIOUS
  <1>0. /\ Scannable /\ parse = "scanning"
        /\ calls \in Seq(CallRecords)
    BY DEF ScanInv, Scannable, Scan, EndOfText, SkipTag, SkipUnclosed, SkipBody, TakeCall,
           Block, FoundTag
  <1>1. Len(reply) \in Nat /\ cursor \in Nat \ {0} /\ cursor <= Len(reply) + 1
    BY <1>0 DEF Scannable
  <1>d. DOMAIN reply = 1 .. Len(reply)
    BY <1>0 DEF Scannable
  <1>2. /\ InOrder /\ CursorIsFree
        /\ \A i \in Required : i < cursor => Found(i)
    BY <1>0 DEF ScanInv
  <1>3. \A i \in CallSites(reply) : i \in 1 .. Len(reply) /\ reply[i].kind = "open"
    BY <1>d DEF CallSites, BlockAt
  <1>4. ASSUME HasTag
        PROVE  /\ NextLt \in cursor .. Len(reply) /\ Bare(reply[NextLt].kind)
               /\ NextGt \in NextLt .. Len(reply) /\ Ends(reply[NextGt].kind)
               /\ \A k \in NextLt .. NextGt - 1 : ~Ends(reply[k].kind)
               /\ NextLt \in Nat \ {0} /\ NextGt \in Nat /\ cursor <= NextLt /\ NextLt <= NextGt
               /\ NextGt + 1 \in NextLt + 1 .. Len(reply) + 1
    <2>1. NextLt \in cursor .. Len(reply) /\ Bare(reply[NextLt].kind) /\ NextLt \in Nat \ {0}
      BY <1>0, <1>1, <1>4, NextLtIs DEF HasTag
    <2>2. /\ NextGt \in NextLt .. Len(reply) /\ Ends(reply[NextGt].kind)
          /\ \A k \in NextLt .. NextGt - 1 : ~Ends(reply[k].kind)
      BY <1>0, <1>4, NextGtIs DEF HasTag
    <2> QED
      BY <1>1, <2>1, <2>2
  <1>5. ASSUME HasTag, cursor' \in NextLt + 1 .. Len(reply) + 1
        PROVE  cursor' \in Nat /\ cursor <= cursor' /\ NextLt < cursor'
    BY <1>1, <1>4, <1>5
  <1>6. CASE EndOfText
    <2>1. ASSUME NEW i \in CallSites(reply), cursor <= i PROVE FALSE
      <3>1. i \in cursor .. Len(reply)
        BY <1>1, <1>3, <2>1
      <3>2. Bare(reply[i].kind) /\ Ends(reply[i].kind)
        BY <1>3 DEF Bare, Ends
      <3>3. NextLt # 0
        BY <1>0, <1>1, <3>1, <3>2, NextLtIs
      <3>4. NextLt \in Nat /\ NextGt = 0
        BY <1>0, <1>1, <1>6, <3>3, NextLtIs DEF EndOfText, HasTag
      <3>5. NextLt <= i
        <4>1. i \in cursor .. NextLt - 1 => FALSE
          BY <1>0, <3>2, <3>3, NextLtIs
        <4> QED
          BY <1>1, <3>1, <3>4, <4>1
      <3>6. i \in NextLt .. Len(reply)
        BY <1>1, <3>1, <3>4, <3>5
      <3> QED
        BY <1>0, <3>2, <3>3, <3>4, <3>6, NextGtIs
    <2>2. \A i \in Required : Found(i)
      BY <1>1, <1>2, <1>3, <2>1 DEF Required
    <2>3. /\ UNCHANGED <<reply, cursor, calls>> /\ parse' \in {"none", "some"}
      BY <1>6 DEF EndOfText
    <2>4. InOrder' /\ \A i : Found(i)' <=> Found(i)
      BY <1>0, <1>1, <1>2, <2>3, OrderStays
    <2>5. CursorIsFree'
      BY <1>2, <2>3 DEF CursorIsFree
    <2> QED
      BY <2>2, <2>3, <2>4, <2>5, SitesStay DEF ScanInv
  <1>7. CASE SkipTag
    <2>1. /\ HasTag /\ reply[NextLt].kind # "open" /\ cursor' = NextGt + 1
          /\ UNCHANGED <<reply, calls, parse>>
      BY <1>7 DEF SkipTag, FoundTag
    <2>2. cursor' \in NextLt + 1 .. Len(reply) + 1
      BY <1>4, <2>1
    <2>3. InOrder' /\ \A i : Found(i)' <=> Found(i)
      BY <1>0, <1>1, <1>2, <1>5, <2>1, <2>2, OrderStays
    <2>4. NextLt \notin CallSites(reply)
      BY <1>3, <2>1
    <2>5. ASSUME NEW i \in NextLt + 1 .. cursor' - 1 PROVE Covers(reply, NextLt, i)
      <3>1. i \in Nat /\ NextLt < i /\ i <= NextGt
        BY <1>4, <2>1
      <3>2. NextLt \in NextLt .. NextGt - 1
        BY <1>4, <2>1, <3>1
      <3>e. ~Ends(reply[NextLt].kind)
        BY <1>4, <2>1, <3>2
      <3>3. reply[NextLt].kind = "lt"
        BY <1>4, <2>1, <3>e DEF Bare, Ends
      <3>4. \A k \in NextLt + 1 .. i - 1 : k \in NextLt .. NextGt - 1
        BY <1>4, <2>1, <3>1
      <3> QED
        BY <1>4, <2>1, <3>1, <3>3, <3>4 DEF Covers
    <2>6. ASSUME NEW i \in cursor' .. Len(reply) PROVE ~Covers(reply, NextLt, i)
      <3>1. CASE reply[NextLt].kind = "lt"
        <4>1. NextGt # NextLt
          BY <1>4, <2>1, <3>1 DEF Ends
        <4>2. NextGt \in NextLt + 1 .. i - 1
          BY <1>1, <1>4, <2>1, <4>1
        <4> QED
          BY <1>4, <2>1, <3>1, <4>2 DEF Covers
      <3>2. CASE reply[NextLt].kind # "lt"
        BY <2>1, <3>2 DEF Covers
      <3> QED
        BY <3>1, <3>2
    <2> QED
      BY <1>0, <2>1, <2>2, <2>3, <2>4, <2>5, <2>6, ScanGoesOn
  <1>8. CASE SkipUnclosed
    <2>1. /\ HasTag /\ reply[NextLt].kind = "open" /\ ClosedAt = 0 /\ cursor' = NextGt + 1
          /\ UNCHANGED <<reply, calls, parse>>
      BY <1>8 DEF SkipUnclosed, FoundTag
    <2>2. cursor' \in NextLt + 1 .. Len(reply) + 1
      BY <1>4, <2>1
    <2>3. InOrder' /\ \A i : Found(i)' <=> Found(i)
      BY <1>0, <1>1, <1>2, <1>5, <2>1, <2>2, OrderStays
    <2>4. NextGt = NextLt
      BY <1>0, <1>4, <2>1, TagEndsIt DEF Ends
    <2>5. \A j \in NextLt + 1 .. Len(reply) : reply[j] # Close(reply[NextLt].tag)
      <3>1. ~(ClosedAt \in NextGt + 1 .. Len(reply))
        BY <1>4, <2>1
      <3> QED
        BY <1>0, <2>1, <2>4, <3>1, ClosedAtIs
    <2>6. NextLt + 1 .. cursor' - 1 = {}
      BY <1>4, <2>1, <2>4
    <2>7. ASSUME NEW i \in cursor' .. Len(reply) PROVE ~Covers(reply, NextLt, i)
      <3>1. \A j \in i .. Len(reply) : j \in NextLt + 1 .. Len(reply)
        BY <1>1, <1>4, <2>1, <2>4
      <3> QED
        BY <2>1, <2>5, <3>1 DEF Covers
    <2>8. NextLt \notin CallSites(reply)
      <3> SUFFICES ASSUME NEW k \in DOMAIN reply, NEW j \in DOMAIN reply,
                          BlockAt(reply, NextLt, k, j)
                   PROVE  FALSE
        BY DEF CallSites
      <3>1. j \in NextLt + 1 .. Len(reply) /\ reply[j] = Close(reply[NextLt].tag)
        BY <1>1, <1>4, <1>d, <2>1 DEF BlockAt
      <3> QED
        BY <2>5, <3>1
    <2> QED
      BY <1>0, <2>1, <2>2, <2>3, <2>6, <2>7, <2>8, ScanGoesOn
  <1>9. ASSUME Block, cursor' = ClosedAt + 1
        PROVE  /\ HasTag /\ cursor' \in NextLt + 1 .. Len(reply) + 1
               /\ \A i \in NextLt + 1 .. cursor' - 1 : Covers(reply, NextLt, i)
               /\ \A i \in cursor' .. Len(reply) : ~Covers(reply, NextLt, i)
    <2>1. HasTag
      BY <1>9 DEF Block, FoundTag
    <2>2. /\ ClosedAt \in NextLt + 1 .. Len(reply)
          /\ \A i \in NextLt + 1 .. ClosedAt : Covers(reply, NextLt, i)
          /\ \A i \in ClosedAt + 1 .. Len(reply) : ~Covers(reply, NextLt, i)
      BY <1>0, <1>9, BlockIsSite
    <2>3. cursor' - 1 = ClosedAt /\ cursor' \in NextLt + 1 .. Len(reply) + 1
      BY <1>1, <1>4, <1>9, <2>1, <2>2
    <2> QED
      BY <1>9, <2>1, <2>2, <2>3
  <1>10. CASE SkipBody
    <2>1. /\ Block /\ ~Callable /\ cursor' = ClosedAt + 1
          /\ UNCHANGED <<reply, calls, parse>>
      BY <1>10 DEF SkipBody
    <2>2. InOrder' /\ \A i : Found(i)' <=> Found(i)
      BY <1>0, <1>1, <1>2, <1>5, <1>9, <2>1, OrderStays
    <2>3. NextLt \notin CallSites(reply)
      BY <1>0, <2>1, BlockIsSite
    <2> QED
      BY <1>0, <1>9, <2>1, <2>2, <2>3, ScanGoesOn
  <1>11. CASE TakeCall
    <2> DEFINE new == [name |-> CallName(reply[NextLt].tag, Body[1]), at |-> NextLt,
                       args |-> Arguments(Body[1])]
    <2>1. /\ Block /\ Callable /\ cursor' = ClosedAt + 1
          /\ UNCHANGED <<reply, parse>> /\ calls' = Append(calls, new)
      BY <1>11 DEF TakeCall
    <2>2. HasTag
      BY <2>1 DEF Block, FoundTag
    <2>3. PICK k \in DOMAIN reply : BlockAt(reply, NextLt, k, ClosedAt) /\ Body[1] = reply[k]
      BY <1>0, <2>1, BlockIsSite
    <2>4. new \in CallRecords /\ new.at = NextLt
      <3>1. Body[1] \in Atoms /\ reply[NextLt] \in Atoms /\ NextLt \in Nat
        BY <1>0, <1>4, <1>d, <2>2, <2>3 DEF Scannable
      <3>2. CallName(reply[NextLt].tag, Body[1]) \in CallNames
        BY <3>1 DEF CallName, CallNames
      <3>3. Arguments(Body[1]) \in {"arguments", "rest", "empty"}
        BY DEF Arguments
      <3> QED
        BY <3>1, <3>2, <3>3 DEF CallRecords
    <2>5. IsBlock(reply, new)
      <3>1. NextLt \in OuterTags(reply)
        BY <1>0, <1>2, <2>2, TagStandsAlone
      <3>2. NextLt \in DOMAIN reply /\ ClosedAt \in DOMAIN reply
        BY <1>0, <1>1, <1>4, <1>d, <2>1, <2>2, BlockIsSite
      <3> QED
        BY <2>3, <3>1, <3>2 DEF IsBlock
    <2> HIDE DEF new
    <2>6. /\ calls' \in Seq(CallRecords) /\ Len(calls') = Len(calls) + 1
          /\ calls'[Len(calls) + 1] = new
          /\ \A c \in 1 .. Len(calls) : calls'[c] = calls[c]
          /\ DOMAIN calls = 1 .. Len(calls) /\ DOMAIN calls' = 1 .. Len(calls')
          /\ Len(calls) \in Nat
      BY <1>0, <2>1, <2>4
    <2>7. /\ \A i : Found(i) => Found(i)'
          /\ \E c \in DOMAIN calls' : calls'[c].at = NextLt
      BY <2>4, <2>6 DEF Found
    <2>8. InOrder'
      <3>1. \A c \in 1 .. Len(calls) : calls[c] \in CallRecords
        BY <1>0
      <3>2. \A c \in 1 .. Len(calls) : calls[c].at \in Nat
        BY <3>1 DEF CallRecords
      <3>3. ASSUME NEW c \in 1 .. Len(calls)
            PROVE  /\ IsBlock(reply, calls[c]) /\ calls[c].at < cursor
                   /\ c > 1 => calls[c - 1].at < calls[c].at
        BY <1>2, <2>6 DEF InOrder
      <3>4. ASSUME NEW c \in 1 .. Len(calls) + 1
            PROVE  /\ IsBlock(reply, calls'[c]) /\ calls'[c].at < cursor'
                   /\ c > 1 => calls'[c - 1].at < calls'[c].at
        <4>1. CASE c \in 1 .. Len(calls)
          <5>1. calls'[c] = calls[c] /\ calls[c].at < cursor'
            BY <1>1, <1>5, <1>9, <2>1, <2>6, <3>2, <3>3, <4>1
          <5>2. c > 1 => calls'[c - 1] = calls[c - 1]
            BY <2>6, <4>1
          <5> QED
            BY <3>3, <4>1, <5>1, <5>2
        <4>2. CASE c = Len(calls) + 1
          <5>1. calls'[c] = new
            BY <2>6, <4>2
          <5>2. ASSUME c > 1 PROVE calls'[c - 1].at < NextLt
            <6>1. c - 1 \in 1 .. Len(calls)
              BY <2>6, <4>2, <5>2
            <6>2. calls'[c - 1] = calls[c - 1] /\ calls[c - 1].at < cursor
                  /\ calls[c - 1].at \in Nat
              BY <2>6, <3>2, <3>3, <6>1
            <6> QED
              BY <1>1, <1>4, <2>2, <6>2, SMTT(40)
          <5>3. NextLt < cursor'
            BY <1>5, <1>9, <2>1
          <5> QED
            BY <2>4, <2>5, <5>1, <5>2, <5>3
        <4> QED
          BY <2>6, <4>1, <4>2
      <3> QED
        BY <2>1, <2>6, <3>4 DEF InOrder
    <2> QED
      BY <1>0, <1>9, <2>1, <2>6, <2>7, <2>8, ScanGoesOn
  <1> QED
    BY <1>6, <1>7, <1>8, <1>10, <1>11 DEF Scan

\* Every step of a completion keeps the scan's invariant.
LEMMA ScanInvStep == ScanInv /\ [CompletionNext]_completionVars => ScanInv'
  <1> SUFFICES ASSUME ScanInv, [CompletionNext]_completionVars PROVE ScanInv'
    OBVIOUS
  <1>1. ASSUME UNCHANGED toolVars PROVE ScanInv'
    BY <1>1, SitesStay DEF toolVars, ScanInv, InOrder, CursorIsFree, Found, OnlyBare
  <1>2. CASE Generate
    <2> PICK a \in Atoms : reply' = Append(reply, a)
      BY <1>2 DEF Generate
    <2> QED
      BY <1>2 DEF Generate, ScanInv
  <1>3. CASE QueryReturns
    <2>1. CASE StartParse
      <3>1. CASE BareCall(reply)
        <4> DEFINE v == Trimmed(reply)[1]
                   new == [name |-> v.name, at |-> 0,
                           args |-> IF v.args THEN "arguments" ELSE "empty"]
        <4>1. parse' = "some" /\ cursor' = 1 /\ reply' = reply /\ calls' = <<new>>
          BY <2>1, <3>1 DEF StartParse
        <4>2. PICK k : OneValueAt(reply, k) /\ Trimmed(reply)[1] = reply[k]
          BY <3>1, TrimmedIs DEF BareCall, ScanInv
        <4>3. Trimmed(reply)[1] \in Atoms
          BY <4>2 DEF OneValueAt, ScanInv
        <4>4. calls' \in Seq(CallRecords)
          <5>1. v.name \in CallNames
            BY <4>3 DEF CallNames
          <5>2. new \in CallRecords
            BY <5>1 DEF CallRecords
          <5> QED
            BY <4>1, <5>2
        <4>5. OnlyBare'
          <5>1. DOMAIN calls' = {1} /\ Len(calls') = 1 /\ calls'[1].at = 0
            BY <4>1
          <5> QED
            BY <3>1, <4>1, <5>1 DEF OnlyBare
        <4> QED
          BY <4>1, <4>4, <4>5 DEF ScanInv
      <3>2. CASE ~BareCall(reply)
        <4>1. /\ parse' = "scanning" /\ cursor' = 1 /\ reply' = reply /\ calls' = <<>>
          BY <2>1, <3>2 DEF StartParse
        <4>2. InOrder'
          BY <4>1 DEF InOrder
        <4>3. Len(reply) \in Nat /\ DOMAIN reply = 1 .. Len(reply)
          BY DEF ScanInv
        <4>4. \A h \in OuterTags(reply) : h \in 1 .. Len(reply)
          BY <4>3, OuterTagsAre DEF TagSites
        <4>5. \A h \in OuterTags(reply) : ~(h < 1)
          BY <4>4
        <4>6. CursorIsFree'
          BY <4>1, <4>5 DEF CursorIsFree
        <4>7. \A i \in Required' : ~(i < cursor')
          BY <4>1, <4>5 DEF Required
        <4> QED
          BY <4>1, <4>2, <4>6, <4>7 DEF ScanInv
      <3> QED
        BY <3>1, <3>2
    <2> QED
      BY <1>1, <1>3, <2>1 DEF QueryReturns
  <1>4. CASE ParseReply
    BY <1>4, ScanStep DEF ParseReply
  <1>5. CASE Prepare \/ Respond \/ Finished \/ UNCHANGED completionVars
    BY <1>1, <1>5 DEF Prepare, Respond, Finished, completionVars
  <1> QED
    BY <1>2, <1>3, <1>4, <1>5 DEF CompletionNext

\* The scan's invariant holds.
LEMMA Scanned == CompletionSpec => []ScanInv
  <1>1. CompletionInit => ScanInv
    BY DEF CompletionInit, ToolsInit, ScanInv
  <1> QED
    BY <1>1, ScanInvStep, PTL DEF CompletionSpec

\* The tool calls that a client is given are blocks of the model's reply, with
\* their own names and arguments, in the order of the text and none twice - for
\* every reply, however its tags are nested, left open, or closed late.
THEOREM CallsComeFromBlocks == CompletionSpec => []CallsAreBlocks
  <1>1. ScanInv => CallsAreBlocks
    BY DEF ScanInv, OnlyBare, InOrder, CallsAreBlocks, Parsed
  <1> QED
    BY <1>1, Scanned, PTL

\* And every complete block that stands by itself is among them: each one of a
\* row of blocks, whatever malformed tags and blocks stand before it.
THEOREM BlocksAreFound == CompletionSpec => []NoCallMissed
  <1>1. ScanInv => NoCallMissed
    BY DEF ScanInv, OnlyBare, Found, NoCallMissed, Parsed, Required
  <1> QED
    BY <1>1, Scanned, PTL

-----------------------------------------------------------------------------
(* The helpers of the transcript *)

Message == [role : Roles, len : Nat, id : Nat, hints : SUBSET Hints]

\* A recursive function of the transcript's is one that its equation defines:
\* the messages kept so far.
Keeps(kept, M, ms, roles) ==
  /\ kept \in [0 .. Len(ms) -> Seq(M)]
  /\ WithRoles(ms, roles) = kept[Len(ms)]
  /\ kept[0] = <<>>
  /\ \A n \in 1 .. Len(ms) :
       kept[n] = IF ms[n].role \in roles THEN Append(kept[n - 1], ms[n]) ELSE kept[n - 1]

\* The recursion of WithRoles has such a function.
LEMMA KeptSoFar ==
  ASSUME NEW M, NEW ms \in Seq(M), NEW roles
  PROVE  \E kept : Keeps(kept, M, ms, roles)
  <1> DEFINE k == Len(ms)
             More(n, v) == IF ms[n].role \in roles THEN Append(v, ms[n]) ELSE v
             Solves(f) == f = [n \in 0 .. k |-> IF n = 0 THEN <<>> ELSE More(n, f[n - 1])]
             step == [n \in 1 .. k |-> [v \in Seq(M) |-> More(n, v)]]
             kept == CHOOSE f : Solves(f)
  <1>1. k \in Nat /\ <<>> \in Seq(M)
    OBVIOUS
  <1>2. \A n \in 1 .. k, v \in Seq(M) : More(n, v) \in Seq(M)
    OBVIOUS
  <1>3. WithRoles(ms, roles) = kept[k]
    BY DEF WithRoles
  <1> HIDE DEF k, More
  <1>4. MapsInto(step, k, Seq(M)) /\ \A n \in 1 .. k, v \in Seq(M) : step[n][v] = More(n, v)
    BY <1>2 DEF MapsInto
  <1> HIDE DEF step
  <1>5. PICK f : Iterates(f, <<>>, step, k, Seq(M))
    BY ONLY <1>1, <1>4, RecursionExists
  <1>6. Solves(f)
    <2>1. \A n \in 1 .. k : n - 1 \in 0 .. k
      BY <1>1
    <2>2. \A n \in 1 .. k : f[n] = More(n, f[n - 1])
      BY <1>4, <1>5, <2>1 DEF Iterates
    <2>3. \A n \in 0 .. k : f[n] = IF n = 0 THEN <<>> ELSE More(n, f[n - 1])
      BY <1>1, <1>5, <2>2 DEF Iterates
    <2> QED
      BY <1>5, <2>3 DEF Iterates
  <1>7. Solves(kept)
    BY <1>6
  <1> HIDE DEF kept
  <1>8. /\ kept = [n \in 0 .. k |-> kept[n]] /\ kept[0] = <<>>
        /\ \A n \in 1 .. k : kept[n] = More(n, kept[n - 1])
    <2>1. kept = [n \in 0 .. k |-> kept[n]]
      BY <1>7
    <2>2. kept[0] = <<>>
      BY <1>1, <1>7
    <2>3. ASSUME NEW n \in 1 .. k PROVE kept[n] = More(n, kept[n - 1])
      <3>1. n \in 0 .. k /\ n # 0
        BY <1>1
      <3> QED
        BY <1>7, <3>1
    <2> QED
      BY <2>1, <2>2, <2>3
  <1>9. Iterates(kept, <<>>, step, k, Seq(M))
    <2>1. \A n \in 1 .. k : kept[n - 1] \in Seq(M) => kept[n] = step[n][kept[n - 1]]
      BY <1>4, <1>8
    <2> QED
      BY ONLY <1>1, <1>4, <1>8, <2>1, RecursionStays
  <1>10. kept \in [0 .. k -> Seq(M)]
    BY <1>9 DEF Iterates
  <1> QED
    BY <1>3, <1>8, <1>10 DEF More, k, Keeps

\* The tokens of the last messages.
LEMMA TokensSoFar ==
  ASSUME NEW ms \in Seq(Message)
  PROVE  /\ RecentTokens(ms) \in [0 .. Len(ms) -> Nat]
         /\ RecentTokens(ms)[0] = 0
         /\ \A n \in 1 .. Len(ms) :
              RecentTokens(ms)[n] = RecentTokens(ms)[n - 1] + EstimateTokens(ms[Len(ms) - n + 1])
  <1> DEFINE k == Len(ms)
             More(n, v) == v + EstimateTokens(ms[Len(ms) - n + 1])
             Solves(f) == f = [n \in 0 .. k |-> IF n = 0 THEN 0 ELSE More(n, f[n - 1])]
             step == [n \in 1 .. k |-> [v \in Nat |-> More(n, v)]]
             tokens == CHOOSE f : Solves(f)
  <1>1. k \in Nat
    OBVIOUS
  <1>2. \A n \in 1 .. k, v \in Nat : More(n, v) \in Nat
    <2> SUFFICES ASSUME NEW n \in 1 .. k, NEW v \in Nat PROVE More(n, v) \in Nat
      OBVIOUS
    <2>1. Len(ms) - n + 1 \in 1 .. Len(ms)
      OBVIOUS
    <2>m. ms[Len(ms) - n + 1] \in Message
      BY <2>1
    <2>2. ms[Len(ms) - n + 1].len \in Nat
      BY <2>m DEF Message
    <2> QED
      BY <2>2, SMTT(40) DEF EstimateTokens
  <1>3. RecentTokens(ms) = tokens
    BY DEF RecentTokens
  <1> HIDE DEF k, More
  <1>4. MapsInto(step, k, Nat) /\ \A n \in 1 .. k, v \in Nat : step[n][v] = More(n, v)
    BY <1>2 DEF MapsInto
  <1> HIDE DEF step
  <1>5. PICK f : Iterates(f, 0, step, k, Nat)
    <2>1. 0 \in Nat
      OBVIOUS
    <2> QED
      BY ONLY <1>1, <1>4, <2>1, RecursionExists
  <1>6. Solves(f)
    <2>1. \A n \in 1 .. k : n - 1 \in 0 .. k
      BY <1>1
    <2>2. \A n \in 1 .. k : f[n] = More(n, f[n - 1])
      BY <1>4, <1>5, <2>1 DEF Iterates
    <2>3. \A n \in 0 .. k : f[n] = IF n = 0 THEN 0 ELSE More(n, f[n - 1])
      BY <1>1, <1>5, <2>2 DEF Iterates
    <2> QED
      BY <1>5, <2>3 DEF Iterates
  <1>7. Solves(tokens)
    BY <1>6
  <1> HIDE DEF tokens
  <1>8. /\ tokens = [n \in 0 .. k |-> tokens[n]] /\ tokens[0] = 0
        /\ \A n \in 1 .. k : tokens[n] = More(n, tokens[n - 1])
    BY <1>1, <1>7
  <1>9. Iterates(tokens, 0, step, k, Nat)
    <2>1. \A n \in 1 .. k : tokens[n - 1] \in Nat => tokens[n] = step[n][tokens[n - 1]]
      BY <1>4, <1>8
    <2> QED
      BY ONLY <1>1, <1>4, <1>8, <2>1, RecursionStays
  <1>10. tokens \in [0 .. k -> Nat]
    BY <1>9 DEF Iterates
  <1> QED
    BY <1>3, <1>8, <1>10 DEF More, k

\* The loop of the trim.
LEMMA LoopSoFar ==
  ASSUME NEW ms \in Seq(Message), NEW budget \in Nat
  PROVE  LET acc == KeepLoop(ms, budget) IN
         /\ acc \in [0 .. Len(ms) -> [budget : Nat, kept : Nat]]
         /\ acc[0] = [budget |-> budget, kept |-> 0]
         /\ \A n \in 1 .. Len(ms) : acc[n] = KeepStep(ms[Len(ms) - n + 1], n, acc[n - 1])
  <1> DEFINE k == Len(ms)
             V == [budget : Nat, kept : Nat]
             none == [budget |-> budget, kept |-> 0]
             More(n, v) == KeepStep(ms[Len(ms) - n + 1], n, v)
             Solves(f) == f = [n \in 0 .. k |-> IF n = 0 THEN none ELSE More(n, f[n - 1])]
             step == [n \in 1 .. k |-> [v \in V |-> More(n, v)]]
             acc == CHOOSE f : Solves(f)
  <1>1. k \in Nat /\ none \in V
    OBVIOUS
  <1>2. \A n \in 1 .. k, v \in V : More(n, v) \in V
    <2> SUFFICES ASSUME NEW n \in 1 .. k, NEW v \in V PROVE More(n, v) \in V
      OBVIOUS
    <2>1. Len(ms) - n + 1 \in 1 .. Len(ms)
      OBVIOUS
    <2>m. ms[Len(ms) - n + 1] \in Message
      BY <2>1
    <2>2. ms[Len(ms) - n + 1].len \in Nat
      BY <2>m DEF Message
    <2> HIDE DEF k
    <2>3. Monus(v.budget, EstimateTokens(ms[Len(ms) - n + 1])) \in Nat
      BY <2>2 DEF EstimateTokens, Monus
    <2> QED
      BY <1>1, <2>3 DEF KeepStep
  <1>3. KeepLoop(ms, budget) = acc
    BY DEF KeepLoop
  <1> HIDE DEF k, V, none, More
  <1>4. MapsInto(step, k, V) /\ \A n \in 1 .. k, v \in V : step[n][v] = More(n, v)
    BY <1>2 DEF MapsInto
  <1> HIDE DEF step
  <1>5. PICK f : Iterates(f, none, step, k, V)
    BY ONLY <1>1, <1>4, RecursionExists
  <1>6. Solves(f)
    <2>1. \A n \in 1 .. k : n - 1 \in 0 .. k
      BY <1>1
    <2>2. \A n \in 1 .. k : f[n] = More(n, f[n - 1])
      BY <1>4, <1>5, <2>1 DEF Iterates
    <2>3. \A n \in 0 .. k : f[n] = IF n = 0 THEN none ELSE More(n, f[n - 1])
      BY <1>1, <1>5, <2>2 DEF Iterates
    <2> QED
      BY <1>5, <2>3 DEF Iterates
  <1>7. Solves(acc)
    BY <1>6
  <1> HIDE DEF acc
  <1>8. /\ acc = [n \in 0 .. k |-> acc[n]] /\ acc[0] = none
        /\ \A n \in 1 .. k : acc[n] = More(n, acc[n - 1])
    BY <1>1, <1>7
  <1>9. Iterates(acc, none, step, k, V)
    <2>1. \A n \in 1 .. k : acc[n - 1] \in V => acc[n] = step[n][acc[n - 1]]
      BY <1>4, <1>8
    <2> QED
      BY ONLY <1>1, <1>4, <1>8, <2>1, RecursionStays
  <1>10. acc \in [0 .. k -> V]
    BY <1>9 DEF Iterates
  <1> QED
    BY <1>3, <1>8, <1>10 DEF More, k, V, none

\* What is kept of the first n messages is those of the roles, in their order:
\* at[i] is the place that the i-th of them had.
Picks(kept, at, ms, n, roles) ==
  /\ at \in [1 .. Len(kept) -> 1 .. n]
  /\ \A i, j \in 1 .. Len(kept) : i < j => at[i] < at[j]
  /\ \A i \in 1 .. Len(kept) : kept[i] = ms[at[i]] /\ ms[at[i]].role \in roles
  /\ \A k \in 1 .. n : ms[k].role \in roles => \E i \in 1 .. Len(kept) : at[i] = k

\* A filter by roles picks its messages.
LEMMA WithRolesPicks ==
  ASSUME NEW M, NEW ms \in Seq(M), NEW roles
  PROVE  /\ WithRoles(ms, roles) \in Seq(M)
         /\ \E at : Picks(WithRoles(ms, roles), at, ms, Len(ms), roles)
  <1>k. PICK kept : Keeps(kept, M, ms, roles)
    BY KeptSoFar
  <1>1. /\ kept \in [0 .. Len(ms) -> Seq(M)]
        /\ WithRoles(ms, roles) = kept[Len(ms)]
        /\ kept[0] = <<>>
        /\ \A n \in 1 .. Len(ms) :
             kept[n] = IF ms[n].role \in roles THEN Append(kept[n - 1], ms[n])
                       ELSE kept[n - 1]
    BY <1>k DEF Keeps
  <1>2. Len(ms) \in Nat
    OBVIOUS
  <1> DEFINE S == {n \in 0 .. Len(ms) : \E at : Picks(kept[n], at, ms, n, roles)}
  <1>3. 0 \in S
    <2> DEFINE none == [i \in 1 .. 0 |-> 0]
    <2>1. none \in [1 .. Len(kept[0]) -> 1 .. 0] /\ 1 .. Len(kept[0]) = {} /\ 1 .. 0 = {}
      BY <1>1
    <2>2. Picks(kept[0], none, ms, 0, roles)
      BY <2>1 DEF Picks
    <2> QED
      BY <1>2, <2>2
  <1>4. ASSUME NEW n \in 0 .. Len(ms) - 1, n \in S PROVE n + 1 \in S
    <2>1. PICK at : Picks(kept[n], at, ms, n, roles)
      BY <1>4
    <2>2. n \in Nat /\ n + 1 \in 1 .. Len(ms) /\ (n + 1) - 1 = n /\ n \in 0 .. Len(ms)
      BY <1>2
    <2>3. kept[n] \in Seq(M) /\ ms[n + 1] \in M
      <3>1. kept \in [0 .. Len(ms) -> Seq(M)]
        BY <1>1
      <3>2. kept[n] \in Seq(M)
        BY <2>2, <3>1
      <3>3. ms[n + 1] \in M
        BY <2>2
      <3> QED
        BY <3>2, <3>3
    <2>4. PICK l \in Nat : l = Len(kept[n])
      BY <2>3
    <2>l. l \in Nat /\ l + 1 \in Nat
      BY <2>4
    <2>5. /\ at \in [1 .. l -> 1 .. n]
          /\ \A i, j \in 1 .. l : i < j => at[i] < at[j]
          /\ \A i \in 1 .. l : kept[n][i] = ms[at[i]] /\ ms[at[i]].role \in roles
          /\ \A k \in 1 .. n : ms[k].role \in roles => \E i \in 1 .. l : at[i] = k
      BY <2>1, <2>4 DEF Picks
    <2>6. CASE ms[n + 1].role \in roles
      <3> DEFINE new == [i \in 1 .. l + 1 |-> IF i = l + 1 THEN n + 1 ELSE at[i]]
      <3>1. kept[n + 1] = Append(kept[n], ms[n + 1])
        BY <1>1, <2>2, <2>6
      <3>2. /\ Len(kept[n + 1]) = l + 1
            /\ kept[n + 1][l + 1] = ms[n + 1]
            /\ \A i \in 1 .. l : kept[n + 1][i] = kept[n][i]
        BY <2>3, <2>4, <3>1
      <3>3. /\ new[l + 1] = n + 1
            /\ \A i \in 1 .. l : new[i] = at[i] /\ at[i] \in 1 .. n
        BY <2>l, <2>5
      <3>d. new = [i \in 1 .. l + 1 |-> new[i]]
        OBVIOUS
      <3> HIDE DEF new
      <3>4. new \in [1 .. l + 1 -> 1 .. n + 1]
        <4>1. \A i \in 1 .. l + 1 : i = l + 1 \/ i \in 1 .. l
          BY <2>l
        <4>2. \A i \in 1 .. l + 1 : new[i] \in 1 .. n + 1
          BY <2>2, <3>3, <4>1, SMTT(40)
        <4> QED
          BY <3>d, <4>2
      <3>5. \A i, j \in 1 .. l + 1 : i < j => new[i] < new[j]
        <4> SUFFICES ASSUME NEW i \in 1 .. l + 1, NEW j \in 1 .. l + 1, i < j
                     PROVE  new[i] < new[j]
          OBVIOUS
        <4>1. i \in 1 .. l
          BY <2>l
        <4>2. CASE j = l + 1
          <5>1. at[i] \in 1 .. n /\ new[i] = at[i] /\ new[j] = n + 1
            BY <3>3, <4>1, <4>2
          <5>2. \A k \in 1 .. n : k < n + 1
            BY <2>2
          <5> QED
            BY <5>1, <5>2
        <4>3. CASE j # l + 1
          <5>1. j \in 1 .. l
            BY <2>l, <4>3
          <5> QED
            BY <2>5, <3>3, <4>1, <5>1
        <4> QED
          BY <4>2, <4>3
      <3>6. \A i \in 1 .. l + 1 :
              kept[n + 1][i] = ms[new[i]] /\ ms[new[i]].role \in roles
        <4> SUFFICES ASSUME NEW i \in 1 .. l + 1
                     PROVE  kept[n + 1][i] = ms[new[i]] /\ ms[new[i]].role \in roles
          OBVIOUS
        <4>1. CASE i = l + 1
          BY <2>6, <3>2, <3>3, <4>1
        <4>2. CASE i # l + 1
          <5>1. i \in 1 .. l
            BY <2>l, <4>2
          <5> QED
            BY <2>5, <3>2, <3>3, <5>1
        <4> QED
          BY <4>1, <4>2
      <3>7. ASSUME NEW k \in 1 .. n + 1, ms[k].role \in roles
            PROVE  \E i \in 1 .. l + 1 : new[i] = k
        <4>1. CASE k = n + 1
          <5>1. l + 1 \in 1 .. l + 1
            BY <2>l
          <5> QED
            BY <3>3, <4>1, <5>1
        <4>2. CASE k # n + 1
          <5>1. k \in 1 .. n
            BY <2>2, <4>2
          <5>2. PICK i \in 1 .. l : at[i] = k
            BY <2>5, <3>7, <5>1
          <5>3. i \in 1 .. l + 1
            BY <2>l
          <5> QED
            BY <3>3, <5>2, <5>3
        <4> QED
          BY <4>1, <4>2
      <3>8. Picks(kept[n + 1], new, ms, n + 1, roles)
        BY <3>2, <3>4, <3>5, <3>6, <3>7 DEF Picks
      <3> QED
        BY <1>2, <2>2, <3>8
    <2>7. CASE ms[n + 1].role \notin roles
      <3>1. kept[n + 1] = kept[n]
        BY <1>1, <2>2, <2>7
      <3>2. \A k \in 1 .. n + 1 : ms[k].role \in roles => k \in 1 .. n
        BY <2>2, <2>7
      <3>3. at \in [1 .. l -> 1 .. n + 1]
        <4>1. \A i \in 1 .. l : at[i] \in 1 .. n + 1
          BY <2>2, <2>5
        <4> QED
          BY <2>5, <4>1
      <3>4. Picks(kept[n + 1], at, ms, n + 1, roles)
        <4>1. Len(kept[n + 1]) = l
          BY <2>4, <3>1
        <4>2. \A k \in 1 .. n + 1 : ms[k].role \in roles => \E i \in 1 .. l : at[i] = k
          BY <2>5, <3>2
        <4> QED
          BY <2>5, <3>1, <3>3, <4>1, <4>2 DEF Picks
      <3> QED
        BY <1>2, <2>2, <3>4
    <2> QED
      BY <2>6, <2>7
  <1> HIDE DEF S
  <1>5. 0 .. Len(ms) \subseteq S
    BY <1>2, <1>3, <1>4, UpTo
  <1>6. Len(ms) \in S
    BY <1>2, <1>5
  <1> QED
    BY <1>1, <1>2, <1>6 DEF S

\* One message more, at the end.
LEMMA WithRolesAppend ==
  ASSUME NEW M, NEW s \in Seq(M), NEW m \in M, NEW roles
  PROVE  WithRoles(Append(s, m), roles)
           = IF m.role \in roles THEN Append(WithRoles(s, roles), m) ELSE WithRoles(s, roles)
  <1> DEFINE k == Len(s)
             t == Append(s, m)
  <1>1. k \in Nat /\ t \in Seq(M) /\ Len(t) = k + 1 /\ t[k + 1] = m
        /\ \A i \in 1 .. k : t[i] = s[i]
    OBVIOUS
  <1>f. PICK f : Keeps(f, M, s, roles)
    BY KeptSoFar
  <1>2. /\ f \in [0 .. k -> Seq(M)]
        /\ WithRoles(s, roles) = f[k]
        /\ f[0] = <<>>
        /\ \A n \in 1 .. k :
             f[n] = IF s[n].role \in roles THEN Append(f[n - 1], s[n]) ELSE f[n - 1]
    BY <1>f DEF Keeps
  <1>g. PICK g : Keeps(g, M, t, roles)
    <2> HIDE DEF t
    <2> QED
      BY <1>1, KeptSoFar
  <1>3. /\ g \in [0 .. k + 1 -> Seq(M)]
        /\ WithRoles(t, roles) = g[k + 1]
        /\ g[0] = <<>>
        /\ \A n \in 1 .. k + 1 :
             g[n] = IF t[n].role \in roles THEN Append(g[n - 1], t[n]) ELSE g[n - 1]
    <2> HIDE DEF t
    <2> QED
      BY <1>1, <1>g DEF Keeps
  <1> HIDE DEF k, t
  <1> DEFINE S == {n \in 0 .. k : f[n] = g[n]}
  <1>4. 0 \in S
    BY <1>1, <1>2, <1>3
  <1>5. ASSUME NEW n \in 0 .. k - 1, n \in S PROVE n + 1 \in S
    <2>1. n + 1 \in 1 .. k /\ (n + 1) - 1 = n /\ n + 1 \in 1 .. k + 1 /\ n + 1 \in 0 .. k
      BY <1>1
    <2>2. f[n + 1] = IF s[n + 1].role \in roles THEN Append(f[n], s[n + 1]) ELSE f[n]
      BY <1>2, <2>1
    <2>3. g[n + 1] = IF t[n + 1].role \in roles THEN Append(g[n], t[n + 1]) ELSE g[n]
      BY <1>3, <2>1
    <2> QED
      BY <1>1, <1>5, <2>1, <2>2, <2>3
  <1> HIDE DEF S
  <1>6. 0 .. k \subseteq S
    BY <1>1, <1>4, <1>5, UpTo
  <1>7. f[k] = g[k]
    BY <1>1, <1>6 DEF S
  <1>8. k + 1 \in 1 .. k + 1 /\ (k + 1) - 1 = k
    BY <1>1
  <1> QED
    BY <1>1, <1>2, <1>3, <1>7, <1>8 DEF t

\* The last k messages cost what they cost, whatever comes before them.
LEMMA SameEnd ==
  ASSUME NEW ms \in Seq(Message), NEW ns \in Seq(Message), NEW k \in Nat,
         k <= Len(ms), k <= Len(ns),
         \A n \in 1 .. k : ms[Len(ms) - n + 1] = ns[Len(ns) - n + 1]
  PROVE  RecentTokens(ms)[k] = RecentTokens(ns)[k]
  <1> DEFINE f == RecentTokens(ms)
             g == RecentTokens(ns)
             S == {n \in 0 .. k : f[n] = g[n]}
  <1>1. /\ f[0] = 0 /\ g[0] = 0
        /\ \A n \in 1 .. k : f[n] = f[n - 1] + EstimateTokens(ms[Len(ms) - n + 1])
        /\ \A n \in 1 .. k : g[n] = g[n - 1] + EstimateTokens(ns[Len(ns) - n + 1])
    <2>1. \A n \in 1 .. k : n \in 1 .. Len(ms) /\ n \in 1 .. Len(ns)
      OBVIOUS
    <2> QED
      BY <2>1, TokensSoFar
  <1> HIDE DEF f, g
  <1>2. 0 \in S
    BY <1>1
  <1>3. ASSUME NEW n \in 0 .. k - 1, n \in S PROVE n + 1 \in S
    <2>1. n + 1 \in 1 .. k /\ (n + 1) - 1 = n /\ n + 1 \in 0 .. k
      OBVIOUS
    <2>2. f[n + 1] = f[n] + EstimateTokens(ms[Len(ms) - (n + 1) + 1])
      BY <1>1, <2>1
    <2>3. g[n + 1] = g[n] + EstimateTokens(ns[Len(ns) - (n + 1) + 1])
      BY <1>1, <2>1
    <2>4. ms[Len(ms) - (n + 1) + 1] = ns[Len(ns) - (n + 1) + 1]
      BY <2>1
    <2>5. f[n] = g[n]
      BY <1>3
    <2> QED
      BY <2>1, <2>2, <2>3, <2>4, <2>5
  <1> HIDE DEF S
  <1>4. 0 .. k \subseteq S
    BY <1>2, <1>3, UpTo
  <1>5. k \in S
    BY <1>4
  <1> QED
    BY <1>5 DEF S, f, g

\* The loop of the trim takes the longest run of recent messages that fits the
\* budget, and at least one message.
LEMMA LoopKeepsLongest ==
  ASSUME NEW ms \in Seq(Message), NEW budget \in Nat
  PROVE  \E k \in 0 .. Len(ms) :
           /\ k = KeepLoop(ms, budget)[Len(ms)].kept
           /\ Len(ms) > 0 => k > 0
           /\ k <= 1 \/ RecentTokens(ms)[k] <= budget
           /\ k < Len(ms) => RecentTokens(ms)[k + 1] > budget
  <1> DEFINE acc == KeepLoop(ms, budget)
             R == RecentTokens(ms)
             N == Len(ms)
             cost(n) == EstimateTokens(ms[Len(ms) - n + 1])
  <1>1. N \in Nat
    OBVIOUS
  <1>2. /\ acc \in [0 .. N -> [budget : Nat, kept : Nat]]
        /\ acc[0] = [budget |-> budget, kept |-> 0]
        /\ \A n \in 1 .. N : acc[n] = KeepStep(ms[Len(ms) - n + 1], n, acc[n - 1])
    BY LoopSoFar
  <1>3. /\ R \in [0 .. N -> Nat]
        /\ R[0] = 0
        /\ \A n \in 1 .. N : R[n] = R[n - 1] + cost(n)
    BY TokensSoFar
  <1>4. \A n \in 1 .. N : cost(n) \in Nat /\ cost(n) > 0
    <2> SUFFICES ASSUME NEW n \in 1 .. N PROVE cost(n) \in Nat /\ cost(n) > 0
      OBVIOUS
    <2>1. ms[Len(ms) - n + 1] \in Message
      <3>1. Len(ms) - n + 1 \in 1 .. Len(ms)
        OBVIOUS
      <3> QED
        BY <3>1
    <2>2. ms[Len(ms) - n + 1].len \in Nat
      BY <2>1 DEF Message
    <2>3. ms[Len(ms) - n + 1].len \div 4 \in Nat
      BY <2>2
    <2> QED
      BY <2>3 DEF EstimateTokens
  <1>5. \A n \in 1 .. N :
          acc[n] = IF \/ acc[n - 1].kept + 1 # n
                      \/ cost(n) > acc[n - 1].budget /\ acc[n - 1].kept # 0
                   THEN acc[n - 1]
                   ELSE [budget |-> Monus(acc[n - 1].budget, cost(n)), kept |-> n]
    BY <1>2 DEF KeepStep
  <1> HIDE DEF acc, R, N, cost
  <1> DEFINE Longest(n) ==
               /\ acc[n].kept <= n
               /\ n > 0 => acc[n].kept > 0
               /\ acc[n].budget = Monus(budget, R[acc[n].kept])
               /\ acc[n].kept <= 1 \/ R[acc[n].kept] <= budget
               /\ acc[n].kept < n => R[acc[n].kept + 1] > budget
             S == {n \in 0 .. N : Longest(n)}
  <1>6. 0 \in S
    <2>1. acc[0].kept = 0 /\ acc[0].budget = budget /\ Monus(budget, 0) = budget
      BY <1>2 DEF Monus
    <2> QED
      BY <1>1, <1>3, <2>1
  <1>7. ASSUME NEW n \in 0 .. N - 1, n \in S PROVE n + 1 \in S
    <2> DEFINE k == acc[n].kept
    <2>1. n \in Nat /\ n + 1 \in 1 .. N /\ (n + 1) - 1 = n /\ n \in 0 .. N /\ n + 1 \in 0 .. N
      BY <1>1
    <2>2. acc[n] \in [budget : Nat, kept : Nat]
      BY <1>2, <2>1
    <2>3. k \in Nat /\ acc[n].budget \in Nat
      BY <2>2
    <2>4. Longest(n)
      BY <1>7
    <2>5. acc[n + 1] = IF k + 1 # n + 1 \/ (cost(n + 1) > acc[n].budget /\ k # 0)
                       THEN acc[n]
                       ELSE [budget |-> Monus(acc[n].budget, cost(n + 1)), kept |-> n + 1]
      BY <1>5, <2>1
    <2>6. R[n + 1] = R[n] + cost(n + 1) /\ R[n] \in Nat /\ cost(n + 1) \in Nat /\ cost(n + 1) > 0
      BY <1>3, <1>4, <2>1
    <2> HIDE DEF k
    <2>7. CASE k # n
      <3>1. acc[n + 1] = acc[n]
        BY <2>1, <2>3, <2>5, <2>7
      <3>2. k < n /\ k < n + 1 /\ k > 0
        BY <2>1, <2>3, <2>4, <2>7 DEF k
      <3>3. Longest(n + 1)
        BY <2>1, <2>3, <2>4, <3>1, <3>2 DEF k
      <3> QED
        BY <2>1, <3>3
    <2>8. CASE k = n /\ n # 0 /\ cost(n + 1) > acc[n].budget
      <3>1. acc[n + 1] = acc[n]
        BY <2>1, <2>3, <2>5, <2>8
      <3>2. k < n + 1 /\ k > 0
        BY <2>1, <2>8
      <3>3. acc[n].budget = Monus(budget, R[n])
        BY <2>4, <2>8 DEF k
      <3>4. R[k + 1] > budget
        BY <2>6, <2>8, <3>3 DEF Monus
      <3>5. Longest(n + 1)
        BY <2>1, <2>3, <2>4, <3>1, <3>2, <3>4 DEF k
      <3> QED
        BY <2>1, <3>5
    <2>9. CASE k = n /\ (n = 0 \/ cost(n + 1) <= acc[n].budget)
      <3>1. acc[n + 1] = [budget |-> Monus(acc[n].budget, cost(n + 1)), kept |-> n + 1]
        BY <2>1, <2>3, <2>5, <2>6, <2>9
      <3>2. acc[n + 1].kept = n + 1 /\ acc[n + 1].budget = Monus(acc[n].budget, cost(n + 1))
        BY <3>1
      <3>3. acc[n].budget = Monus(budget, R[n])
        BY <2>4, <2>9 DEF k
      <3>4. Monus(acc[n].budget, cost(n + 1)) = Monus(budget, R[n + 1])
        BY <2>6, <3>3 DEF Monus
      <3>5. n + 1 <= 1 \/ R[n + 1] <= budget
        <4>1. CASE n = 0
          BY <4>1
        <4>2. CASE n # 0
          BY <2>6, <2>9, <3>3, <4>2 DEF Monus
        <4> QED
          BY <4>1, <4>2
      <3>6. Longest(n + 1)
        BY <2>1, <3>2, <3>4, <3>5
      <3> QED
        BY <2>1, <3>6
    <2>10. k = n => \/ n # 0 /\ cost(n + 1) > acc[n].budget
                    \/ n = 0 \/ cost(n + 1) <= acc[n].budget
      BY <2>3, <2>6
    <2> QED
      BY <2>7, <2>8, <2>9, <2>10
  <1> HIDE DEF S
  <1>8. 0 .. N \subseteq S
    BY <1>1, <1>6, <1>7, UpTo
  <1>9. N \in S
    BY <1>1, <1>8
  <1>10. Longest(N)
    BY <1>9 DEF S
  <1>11. acc[N].kept \in 0 .. N
    <2>1. acc[N] \in [budget : Nat, kept : Nat]
      BY <1>1, <1>2
    <2> QED
      BY <1>1, <1>10, <2>1
  <1> QED
    BY <1>1, <1>10, <1>11 DEF acc, R, N

-----------------------------------------------------------------------------
(* The conversation that the handler holds *)

\* Before the trim it is the whole one, in order.  An instruction is in the
\* first system message; one that the server put in front has the place 0.
Whole(ms, hints) ==
  /\ ms \in Seq(Message)
  /\ \A i, j \in 1 .. Len(ms) : i < j => ms[i].id < ms[j].id
  /\ \A i \in 1 .. Len(ms) :
       ms[i].id # 0 => ms[i].id \in DOMAIN request.messages /\ ms[i].role = SentRole(ms[i].id)
  /\ \A t \in DOMAIN request.messages :
       SentRole(t) \in Roles => \E i \in 1 .. Len(ms) : ms[i].id = t
  /\ \A i \in 1 .. Len(ms) :
       ms[i].id = 0 => \A t \in DOMAIN request.messages : SentRole(t) # "system"
  /\ \A i \in 1 .. Len(ms) :
       ms[i].hints = {} => ms[i].id # 0 /\ ms[i].len = request.messages[ms[i].id].len
  /\ \A i \in 1 .. Len(ms) :
       ms[i].hints # {} => /\ ms[i].hints = hints /\ ms[i].role = "system"
                           /\ \A j \in 1 .. i - 1 : ms[j].role # "system"
  /\ hints # {} => \E i \in 1 .. Len(ms) : ms[i].hints = hints

\* Its turns stay in order, and none is missing after the first one.
Turns(ms) ==
  /\ \A i \in 1 .. Len(ms) :
       ms[i].role # "system" => /\ ms[i].id \in DOMAIN request.messages
                                /\ ms[i].role = SentRole(ms[i].id)
  /\ \A i, j \in 1 .. Len(ms) :
       i < j /\ ms[i].role # "system" /\ ms[j].role # "system" => ms[i].id < ms[j].id
  /\ \A i \in 1 .. Len(ms), t \in SentTurns :
       ms[i].role # "system" /\ ms[i].id < t
         => \E j \in 1 .. Len(ms) : ms[j].role # "system" /\ ms[j].id = t

\* What the handler knows at each of its steps.
TranscriptInv ==
  /\ request \in Requests
  /\ phase \in {"received", "converted", "augmented", "trimmed", "checked", "done"}
  /\ messages \in Seq(Message)
  /\ trimmed \in BOOLEAN
  /\ system \in [id : Nat, hints : SUBSET Hints]
  /\ outcome \in {"pending", "tools_need_blocking", "no_user", "no_template", "prompted"}
  /\ phase = "converted" => Whole(messages, {})
  /\ phase = "augmented" => Whole(messages, Asked)
  /\ phase # "received" => Turns(messages)
  /\ phase # "done" => outcome = "pending"
  /\ outcome # "prompted" => prompt = <<>>
  /\ outcome = "prompted" => /\ prompt = WrapChat(messages) /\ prompt # <<>>
                             /\ system = SystemOf(messages)
  /\ TrimKeepsLongestFit

\* The system message is the first one.
LEMMA SystemFirst ==
  ASSUME NEW M, NEW ms \in Seq(M)
  PROVE  LET s == SelectInSeq(ms, IsSystem) IN
         \/ s = 0 /\ \A i \in 1 .. Len(ms) : ms[i].role # "system"
         \/ /\ s \in 1 .. Len(ms) /\ ms[s].role = "system"
            /\ \A i \in 1 .. s - 1 : ms[i].role # "system"
  <1> DEFINE T == {i \in 1 .. Len(ms) : IsSystem(ms[i])}
             s == SelectInSeq(ms, IsSystem)
  <1>1. s = IF T # {} THEN Min(T) ELSE 0
    BY DEF SelectInSeq
  <1>2. T \in SUBSET Nat /\ Len(ms) \in Nat
    OBVIOUS
  <1>3. CASE T = {}
    BY <1>1, <1>3 DEF IsSystem
  <1>4. CASE T # {}
    <2>1. s \in T /\ \A m \in T : s <= m
      <3> HIDE DEF T, s
      <3> QED
        BY <1>1, <1>2, <1>4, MinIs
    <2>2. ASSUME NEW i \in 1 .. s - 1 PROVE ms[i].role # "system"
      <3>1. s \in 1 .. Len(ms)
        BY <2>1
      <3>2. i \in 1 .. Len(ms) /\ ~(s <= i)
        BY <1>2, <3>1
      <3>3. i \notin T
        BY <2>1, <3>2
      <3> QED
        BY <3>2, <3>3 DEF IsSystem
    <2> QED
      BY <2>1, <2>2 DEF IsSystem
  <1> QED
    BY <1>3, <1>4

\* The messages of a request are a sequence of a role and a length each.
LEMMA RequestIs ==
  ASSUME request \in Requests
  PROVE  /\ request.messages \in Seq([role : STRING, len : Nat])
         /\ Len(request.messages) \in Nat
         /\ DOMAIN request.messages = 1 .. Len(request.messages)
         /\ \A t \in DOMAIN request.messages : t \in Nat \ {0} /\ request.messages[t].len \in Nat
  <1> DEFINE W == [role : STRING, len : Nat]
             req == request.messages
  <1>1. req \in Seq(W)
    BY RequestsAssumption
  <1>2. \A m \in W : m.len \in Nat
    OBVIOUS
  <1> HIDE DEF W, req
  <1>3. Len(req) \in Nat /\ DOMAIN req = 1 .. Len(req) /\ \A t \in 1 .. Len(req) : req[t] \in W
    BY <1>1
  <1>4. \A t \in DOMAIN req : t \in Nat \ {0} /\ req[t].len \in Nat
    BY <1>2, <1>3
  <1> QED
    BY <1>1, <1>3, <1>4 DEF W, req

\* The whole conversation has all its turns, in order.
LEMMA WholeTurns ==
  ASSUME request \in Requests, NEW ms, NEW hints, Whole(ms, hints)
  PROVE  Turns(ms)
  <1>1. ASSUME NEW i \in 1 .. Len(ms), ms[i].role # "system"
        PROVE  ms[i].id \in DOMAIN request.messages /\ ms[i].role = SentRole(ms[i].id)
    <2>1. ms[i].id # 0
      BY <1>1 DEF Whole
    <2> QED
      BY <1>1, <2>1 DEF Whole
  <1>2. ASSUME NEW t \in SentTurns PROVE \E j \in 1 .. Len(ms) : ms[j].role # "system" /\ ms[j].id = t
    <2>1. t \in DOMAIN request.messages /\ SentRole(t) \in Roles /\ SentRole(t) # "system"
      BY DEF SentTurns, Roles
    <2>2. PICK j \in 1 .. Len(ms) : ms[j].id = t
      BY <2>1 DEF Whole
    <2>3. t # 0
      BY <2>1, RequestIs
    <2>4. ms[j].role = SentRole(t)
      BY <2>2, <2>3 DEF Whole
    <2> QED
      BY <2>1, <2>2, <2>4
  <1>3. \A i, j \in 1 .. Len(ms) : i < j => ms[i].id < ms[j].id
    BY DEF Whole
  <1> QED
    BY <1>1, <1>2, <1>3 DEF Turns

\* The messages of the engine's roles are the whole conversation.
LEMMA ConvertedIsWhole ==
  ASSUME request \in Requests, ConvertRoles
  PROVE  Whole(messages', {})
  <1> DEFINE req == request.messages
             all == [i \in DOMAIN req |->
                       [role |-> RoleOf(request.endpoint, req[i].role),
                        len |-> req[i].len, id |-> i, hints |-> {}]]
             M == {all[i] : i \in DOMAIN req}
             ms == WithRoles(all, Roles)
  <1>1. messages' = ms
    BY DEF ConvertRoles
  <1>2. Len(req) \in Nat /\ DOMAIN req = 1 .. Len(req) /\ \A t \in 1 .. Len(req) : req[t].len \in Nat
    BY RequestIs
  <1>3. all \in Seq(M) /\ Len(all) = Len(req)
    <2>1. all = [i \in 1 .. Len(req) |-> all[i]] /\ \A i \in 1 .. Len(req) : all[i] \in M
      BY <1>2
    <2> HIDE DEF all, M
    <2> QED
      BY <1>2, <2>1, SMTT(40)
  <1>4. \A i \in 1 .. Len(req) : /\ all[i].role = SentRole(i) /\ all[i].len = req[i].len
                                 /\ all[i].id = i /\ all[i].hints = {}
                                 /\ all[i] = [role |-> all[i].role, len |-> all[i].len,
                                              id |-> i, hints |-> {}]
    BY <1>2 DEF SentRole
  <1> HIDE DEF all, M
  <1>5. PICK at : Picks(ms, at, all, Len(req), Roles)
    BY <1>3, WithRolesPicks
  <1>6. ms \in Seq(M)
    BY <1>3, WithRolesPicks
  <1> HIDE DEF ms
  <1>7. Len(ms) \in Nat /\ DOMAIN ms = 1 .. Len(ms)
    BY <1>6
  <1>8. \A i \in 1 .. Len(ms) :
          /\ at[i] \in 1 .. Len(req) /\ ms[i] = all[at[i]] /\ ms[i].id = at[i]
          /\ ms[i].role = SentRole(at[i]) /\ ms[i].role \in Roles
          /\ ms[i].len = req[at[i]].len /\ ms[i].hints = {}
    <2> SUFFICES ASSUME NEW i \in 1 .. Len(ms)
                 PROVE  /\ at[i] \in 1 .. Len(req) /\ ms[i] = all[at[i]] /\ ms[i].id = at[i]
                        /\ ms[i].role = SentRole(at[i]) /\ ms[i].role \in Roles
                        /\ ms[i].len = req[at[i]].len /\ ms[i].hints = {}
      OBVIOUS
    <2>1. at[i] \in 1 .. Len(req) /\ ms[i] = all[at[i]] /\ all[at[i]].role \in Roles
      BY <1>5 DEF Picks
    <2>2. \A k \in 1 .. Len(req) : all[k].role = SentRole(k) /\ all[k].len = req[k].len
                                   /\ all[k].id = k /\ all[k].hints = {}
      BY <1>4
    <2> QED
      BY <2>1, <2>2
  <1>9. ms \in Seq(Message)
    <2>1. \A i \in 1 .. Len(ms) : ms[i] \in Message
      <3> SUFFICES ASSUME NEW i \in 1 .. Len(ms) PROVE ms[i] \in Message
        OBVIOUS
      <3>1. at[i] \in Nat /\ ms[i].len \in Nat
        BY <1>2, <1>8
      <3>2. ms[i] = [role |-> ms[i].role, len |-> ms[i].len, id |-> at[i], hints |-> {}]
        BY <1>4, <1>8
      <3> QED
        BY <1>8, <3>1, <3>2 DEF Message
    <2> QED
      BY <1>6, <1>7, <2>1
  <1>10. \A i, j \in 1 .. Len(ms) : i < j => ms[i].id < ms[j].id
    BY <1>5, <1>8, SMTT(40) DEF Picks
  <1>11. ASSUME NEW t \in 1 .. Len(req), SentRole(t) \in Roles
         PROVE  \E i \in 1 .. Len(ms) : ms[i].id = t
    <2>1. PICK i \in 1 .. Len(ms) : at[i] = t
      BY <1>4, <1>5, <1>11, ZenonT(60) DEF Picks
    <2> QED
      BY <1>8, <2>1
  <1>12. \A i \in 1 .. Len(ms) : ms[i].id # 0
    BY <1>8
  <1> QED
    BY <1>1, <1>2, <1>8, <1>9, <1>10, <1>11, <1>12, ZenonT(60) DEF Whole

\* An instruction more leaves the conversation whole.
LEMMA HintedIsWhole ==
  ASSUME request \in Requests, NEW ms, NEW hints \in SUBSET Hints, NEW hint \in Hints,
         Whole(ms, hints)
  PROVE  Whole(WithHint(ms, hint), hints \cup {hint})
  <1> DEFINE s == SelectInSeq(ms, IsSystem)
             new == WithHint(ms, hint)
             N == Len(ms)
  <1>1. /\ ms \in Seq(Message) /\ N \in Nat /\ DOMAIN ms = 1 .. N
        /\ \A i \in 1 .. N : ms[i] \in Message
    BY DEF Whole
  <1>2. \A i \in 1 .. N : /\ ms[i].id \in Nat /\ ms[i].len \in Nat /\ ms[i].role \in Roles
                          /\ ms[i].hints \in SUBSET Hints
    BY <1>1 DEF Message
  <1>3. \/ s = 0 /\ \A i \in 1 .. N : ms[i].role # "system"
        \/ /\ s \in 1 .. N /\ ms[s].role = "system"
           /\ \A i \in 1 .. s - 1 : ms[i].role # "system"
    BY <1>1, SystemFirst
  <1>4. new = IF s # 0
              THEN [ms EXCEPT ![s].len = @ + 2 + HintLength, ![s].hints = @ \cup {hint}]
              ELSE Cons([role |-> "system", len |-> HintLength, id |-> 0, hints |-> {hint}], ms)
    BY DEF WithHint
  <1> HIDE DEF s, new, N
  <1>5. CASE s = 0
    <2> DEFINE m == [role |-> "system", len |-> HintLength, id |-> 0, hints |-> {hint}]
    <2>1. m \in Message
      BY TranscriptAssumption DEF Message, Roles, Hints
    <2>2. new = <<m>> \o ms
      BY <1>4, <1>5 DEF Cons
    <2>3. /\ new \in Seq(Message) /\ Len(new) = N + 1 /\ new[1] = m
          /\ \A i \in 1 .. N : new[i + 1] = ms[i]
      BY <1>1, <2>1, <2>2 DEF N
    <2>4. m.role = "system" /\ m.id = 0 /\ m.hints = {hint}
      OBVIOUS
    <2> HIDE DEF m
    <2>5. \A i \in 1 .. N + 1 : i = 1 \/ (i - 1 \in 1 .. N /\ new[i] = ms[i - 1])
      <3> SUFFICES ASSUME NEW i \in 1 .. N + 1, i # 1
                   PROVE  i - 1 \in 1 .. N /\ new[i] = ms[i - 1]
        OBVIOUS
      <3>1. i - 1 \in 1 .. N /\ (i - 1) + 1 = i
        BY <1>1
      <3> QED
        BY <2>3, <3>1
    <2>6. \A i \in 1 .. N : ms[i].role # "system" /\ ms[i].hints = {} /\ ms[i].id # 0
      BY <1>3, <1>5 DEF Whole, N
    <2>7. hints = {}
      <3>1. hints # {} => \E i \in 1 .. N : ms[i].hints = hints
        BY DEF Whole, N
      <3> QED
        BY <2>6, <3>1
    <2>8. ASSUME NEW t \in DOMAIN request.messages PROVE SentRole(t) # "system"
      <3> SUFFICES ASSUME SentRole(t) = "system" PROVE FALSE
        OBVIOUS
      <3>1. PICK i \in 1 .. N : ms[i].id = t
        BY DEF Whole, Roles, N
      <3> QED
        BY <2>6, <3>1 DEF Whole, N
    <2>9. ASSUME NEW i \in 1 .. N + 1, NEW j \in 1 .. N + 1, i < j PROVE new[i].id < new[j].id
      <3>1. j - 1 \in 1 .. N /\ new[j] = ms[j - 1]
        BY <1>1, <2>5, <2>9
      <3>2. CASE i = 1
        BY <1>2, <2>3, <2>4, <2>6, <3>1, <3>2
      <3>3. CASE i # 1
        <4>1. i - 1 \in 1 .. N /\ new[i] = ms[i - 1] /\ i - 1 < j - 1
          BY <1>1, <2>5, <2>9, <3>3
        <4> QED
          BY <3>1, <4>1 DEF Whole, N
      <3> QED
        BY <3>2, <3>3
    <2>10. ASSUME NEW t \in DOMAIN request.messages, SentRole(t) \in Roles
           PROVE  \E i \in 1 .. N + 1 : new[i].id = t
      <3>1. PICK i \in 1 .. N : ms[i].id = t
        BY <2>10 DEF Whole, N
      <3>2. i + 1 \in 1 .. N + 1
        BY <1>1
      <3> QED
        BY <2>3, <3>1, <3>2
    <2>11. ASSUME NEW i \in 1 .. N + 1, new[i].id # 0
           PROVE  new[i].id \in DOMAIN request.messages /\ new[i].role = SentRole(new[i].id)
      BY <2>3, <2>4, <2>5, <2>11 DEF Whole, N
    <2>12. ASSUME NEW i \in 1 .. N + 1, new[i].hints = {}
           PROVE  new[i].id # 0 /\ new[i].len = request.messages[new[i].id].len
      <3>1. i # 1
        BY <2>3, <2>4, <2>12
      <3>2. i - 1 \in 1 .. N /\ new[i] = ms[i - 1]
        BY <2>5, <3>1
      <3> QED
        BY <2>12, <3>2 DEF Whole, N
    <2>13. ASSUME NEW i \in 1 .. N + 1, new[i].hints # {}
           PROVE  /\ new[i].hints = {hint} /\ new[i].role = "system"
                  /\ \A j \in 1 .. i - 1 : new[j].role # "system"
      <3>1. i = 1
        BY <2>5, <2>6, <2>13
      <3>2. 1 .. i - 1 = {}
        BY <3>1
      <3> QED
        BY <2>3, <2>4, <3>1, <3>2
    <2>14. 1 \in 1 .. N + 1 /\ new[1].hints = {hint}
      BY <1>1, <2>3, <2>4
    <2>15. Whole(new, {hint})
      BY <2>3, <2>8, <2>9, <2>10, <2>11, <2>12, <2>13, <2>14 DEF Whole
    <2> QED
      BY <2>7, <2>15 DEF new
  <1>6. CASE s # 0
    <2>1. s \in 1 .. N /\ ms[s].role = "system" /\ \A i \in 1 .. s - 1 : ms[i].role # "system"
      BY <1>3, <1>6
    <2> DEFINE m == [ms[s] EXCEPT !.len = @ + 2 + HintLength, !.hints = @ \cup {hint}]
    <2>2. m \in Message /\ m.role = "system" /\ m.id = ms[s].id /\ m.hints = ms[s].hints \cup {hint}
      <3>1. ms[s] \in Message /\ ms[s].len + 2 + HintLength \in Nat
        BY <1>1, <1>2, <2>1, TranscriptAssumption
      <3>2. ms[s].hints \cup {hint} \in SUBSET Hints
        BY <1>2, <2>1
      <3>3. m \in Message
        BY <3>1, <3>2 DEF Message
      <3>4. m.role = ms[s].role /\ m.id = ms[s].id /\ m.hints = ms[s].hints \cup {hint}
        BY <3>1 DEF Message
      <3> QED
        BY <2>1, <3>3, <3>4
    <2>3. new = [ms EXCEPT ![s] = m]
      BY <1>1, <1>4, <1>6, <2>1
    <2> HIDE DEF m
    <2>4. /\ new \in Seq(Message) /\ Len(new) = N /\ new[s] = m
          /\ \A i \in 1 .. N : i # s => new[i] = ms[i]
      BY <1>1, <2>1, <2>2, <2>3 DEF N
    <2>5. \A i \in 1 .. N : new[i].id = ms[i].id /\ new[i].role = ms[i].role
      BY <2>1, <2>2, <2>4
    <2>6. \A i \in 1 .. N : ms[i].hints # {} => i = s
      <3> SUFFICES ASSUME NEW i \in 1 .. N, ms[i].hints # {} PROVE i = s
        OBVIOUS
      <3>1. ms[i].role = "system" /\ \A j \in 1 .. i - 1 : ms[j].role # "system"
        BY DEF Whole, N
      <3>2. ~(i < s) /\ ~(s < i)
        <4>1. i < s => i \in 1 .. s - 1
          BY <1>1, <2>1
        <4>2. s < i => s \in 1 .. i - 1
          BY <1>1, <2>1
        <4> QED
          BY <2>1, <3>1, <4>1, <4>2
      <3> QED
        BY <1>1, <2>1, <3>2
    <2>7. ms[s].hints = hints
      <3>1. CASE hints = {}
        BY <2>1, <3>1 DEF Whole, N
      <3>2. CASE hints # {}
        <4>1. PICK i \in 1 .. N : ms[i].hints = hints
          BY <3>2 DEF Whole, N
        <4> QED
          BY <2>6, <3>2, <4>1
      <3> QED
        BY <3>1, <3>2
    <2>8. new[s].hints = hints \cup {hint} /\ new[s].hints # {}
      BY <2>2, <2>4, <2>7
    <2>9. ASSUME NEW i \in 1 .. N, new[i].hints # {}
          PROVE  /\ new[i].hints = hints \cup {hint} /\ new[i].role = "system"
                 /\ \A j \in 1 .. i - 1 : new[j].role # "system"
      <3>1. i = s
        BY <2>4, <2>6, <2>9
      <3>2. \A j \in 1 .. s - 1 : j \in 1 .. N
        BY <1>1, <2>1
      <3> QED
        BY <2>1, <2>5, <2>8, <3>1, <3>2
    <2>10. ASSUME NEW i \in 1 .. N, new[i].hints = {}
           PROVE  new[i].id # 0 /\ new[i].len = request.messages[new[i].id].len
      <3>1. i # s
        BY <2>8, <2>10
      <3> QED
        BY <2>4, <2>10, <3>1 DEF Whole, N
    <2>11. \A i, j \in 1 .. N : i < j => new[i].id < new[j].id
      BY <2>5 DEF Whole, N
    <2>12. \A i \in 1 .. N :
             new[i].id # 0 => /\ new[i].id \in DOMAIN request.messages
                              /\ new[i].role = SentRole(new[i].id)
      BY <2>5 DEF Whole, N
    <2>13. \A t \in DOMAIN request.messages :
             SentRole(t) \in Roles => \E i \in 1 .. N : new[i].id = t
      BY <2>5 DEF Whole, N
    <2>14. \A i \in 1 .. N :
             new[i].id = 0 => \A t \in DOMAIN request.messages : SentRole(t) # "system"
      BY <2>5 DEF Whole, N
    <2>15. Whole(new, hints \cup {hint})
      BY <2>1, <2>4, <2>8, <2>9, <2>10, <2>11, <2>12, <2>13, <2>14 DEF Whole
    <2> QED
      BY <2>15 DEF new
  <1> QED
    BY <1>5, <1>6

-----------------------------------------------------------------------------
(* The trim *)

\* What the loop keeps: the last k messages, and what they cost.
Recent(kept, ms, budget, k) ==
  /\ kept \in Seq(Message) /\ k \in 0 .. Len(ms) /\ Len(kept) = k
  /\ \A i \in 1 .. k : kept[i] = ms[Len(ms) - k + i]
  /\ Len(ms) > 0 => k > 0
  /\ TotalTokens(kept) \in Nat /\ (k > 0 => TotalTokens(kept) > 0)
  /\ k <= 1 \/ TotalTokens(kept) <= budget
  /\ k < Len(ms) => TotalTokens(kept) + EstimateTokens(ms[Len(ms) - k]) > budget

\* The loop of the trim keeps a stretch of the last messages.
LEMMA KeepRecentKeeps ==
  ASSUME NEW ms \in Seq(Message), NEW budget \in Nat
  PROVE  \E k : Recent(KeepRecent(ms, budget), ms, budget, k)
  <1> DEFINE N == Len(ms)
             kept == KeepRecent(ms, budget)
             R == RecentTokens(ms)
  <1>1. N \in Nat
    OBVIOUS
  <1>2. PICK k \in 0 .. N :
          /\ k = KeepLoop(ms, budget)[N].kept
          /\ N > 0 => k > 0
          /\ k <= 1 \/ R[k] <= budget
          /\ k < N => R[k + 1] > budget
    BY LoopKeepsLongest
  <1>3. kept = SubSeq(ms, N - k + 1, N)
    BY <1>2 DEF KeepRecent
  <1>4. /\ kept \in Seq(Message) /\ Len(kept) = k
        /\ \A i \in 1 .. k : kept[i] = ms[N - k + i]
    <2>1. N - k + 1 \in 1 .. N + 1 /\ N - (N - k + 1) + 1 = k
      BY <1>1, <1>2, SMTT(40)
    <2>2. kept \in Seq(Message)
      BY <1>1, <1>3, <2>1
    <2>3. Len(kept) = k
      BY <1>1, <1>3, <2>1
    <2>4. ASSUME NEW i \in 1 .. k PROVE kept[i] = ms[N - k + i]
      <3>1. (N - k + 1) + i - 1 = N - k + i
        BY <1>1, <1>2
      <3>2. i \in 1 .. N - (N - k + 1) + 1
        BY <1>1, <1>2
      <3> QED
        BY <1>1, <1>3, <2>1, <3>1, <3>2
    <2> QED
      BY <2>2, <2>3, <2>4
  <1>k. k \in Nat /\ k <= N /\ N \in Nat
    BY <1>1, <1>2
  <1>5. TotalTokens(kept) = R[k]
    <2>1. \A n \in 1 .. k : kept[k - n + 1] = ms[N - n + 1]
      <3> SUFFICES ASSUME NEW n \in 1 .. k PROVE kept[k - n + 1] = ms[N - n + 1]
        OBVIOUS
      <3>1. k - n + 1 \in 1 .. k /\ N - k + (k - n + 1) = N - n + 1
        BY <1>k
      <3>2. kept[k - n + 1] = ms[N - k + (k - n + 1)]
        BY <1>4, <3>1
      <3> QED
        BY <3>1, <3>2
    <2>2. RecentTokens(kept)[k] = R[k]
      <3>1. k \in Nat /\ k <= N /\ k <= k
        BY <1>1, <1>2
      <3> HIDE DEF kept
      <3> QED
        BY <1>4, <2>1, <3>1, SameEnd
    <2> QED
      BY <1>4, <2>2 DEF TotalTokens
  <1>6. /\ R \in [0 .. N -> Nat]
        /\ \A n \in 1 .. N : R[n] = R[n - 1] + EstimateTokens(ms[N - n + 1])
    BY TokensSoFar
  <1> HIDE DEF N, kept, R
  <1>7. k \in Nat /\ R[k] \in Nat
    BY <1>1, <1>2, <1>6
  <1>8. ASSUME k > 0 PROVE R[k] > 0
    <2>1. k \in 1 .. N /\ k - 1 \in 0 .. N /\ N - k + 1 \in 1 .. N
      BY <1>1, <1>2, <1>8, SMTT(40)
    <2>2. R[k - 1] \in Nat /\ R[k] = R[k - 1] + EstimateTokens(ms[N - k + 1])
      BY <1>6, <2>1
    <2>3. ms[N - k + 1] \in Message
      BY <2>1 DEF N
    <2>4. ms[N - k + 1].len \in Nat
      BY <2>3 DEF Message
    <2>5. ms[N - k + 1].len \div 4 \in Nat
      BY <2>4
    <2> QED
      BY <2>2, <2>5 DEF EstimateTokens
  <1>9. ASSUME k < N PROVE R[k] + EstimateTokens(ms[N - k]) > budget
    <2>1. k + 1 \in 1 .. N /\ (k + 1) - 1 = k /\ N - (k + 1) + 1 = N - k
      BY <1>1, <1>7, <1>9
    <2>2. R[k + 1] = R[k] + EstimateTokens(ms[N - k])
      BY <1>6, <2>1
    <2> QED
      BY <1>2, <1>9, <2>2
  <1>10. Recent(kept, ms, budget, k)
    BY <1>2, <1>4, <1>5, <1>7, <1>8, <1>9 DEF Recent, N
  <1> QED
    BY <1>10 DEF kept

\* A message in front adds its own cost.
LEMMA TotalCons ==
  ASSUME NEW m \in Message, NEW ms \in Seq(Message)
  PROVE  /\ Cons(m, ms) \in Seq(Message) /\ Len(Cons(m, ms)) = Len(ms) + 1
         /\ Cons(m, ms)[1] = m /\ \A i \in 1 .. Len(ms) : Cons(m, ms)[i + 1] = ms[i]
         /\ TotalTokens(Cons(m, ms)) = TotalTokens(ms) + EstimateTokens(m)
  <1> DEFINE new == Cons(m, ms)
             N == Len(ms)
  <1>1. N \in Nat
    OBVIOUS
  <1>2. /\ new \in Seq(Message) /\ Len(new) = N + 1
        /\ new[1] = m /\ \A i \in 1 .. N : new[i + 1] = ms[i]
    BY DEF Cons
  <1> HIDE DEF new
  <1>3. RecentTokens(new)[N] = RecentTokens(ms)[N]
    <2>1. \A n \in 1 .. N : new[(N + 1) - n + 1] = ms[N - n + 1]
      <3> SUFFICES ASSUME NEW n \in 1 .. N PROVE new[(N + 1) - n + 1] = ms[N - n + 1]
        OBVIOUS
      <3>1. N - n + 1 \in 1 .. N /\ (N - n + 1) + 1 = (N + 1) - n + 1
        BY <1>1
      <3> QED
        BY <1>2, <3>1
    <2>2. N <= N /\ N <= N + 1
      BY <1>1
    <2> QED
      BY <1>1, <1>2, <2>1, <2>2, SameEnd
  <1>4. RecentTokens(new)[N + 1] = RecentTokens(new)[N] + EstimateTokens(new[1])
    <2>1. N + 1 \in 1 .. N + 1 /\ (N + 1) - 1 = N /\ (N + 1) - (N + 1) + 1 = 1
      BY <1>1
    <2>2. \A n \in 1 .. N + 1 :
            RecentTokens(new)[n] = RecentTokens(new)[n - 1] + EstimateTokens(new[(N + 1) - n + 1])
      BY <1>2, TokensSoFar
    <2>3. RecentTokens(new)[N + 1]
            = RecentTokens(new)[(N + 1) - 1] + EstimateTokens(new[(N + 1) - (N + 1) + 1])
      BY <2>1, <2>2
    <2> QED
      BY <2>1, <2>3
  <1>5. TotalTokens(new) = TotalTokens(ms) + EstimateTokens(m)
    BY <1>2, <1>3, <1>4 DEF TotalTokens
  <1> QED
    BY <1>2, <1>5 DEF new

\* The messages beside the one at s, and the place each of them had.
Beside(rest, at, ms, s) ==
  /\ rest \in Seq(Message) /\ s \in 0 .. Len(ms)
  /\ Len(rest) = IF s = 0 THEN Len(ms) ELSE Len(ms) - 1
  /\ at \in [1 .. Len(rest) -> 1 .. Len(ms)]
  /\ \A i \in 1 .. Len(rest) : rest[i] = ms[at[i]] /\ at[i] # s
  /\ \A i, j \in 1 .. Len(rest) : i < j <=> at[i] < at[j]
  /\ \A p \in 1 .. Len(ms) : p # s => \E i \in 1 .. Len(rest) : at[i] = p

\* Taking the system message out leaves the messages beside it.
LEMMA RemovedAt ==
  ASSUME NEW ms \in Seq(Message), NEW s \in 0 .. Len(ms)
  PROVE  \E at : Beside(IF s = 0 THEN ms ELSE RemoveAt(ms, s), at, ms, s)
  <1> DEFINE N == Len(ms)
  <1>1. N \in Nat /\ s \in Nat /\ s <= N
    OBVIOUS
  <1>2. CASE s = 0
    <2> DEFINE at == [i \in 1 .. N |-> i]
    <2>1. Beside(ms, at, ms, s)
      BY <1>1, <1>2 DEF Beside
    <2> QED
      BY <1>2, <2>1
  <1>3. CASE s # 0
    <2> DEFINE rest == RemoveAt(ms, s)
               at == [i \in 1 .. N - 1 |-> IF i < s THEN i ELSE i + 1]
               front == SubSeq(ms, 1, s - 1)
               back == SubSeq(ms, s + 1, N)
    <2>1. /\ front \in Seq(Message) /\ Len(front) = s - 1
          /\ \A i \in 1 .. s - 1 : front[i] = ms[i]
      BY <1>1, <1>3
    <2>2. back \in Seq(Message) /\ Len(back) = N - s
      BY <1>1, <1>3
    <2>3. ASSUME NEW i \in 1 .. N - s PROVE back[i] = ms[s + i]
      <3>1. (s + 1) + i - 1 = s + i /\ i \in 1 .. N - (s + 1) + 1
        BY <1>1
      <3> QED
        BY <1>1, <1>3, <3>1
    <2>4. rest = front \o back
      BY DEF RemoveAt
    <2> HIDE DEF front, back, rest
    <2>5. rest \in Seq(Message) /\ Len(rest) = N - 1
      BY <1>1, <1>3, <2>1, <2>2, <2>4
    <2>6. ASSUME NEW i \in 1 .. N - 1 PROVE rest[i] = ms[IF i < s THEN i ELSE i + 1]
      <3>1. CASE i < s
        <4>1. i \in 1 .. s - 1
          BY <1>1, <3>1
        <4>2. rest[i] = front[i]
          BY <1>1, <2>1, <2>2, <2>4, <4>1
        <4> QED
          BY <2>1, <3>1, <4>1, <4>2
      <3>2. CASE ~(i < s)
        <4>1. i - (s - 1) \in 1 .. N - s /\ s + (i - (s - 1)) = i + 1
          BY <1>1, <1>3, <3>2
        <4>2. rest[i] = back[i - (s - 1)]
          BY <1>1, <1>3, <2>1, <2>2, <2>4, <3>2
        <4> QED
          BY <2>3, <3>2, <4>1, <4>2
      <3> QED
        BY <3>1, <3>2
    <2>7. \A i \in 1 .. N - 1 : at[i] = (IF i < s THEN i ELSE i + 1) /\ at[i] \in 1 .. N /\ at[i] # s
      BY <1>1, <1>3
    <2>8. at \in [1 .. N - 1 -> 1 .. N]
      BY <2>7
    <2> HIDE DEF at
    <2>9. \A i, j \in 1 .. N - 1 : i < j <=> at[i] < at[j]
      BY <1>1, <2>7
    <2>10. ASSUME NEW p \in 1 .. N, p # s PROVE \E i \in 1 .. N - 1 : at[i] = p
      <3>1. CASE p < s
        <4>1. p \in 1 .. N - 1
          BY <1>1, <3>1
        <4> QED
          BY <2>7, <3>1, <4>1
      <3>2. CASE s < p
        <4>1. p - 1 \in 1 .. N - 1 /\ ~(p - 1 < s) /\ (p - 1) + 1 = p
          BY <1>1, <1>3, <3>2
        <4> QED
          BY <2>7, <4>1
      <3> QED
        BY <1>1, <2>10, <3>1, <3>2
    <2>11. Beside(rest, at, ms, s)
      BY <1>1, <1>3, <2>5, <2>6, <2>7, <2>8, <2>9, <2>10 DEF Beside
    <2> QED
      BY <1>3, <2>11 DEF rest
  <1> QED
    BY <1>2, <1>3

\* What the trim leaves: the system message at s, if there is one, and the last
\* k of the messages beside it.
TrimmedTo(new, ms, s, rest, at, k, off) ==
  /\ s = SelectInSeq(ms, IsSystem) /\ Beside(rest, at, ms, s)
  /\ k \in 0 .. Len(rest) /\ (Len(rest) > 0 => k > 0)
  /\ off = IF s = 0 THEN 0 ELSE 1
  /\ new \in Seq(Message) /\ Len(new) = off + k
  /\ s # 0 => new[1] = ms[s]
  /\ \A i \in 1 .. k : new[off + i] = rest[Len(rest) - k + i]
  /\ k <= 1 \/ TotalTokens(new) <= Budget
  /\ k < Len(rest) => TotalTokens(new) + EstimateTokens(rest[Len(rest) - k]) > Budget

\* trim_messages_for_context leaves that.
LEMMA TrimForContextIs ==
  ASSUME NEW ms \in Seq(Message)
  PROVE  \E s, rest, at, k, off : TrimmedTo(TrimForContext(ms), ms, s, rest, at, k, off)
  <1> DEFINE s == SelectInSeq(ms, IsSystem)
             rest == IF s = 0 THEN ms ELSE RemoveAt(ms, s)
             new == TrimForContext(ms)
  <1>1. s \in 0 .. Len(ms) /\ s \in Nat
    BY SystemFirst
  <1>2. new = IF s = 0 THEN KeepRecent(rest, Budget)
              ELSE Cons(ms[s], KeepRecent(rest, Monus(Budget, EstimateTokens(ms[s]))))
    BY DEF TrimForContext
  <1>3. Budget \in Nat
    BY TranscriptAssumption
  <1> HIDE DEF s
  <1>4. PICK at : Beside(rest, at, ms, s)
    BY <1>1, RemovedAt
  <1> HIDE DEF rest, new
  <1>5. rest \in Seq(Message) /\ Len(rest) \in Nat
    BY <1>4 DEF Beside
  <1>6. CASE s = 0
    <2>1. PICK k : Recent(new, rest, Budget, k)
      BY <1>2, <1>3, <1>5, <1>6, KeepRecentKeeps
    <2>2. k \in Nat
      BY <2>1 DEF Recent
    <2>3. TrimmedTo(new, ms, s, rest, at, k, 0)
      BY <1>4, <1>6, <2>1, <2>2 DEF TrimmedTo, Recent, s
    <2> QED
      BY <2>3 DEF new
  <1>7. CASE s # 0
    <2> DEFINE m == ms[s]
               c == EstimateTokens(m)
               b == Monus(Budget, c)
               kept == KeepRecent(rest, b)
    <2>1. m \in Message /\ c \in Nat
      <3>1. m \in Message
        BY <1>1, <1>7
      <3>2. m.len \in Nat
        BY <3>1 DEF Message
      <3>3. m.len \div 4 \in Nat
        BY <3>2
      <3> QED
        BY <3>1, <3>3 DEF EstimateTokens
    <2> HIDE DEF c, m
    <2>2. b \in Nat
      BY <1>3, <2>1 DEF Monus
    <2>b. b = IF Budget > c THEN Budget - c ELSE 0
      BY DEF Monus
    <2> HIDE DEF b
    <2>3. PICK k : Recent(kept, rest, b, k)
      BY <1>5, <2>2, KeepRecentKeeps
    <2>4. new = Cons(m, kept)
      BY <1>2, <1>7 DEF m, c, b
    <2> HIDE DEF kept
    <2>5. k \in Nat /\ kept \in Seq(Message) /\ Len(kept) = k
      BY <2>3 DEF Recent
    <2>6. /\ new \in Seq(Message) /\ Len(new) = k + 1
          /\ new[1] = m /\ \A i \in 1 .. k : new[i + 1] = kept[i]
          /\ TotalTokens(new) = TotalTokens(kept) + c
      <3>1. /\ Cons(m, kept) \in Seq(Message) /\ Len(Cons(m, kept)) = Len(kept) + 1
            /\ Cons(m, kept)[1] = m
            /\ \A i \in 1 .. Len(kept) : Cons(m, kept)[i + 1] = kept[i]
            /\ TotalTokens(Cons(m, kept)) = TotalTokens(kept) + EstimateTokens(m)
        BY <2>1, <2>5, TotalCons
      <3> QED
        BY <2>4, <2>5, <3>1 DEF c
    <2>7. k \in 0 .. Len(rest) /\ (Len(rest) > 0 => k > 0)
      BY <2>3 DEF Recent
    <2>8. \A i \in 1 .. k : new[1 + i] = rest[Len(rest) - k + i]
      <3> SUFFICES ASSUME NEW i \in 1 .. k PROVE new[1 + i] = rest[Len(rest) - k + i]
        OBVIOUS
      <3>1. new[i + 1] = kept[i] /\ i + 1 = 1 + i
        BY <2>6
      <3>2. kept[i] = rest[Len(rest) - k + i]
        BY <2>3 DEF Recent
      <3> QED
        BY <3>1, <3>2
    <2>9. k <= 1 \/ TotalTokens(new) <= Budget
      <3>1. TotalTokens(kept) \in Nat /\ (k > 0 => TotalTokens(kept) > 0)
        BY <2>3 DEF Recent
      <3>2. k <= 1 \/ TotalTokens(kept) <= b
        BY <2>3 DEF Recent
      <3>3. TotalTokens(new) = TotalTokens(kept) + c
        BY <2>6
      <3> QED
        BY <1>3, <2>1, <2>b, <2>5, <3>1, <3>2, <3>3
    <2>10. ASSUME k < Len(rest)
           PROVE  TotalTokens(new) + EstimateTokens(rest[Len(rest) - k]) > Budget
      <3> DEFINE d == EstimateTokens(rest[Len(rest) - k])
      <3>1. TotalTokens(kept) \in Nat /\ TotalTokens(kept) + d > b
        BY <2>3, <2>10 DEF Recent
      <3>2. rest[Len(rest) - k] \in Message
        <4>1. Len(rest) - k \in 1 .. Len(rest)
          BY <1>5, <2>5, <2>10
        <4> QED
          BY <1>5, <4>1
      <3>3. rest[Len(rest) - k].len \in Nat
        BY <3>2 DEF Message
      <3>4. rest[Len(rest) - k].len \div 4 \in Nat
        BY <3>3
      <3>5. d \in Nat
        BY <3>4 DEF EstimateTokens
      <3>6. TotalTokens(new) = TotalTokens(kept) + c
        BY <2>6
      <3> HIDE DEF d
      <3>7. TotalTokens(new) + d > Budget
        BY <1>3, <2>1, <2>b, <3>1, <3>5, <3>6
      <3> QED
        BY <3>7 DEF d
    <2>11. new \in Seq(Message) /\ Len(new) = 1 + k /\ new[1] = ms[s]
      BY <2>5, <2>6 DEF m
    <2>12. TrimmedTo(new, ms, s, rest, at, k, 1)
      BY <1>4, <1>7, <2>7, <2>8, <2>9, <2>10, <2>11 DEF TrimmedTo, s
    <2> QED
      BY <2>12 DEF new
  <1> QED
    BY <1>6, <1>7

\* A message that is left is the system message in front or one of the last k.
LEMMA TrimmedMessage ==
  ASSUME NEW new, NEW ms \in Seq(Message), NEW s, NEW rest, NEW at, NEW k, NEW off,
         TrimmedTo(new, ms, s, rest, at, k, off)
  PROVE  /\ Len(rest) \in Nat /\ k \in Nat /\ k <= Len(rest) /\ off \in {0, 1}
         /\ \A i \in 1 .. Len(new) :
              \/ i = 1 /\ off = 1 /\ new[i] = ms[s]
              \/ \E j \in Len(rest) - k + 1 .. Len(rest) :
                   i = j - (Len(rest) - k) + off /\ new[i] = ms[at[j]]
         /\ \A j \in Len(rest) - k + 1 .. Len(rest) :
              /\ j - (Len(rest) - k) + off \in 1 .. Len(new)
              /\ new[j - (Len(rest) - k) + off] = ms[at[j]]
  <1> DEFINE N == Len(rest)
             d == N - k
  <1>1. N \in Nat /\ k \in Nat /\ k <= N /\ off \in {0, 1}
    BY DEF TrimmedTo, Beside
  <1>2. Len(new) = off + k
    BY DEF TrimmedTo
  <1>3. \A i \in 1 .. k : new[off + i] = rest[d + i]
    BY DEF TrimmedTo
  <1>4. \A j \in 1 .. N : rest[j] = ms[at[j]]
    BY DEF TrimmedTo, Beside
  <1>5. off = 1 => s # 0 /\ new[1] = ms[s]
    BY DEF TrimmedTo
  <1> HIDE DEF N
  <1>6. ASSUME NEW j \in d + 1 .. N
        PROVE  j - d + off \in 1 .. off + k /\ new[j - d + off] = ms[at[j]]
    <2>1. j \in 1 .. N /\ j - d \in 1 .. k /\ d + (j - d) = j /\ off + (j - d) = j - d + off
      BY <1>1
    <2>2. j - d + off \in 1 .. off + k
      BY <1>1, <2>1
    <2> QED
      BY <1>3, <1>4, <2>1, <2>2
  <1>7. ASSUME NEW i \in 1 .. off + k
        PROVE  \/ i = 1 /\ off = 1 /\ new[i] = ms[s]
               \/ \E j \in d + 1 .. N : i = j - d + off /\ new[i] = ms[at[j]]
    <2>1. CASE i = 1 /\ off = 1
      BY <1>5, <2>1
    <2>2. CASE ~(i = 1 /\ off = 1)
      <3> DEFINE j == i - off + d
      <3>1. j \in d + 1 .. N /\ i = j - d + off
        BY <1>1, <2>2
      <3> QED
        BY <1>6, <3>1
    <2> QED
      BY <2>1, <2>2
  <1> QED
    BY <1>1, <1>2, <1>6, <1>7 DEF N

\* The trim drops old turns only.
LEMMA TrimmedTurns ==
  ASSUME request \in Requests, NEW new, NEW ms, NEW hints, Whole(ms, hints),
         NEW s, NEW rest, NEW at, NEW k, NEW off,
         TrimmedTo(new, ms, s, rest, at, k, off)
  PROVE  Turns(new)
  <1> DEFINE N == Len(rest)
             d == N - k
  <1>1. ms \in Seq(Message) /\ Turns(ms)
    BY WholeTurns DEF Whole
  <1>2. /\ N \in Nat /\ k \in Nat /\ k <= N /\ off \in {0, 1}
        /\ \A i \in 1 .. Len(new) :
             \/ i = 1 /\ off = 1 /\ new[i] = ms[s]
             \/ \E j \in d + 1 .. N : i = j - d + off /\ new[i] = ms[at[j]]
        /\ \A j \in d + 1 .. N : /\ j - d + off \in 1 .. Len(new)
                                 /\ new[j - d + off] = ms[at[j]]
    <2>1. ms \in Seq(Message) /\ TrimmedTo(new, ms, s, rest, at, k, off)
      BY <1>1
    <2>2. N \in Nat /\ k \in Nat /\ k <= N /\ off \in {0, 1}
      BY ONLY <2>1, TrimmedMessage
    <2>3. \A i \in 1 .. Len(new) :
            \/ i = 1 /\ off = 1 /\ new[i] = ms[s]
            \/ \E j \in d + 1 .. N : i = j - d + off /\ new[i] = ms[at[j]]
      BY ONLY <2>1, TrimmedMessage
    <2>4. \A j \in d + 1 .. N : /\ j - d + off \in 1 .. Len(new)
                                /\ new[j - d + off] = ms[at[j]]
      BY ONLY <2>1, TrimmedMessage
    <2> QED
      BY ONLY <2>2, <2>3, <2>4
  <1>3. off = 1 => s # 0 /\ ms[s].role = "system"
    <2>1. s = SelectInSeq(ms, IsSystem) /\ off = IF s = 0 THEN 0 ELSE 1
      BY DEF TrimmedTo
    <2> QED
      BY <1>1, <2>1, SystemFirst
  <1>4. /\ at \in [1 .. N -> 1 .. Len(ms)]
        /\ \A i, j \in 1 .. N : i < j <=> at[i] < at[j]
        /\ \A p \in 1 .. Len(ms) : p # s => \E i \in 1 .. N : at[i] = p
    BY DEF TrimmedTo, Beside
  <1>5. Len(ms) \in Nat
    BY <1>1
  <1> HIDE DEF N
  <1>6. ASSUME NEW i \in 1 .. Len(new), new[i].role # "system"
        PROVE  \E j \in d + 1 .. N : /\ i = j - d + off /\ new[i] = ms[at[j]]
                                     /\ j \in 1 .. N /\ at[j] \in 1 .. Len(ms)
    <2>1. PICK j \in d + 1 .. N : i = j - d + off /\ new[i] = ms[at[j]]
      BY <1>2, <1>3, <1>6
    <2>2. j \in 1 .. N
      BY <1>2
    <2> QED
      BY <1>4, <2>1, <2>2
  <1>7. ASSUME NEW i \in 1 .. Len(new), new[i].role # "system"
        PROVE  new[i].id \in DOMAIN request.messages /\ new[i].role = SentRole(new[i].id)
    BY <1>1, <1>6, <1>7 DEF Turns
  <1>8. ASSUME NEW i \in 1 .. Len(new), NEW l \in 1 .. Len(new), i < l,
               new[i].role # "system", new[l].role # "system"
        PROVE  new[i].id < new[l].id
    <2>1. PICK j \in d + 1 .. N : /\ i = j - d + off /\ new[i] = ms[at[j]]
                                  /\ j \in 1 .. N /\ at[j] \in 1 .. Len(ms)
      BY <1>6, <1>8
    <2>2. PICK h \in d + 1 .. N : /\ l = h - d + off /\ new[l] = ms[at[h]]
                                  /\ h \in 1 .. N /\ at[h] \in 1 .. Len(ms)
      BY <1>6, <1>8
    <2>3. j < h
      BY <1>2, <1>8, <2>1, <2>2, SMTT(40)
    <2>4. at[j] < at[h]
      BY <1>4, <2>1, <2>2, <2>3
    <2> QED
      BY <1>1, <1>8, <2>1, <2>2, <2>4 DEF Turns
  <1>9. ASSUME NEW i \in 1 .. Len(new), NEW t \in SentTurns, new[i].role # "system", new[i].id < t
        PROVE  \E l \in 1 .. Len(new) : new[l].role # "system" /\ new[l].id = t
    <2>1. PICK j \in d + 1 .. N : /\ i = j - d + off /\ new[i] = ms[at[j]]
                                  /\ j \in 1 .. N /\ at[j] \in 1 .. Len(ms)
      BY <1>6, <1>9
    <2>2. PICK p \in 1 .. Len(ms) : ms[p].role # "system" /\ ms[p].id = t
      BY <1>1, <1>9, <2>1 DEF Turns
    <2>3. ms[at[j]].id < ms[p].id
      BY <1>9, <2>1, <2>2
    <2>4. at[j] < p
      <3>1. \A q \in 1 .. Len(ms) : q < p => ms[q].id < ms[p].id
        BY <2>2 DEF Whole
      <3>2. \A q \in 1 .. Len(ms) : ms[q].id \in Nat
        <4>1. \A q \in 1 .. Len(ms) : ms[q] \in Message
          BY <1>1
        <4>2. \A m \in Message : m.id \in Nat
          BY DEF Message
        <4> QED
          BY <4>1, <4>2
      <3>3. \A q \in 1 .. Len(ms) : p < q => ms[p].id < ms[q].id
        BY <2>2 DEF Whole
      <3>4. ~(p < at[j]) /\ p # at[j]
        BY <2>1, <2>2, <2>3, <3>2, <3>3
      <3> QED
        BY <1>5, <2>1, <3>4
    <2>5. p # s
      BY <1>3, <2>2 DEF TrimmedTo
    <2>6. PICK h \in 1 .. N : at[h] = p
      BY <1>4, <2>5
    <2>7. j < h
      BY <1>4, <2>1, <2>4, <2>6
    <2>8. h \in d + 1 .. N
      BY <1>2, <2>1, <2>6, <2>7
    <2>9. h - d + off \in 1 .. Len(new) /\ new[h - d + off] = ms[p]
      BY <1>2, <2>6, <2>8, SMTT(40)
    <2> QED
      BY <2>2, <2>9
  <1> QED
    BY <1>7, <1>8, <1>9 DEF Turns

\* It keeps the system message and the longest run beside it that fits.
LEMMA TrimmedFits ==
  ASSUME request \in Requests, request' = request, NEW ms, Whole(ms, Asked),
         NEW s, NEW rest, NEW at, NEW k, NEW off,
         TrimmedTo(messages', ms, s, rest, at, k, off)
  PROVE  TrimKeepsLongestFit'
  <1> DEFINE N == Len(rest)
             d == N - k
             M == Len(ms)
             new == messages'
             D == DOMAIN request.messages
             SystemIds == {0} \cup {i \in D : /\ SentRole(i) = "system"
                                              /\ \A j \in 1 .. i - 1 : SentRole(j) # "system"}
             kept == {new[i].id : i \in DOMAIN new} \ SystemIds
             older == {i \in D \ (kept \cup SystemIds) : SentRole(i) \in Roles}
  <1>1. ms \in Seq(Message) /\ M \in Nat
    BY DEF Whole
  <1>2. /\ N \in Nat /\ k \in Nat /\ k <= N /\ off \in {0, 1}
        /\ \A i \in 1 .. Len(new) :
             \/ i = 1 /\ off = 1 /\ new[i] = ms[s]
             \/ \E j \in d + 1 .. N : i = j - d + off /\ new[i] = ms[at[j]]
        /\ \A j \in d + 1 .. N : /\ j - d + off \in 1 .. Len(new)
                                 /\ new[j - d + off] = ms[at[j]]
    <2> HIDE DEF new
    <2>1. ms \in Seq(Message) /\ TrimmedTo(new, ms, s, rest, at, k, off)
      BY <1>1 DEF new
    <2>2. N \in Nat /\ k \in Nat /\ k <= N /\ off \in {0, 1}
      BY ONLY <2>1, TrimmedMessage
    <2>3. \A i \in 1 .. Len(new) :
            \/ i = 1 /\ off = 1 /\ new[i] = ms[s]
            \/ \E j \in d + 1 .. N : i = j - d + off /\ new[i] = ms[at[j]]
      BY ONLY <2>1, TrimmedMessage
    <2>4. \A j \in d + 1 .. N : /\ j - d + off \in 1 .. Len(new)
                                /\ new[j - d + off] = ms[at[j]]
      BY ONLY <2>1, TrimmedMessage
    <2> QED
      BY ONLY <2>2, <2>3, <2>4
  <1>3. \/ s = 0 /\ off = 0 /\ \A i \in 1 .. M : ms[i].role # "system"
        \/ /\ s \in 1 .. M /\ off = 1 /\ ms[s].role = "system" /\ new[1] = ms[s]
           /\ \A i \in 1 .. s - 1 : ms[i].role # "system"
    <2>1. s = SelectInSeq(ms, IsSystem) /\ off = (IF s = 0 THEN 0 ELSE 1)
          /\ (s # 0 => new[1] = ms[s])
      BY DEF TrimmedTo
    <2> HIDE DEF new
    <2> QED
      BY <1>1, <2>1, SystemFirst
  <1>4. /\ at \in [1 .. N -> 1 .. M]
        /\ \A i \in 1 .. N : rest[i] = ms[at[i]] /\ at[i] # s
        /\ \A i, j \in 1 .. N : i < j <=> at[i] < at[j]
        /\ \A p \in 1 .. M : p # s => \E i \in 1 .. N : at[i] = p
    BY DEF TrimmedTo, Beside
  <1>5. /\ new \in Seq(Message) /\ (N > 0 => k > 0)
        /\ k <= 1 \/ TotalTokens(new) <= Budget
        /\ k < N => TotalTokens(new) + EstimateTokens(rest[N - k]) > Budget
    BY DEF TrimmedTo
  <1>6. \A i, j \in 1 .. M : i < j => ms[i].id < ms[j].id
    BY DEF Whole
  <1>7. \A i \in 1 .. M : ms[i].id # 0 => ms[i].id \in D /\ ms[i].role = SentRole(ms[i].id)
    BY DEF Whole
  <1>8. \A t \in D : SentRole(t) \in Roles => \E i \in 1 .. M : ms[i].id = t
    BY DEF Whole
  <1>9. \A i \in 1 .. M : ms[i].id = 0 => \A t \in D : SentRole(t) # "system"
    BY DEF Whole
  <1>10. \A i \in 1 .. M : ms[i].hints = {} => /\ ms[i].id # 0
                                               /\ ms[i].len = request.messages[ms[i].id].len
    BY DEF Whole
  <1>11. \A i \in 1 .. M : ms[i].hints # {} => /\ ms[i].hints = Asked /\ ms[i].role = "system"
                                               /\ \A j \in 1 .. i - 1 : ms[j].role # "system"
    BY DEF Whole
  <1>12. Asked # {} => \E i \in 1 .. M : ms[i].hints = Asked
    BY DEF Whole
  <1>13. \A i \in 1 .. M : ms[i].id \in Nat
    <2>1. \A i \in 1 .. M : ms[i] \in Message
      BY <1>1
    <2>2. \A m \in Message : m.id \in Nat
      BY DEF Message
    <2> QED
      BY <2>1, <2>2
  <1>14. D = 1 .. Len(request.messages) /\ Len(request.messages) \in Nat
    BY RequestIs
  <1>15. DOMAIN new = 1 .. Len(new) /\ Len(new) \in Nat
    BY <1>5
  <1> HIDE DEF N, M, new, D
  \* The first system message is the one at s, and the only one that counts.
  <1>16. ASSUME NEW p \in 1 .. M, ms[p].role = "system" PROVE s \in 1 .. M /\ s <= p
    <2>1. s \in 1 .. M /\ \A i \in 1 .. s - 1 : ms[i].role # "system"
      BY <1>3, <1>16
    <2>2. ~(p < s)
      <3>1. p < s => p \in 1 .. s - 1
        BY <1>1, <2>1
      <3> QED
        BY <1>16, <2>1, <3>1
    <2> QED
      BY <1>1, <2>1, <2>2
  <1>17. ASSUME s # 0 PROVE ms[s].id \in SystemIds
    <2>1. s \in 1 .. M /\ ms[s].role = "system"
      BY <1>3, <1>17
    <2>2. ASSUME ms[s].id # 0, NEW j \in 1 .. ms[s].id - 1 PROVE SentRole(j) # "system"
      <3> SUFFICES ASSUME SentRole(j) = "system" PROVE FALSE
        OBVIOUS
      <3>1. ms[s].id \in D /\ j \in D
        <4>1. ms[s].id \in D
          BY <1>7, <2>1, <2>2
        <4> QED
          BY <1>14, <4>1
      <3>2. PICK p \in 1 .. M : ms[p].id = j
        BY <1>8, <3>1 DEF Roles
      <3>3. j # 0 /\ j < ms[s].id
        BY <1>13, <2>1
      <3>4. ms[p].role = "system"
        BY <1>7, <3>2, <3>3
      <3>5. s = p \/ s < p
        BY <1>1, <1>16, <3>4
      <3>6. ms[s].id <= ms[p].id
        BY <1>6, <1>13, <2>1, <3>5
      <3> QED
        BY <1>13, <2>1, <3>2, <3>3, <3>6
    <2>3. ms[s].id # 0 => ms[s].id \in D /\ SentRole(ms[s].id) = "system"
      BY <1>7, <2>1
    <2> QED
      BY <2>2, <2>3
  <1>18. ASSUME NEW p \in 1 .. M, p # s PROVE ms[p].id \in D /\ ms[p].id \notin SystemIds
    <2>1. ms[p].hints = {}
      <3> SUFFICES ASSUME ms[p].hints # {} PROVE FALSE
        OBVIOUS
      <3>1. ms[p].role = "system" /\ \A j \in 1 .. p - 1 : ms[j].role # "system"
        BY <1>11
      <3>2. s \in 1 .. p - 1
        <4>1. s \in 1 .. M /\ s <= p
          BY <1>16, <3>1
        <4> QED
          BY <1>1, <1>18, <4>1
      <3> QED
        BY <1>3, <3>1, <3>2
    <2>2. ms[p].id # 0 /\ ms[p].id \in D /\ ms[p].role = SentRole(ms[p].id)
      BY <1>7, <1>10, <2>1
    <2>3. ASSUME SentRole(ms[p].id) = "system",
                 \A j \in 1 .. ms[p].id - 1 : SentRole(j) # "system"
          PROVE  FALSE
      <3>1. s \in 1 .. M /\ s < p
        <4>1. s \in 1 .. M /\ s <= p
          BY <1>16, <2>2, <2>3
        <4> QED
          BY <1>1, <1>18, <4>1
      <3>2. ms[s].id < ms[p].id /\ ms[s].role = "system"
        BY <1>1, <1>3, <1>6, <3>1
      <3>3. ms[s].id # 0
        BY <1>9, <2>2, <2>3, <3>1
      <3>4. ms[s].id \in D /\ SentRole(ms[s].id) = "system"
        BY <1>7, <3>1, <3>2, <3>3
      <3>5. ms[s].id \in 1 .. ms[p].id - 1
        BY <1>13, <3>1, <3>2, <3>3
      <3> QED
        BY <2>3, <3>4, <3>5
    <2> QED
      BY <2>2, <2>3
  <1>19. ASSUME NEW t \in D, SentRole(t) \in Roles, t \notin SystemIds
         PROVE  \E j \in 1 .. N : at[j] \in 1 .. M /\ at[j] # s /\ ms[at[j]].id = t
    <2>1. PICK p \in 1 .. M : ms[p].id = t
      BY <1>8, <1>19
    <2>2. p # s
      <3>1. p = s => s # 0
        BY <1>1
      <3> QED
        BY <1>17, <1>19, <2>1, <3>1
    <2>3. PICK j \in 1 .. N : at[j] = p
      BY <1>4, <2>2
    <2> QED
      BY <2>1, <2>2, <2>3
  <1> HIDE DEF SystemIds
  \* What is left of them is the last k beside it.
  <1>20. \A j \in d + 1 .. N : j \in 1 .. N
    BY <1>2
  <1>21. \A j \in 1 .. N : at[j] \in 1 .. M /\ at[j] # s
    BY <1>4
  <1>22. kept = {ms[at[j]].id : j \in d + 1 .. N}
    <2>1. ASSUME NEW i \in 1 .. Len(new), new[i].id \notin SystemIds
          PROVE  \E j \in d + 1 .. N : new[i].id = ms[at[j]].id
      <3>1. CASE i = 1 /\ off = 1 /\ new[i] = ms[s]
        <4>1. s # 0
          BY <1>3, <3>1
        <4> QED
          BY <1>17, <2>1, <3>1, <4>1
      <3>2. CASE \E j \in d + 1 .. N : i = j - d + off /\ new[i] = ms[at[j]]
        BY <3>2
      <3> QED
        BY <1>2, <3>1, <3>2
    <2>2. ASSUME NEW j \in d + 1 .. N
          PROVE  /\ ms[at[j]].id \notin SystemIds
                 /\ \E i \in 1 .. Len(new) : new[i].id = ms[at[j]].id
      <3>1. at[j] \in 1 .. M /\ at[j] # s
        BY <1>20, <1>21
      <3>2. j - d + off \in 1 .. Len(new) /\ new[j - d + off] = ms[at[j]]
        BY <1>2
      <3> QED
        BY <1>18, <3>1, <3>2
    <2> HIDE DEF d
    <2> QED
      BY <1>15, <2>1, <2>2
  <1> HIDE DEF kept
  <1>23. ASSUME NEW o \in older
         PROVE  \E j \in 1 .. N - k : at[j] \in 1 .. M /\ at[j] # s /\ ms[at[j]].id = o
    <2>1. o \in D /\ SentRole(o) \in Roles /\ o \notin SystemIds /\ o \notin kept
      BY <1>23
    <2>2. PICK j \in 1 .. N : at[j] \in 1 .. M /\ at[j] # s /\ ms[at[j]].id = o
      BY <1>19, <2>1
    <2>3. j \notin d + 1 .. N
      BY <1>22, <2>1, <2>2
    <2>4. j \in 1 .. N - k
      BY <1>2, <2>3
    <2> QED
      BY <2>2, <2>4
  <1>24. ASSUME NEW t \in SystemIds \ {0} PROVE new[1].id = t
    <2>1. t \in D /\ SentRole(t) = "system" /\ \A j \in 1 .. t - 1 : SentRole(j) # "system"
      BY DEF SystemIds
    <2>2. PICK p \in 1 .. M : ms[p].id = t
      BY <1>8, <2>1 DEF Roles
    <2>3. t # 0
      BY <1>14, <2>1
    <2>4. p = s
      <3> SUFFICES ASSUME p # s PROVE FALSE
        OBVIOUS
      <3> QED
        BY <1>18, <2>2
    <2>5. off = 1 /\ new[1] = ms[s]
      BY <1>1, <1>3, <2>4
    <2> QED
      BY <2>2, <2>4, <2>5
  <1>25. ASSUME Asked # {} PROVE new[1].id \in SystemIds /\ new[1].hints = Asked
    <2>1. PICK p \in 1 .. M : ms[p].hints = Asked
      BY <1>12, <1>25
    <2>2. ms[p].role = "system" /\ \A j \in 1 .. p - 1 : ms[j].role # "system"
      BY <1>11, <1>25, <2>1
    <2>3. s \in 1 .. M /\ s <= p /\ ms[s].role = "system"
      BY <1>1, <1>3, <1>16, <2>2
    <2>4. s = p
      <3>1. s < p => s \in 1 .. p - 1
        BY <1>1, <2>3
      <3> QED
        BY <1>1, <2>2, <2>3, <3>1
    <2>5. s # 0 /\ new[1] = ms[s]
      BY <1>1, <1>3, <2>3
    <2> QED
      BY <1>17, <2>1, <2>4, <2>5
  <1>26. kept = {} => older = {}
    <2>1. k > 0 => N \in d + 1 .. N
      BY <1>2
    <2>2. kept = {} => N = 0
      <3>1. k > 0 => ms[at[N]].id \in kept
        BY <1>22, <2>1
      <3> QED
        BY <1>2, <1>5, <3>1
    <2>3. N = 0 => 1 .. N - k = {}
      BY <1>2
    <2> QED
      BY <1>23, <2>2, <2>3
  <1>27. (\A i, j \in kept : i = j) \/ TotalTokens(new) <= Budget
    <2>1. CASE k <= 1
      <3>1. \A i, j \in d + 1 .. N : i = j
        BY <1>2, <2>1
      <3> QED
        BY <1>22, <3>1
    <2> QED
      BY <1>5, <2>1
  <1>28. ASSUME NEW o \in older, NEW l \in kept PROVE o < l
    <2>1. PICK i \in 1 .. N - k : at[i] \in 1 .. M /\ at[i] # s /\ ms[at[i]].id = o
      BY <1>23
    <2>2. PICK j \in d + 1 .. N : ms[at[j]].id = l
      BY <1>22
    <2>3. i \in 1 .. N /\ j \in 1 .. N /\ i < j
      BY <1>2
    <2>4. at[i] < at[j] /\ at[j] \in 1 .. M
      BY <1>4, <1>21, <2>3
    <2> QED
      BY <1>6, <2>1, <2>2, <2>4
  <1>29. ASSUME older # {}
         PROVE  \E o \in older :
                  /\ \A p \in older : p <= o
                  /\ TotalTokens(new) + EstimateTokens(request.messages[o]) > Budget
    <2> DEFINE o == ms[at[N - k]].id
    <2>1. N - k \in 1 .. N /\ N - k \in 1 .. N - k /\ k < N
      <3>1. PICK p \in older : TRUE
        BY <1>29
      <3>2. \E j \in 1 .. N - k : TRUE
        BY <1>23, <3>1
      <3> QED
        BY <1>2, <3>2
    <2>2. at[N - k] \in 1 .. M /\ at[N - k] # s
      BY <1>21, <2>1
    <2>3. o \in D /\ o \notin SystemIds
      BY <1>18, <2>2
    <2>4. ms[at[N - k]].hints = {}
      <3> SUFFICES ASSUME ms[at[N - k]].hints # {} PROVE FALSE
        OBVIOUS
      <3>1. /\ ms[at[N - k]].role = "system"
            /\ \A j \in 1 .. at[N - k] - 1 : ms[j].role # "system"
        BY <1>11, <2>2
      <3>2. s \in 1 .. M /\ s <= at[N - k]
        BY <1>16, <2>2, <3>1
      <3>3. s \in 1 .. at[N - k] - 1
        BY <1>1, <2>2, <3>2
      <3> QED
        BY <1>3, <3>1, <3>3
    <2>5. o # 0 /\ ms[at[N - k]].role = SentRole(o)
          /\ ms[at[N - k]].len = request.messages[o].len
      BY <1>7, <1>10, <2>2, <2>4
    <2>6. SentRole(o) \in Roles
      <3>1. ms[at[N - k]] \in Message
        BY <1>1, <2>2 DEF M
      <3>2. ms[at[N - k]].role \in Roles
        BY <3>1 DEF Message
      <3> QED
        BY <2>5, <3>2
    <2>7. o \notin kept
      <3> SUFFICES ASSUME o \in kept PROVE FALSE
        OBVIOUS
      <3>1. PICK j \in d + 1 .. N : ms[at[j]].id = o
        BY <1>22
      <3>2. N - k < j /\ j \in 1 .. N
        BY <1>2
      <3>3. at[N - k] < at[j] /\ at[j] \in 1 .. M
        BY <1>4, <1>21, <2>1, <3>2
      <3>4. o < ms[at[j]].id
        BY <1>6, <2>2, <3>3
      <3> QED
        BY <1>13, <2>2, <3>1, <3>4
    <2>8. o \in older
      BY <2>3, <2>6, <2>7
    <2>9. ASSUME NEW p \in older PROVE p <= o
      <3>1. PICK j \in 1 .. N - k : at[j] \in 1 .. M /\ at[j] # s /\ ms[at[j]].id = p
        BY <1>23
      <3>2. j \in 1 .. N /\ (j = N - k \/ j < N - k)
        BY <1>2, <2>1
      <3>3. j < N - k => at[j] < at[N - k]
        BY <1>4, <2>1, <3>2
      <3>4. j < N - k => p < o
        BY <1>6, <2>2, <3>1, <3>3
      <3> QED
        BY <1>13, <2>2, <3>1, <3>2, <3>4
    <2>10. TotalTokens(new) + EstimateTokens(request.messages[o]) > Budget
      <3>1. rest[N - k] = ms[at[N - k]]
        BY <1>4, <2>1
      <3>2. EstimateTokens(rest[N - k]) = EstimateTokens(request.messages[o])
        BY <2>5, <3>1 DEF EstimateTokens
      <3> QED
        BY <1>5, <2>1, <3>2
    <2> HIDE DEF o
    <2> QED
      BY <2>8, <2>9, <2>10
  <1> QED
    <2> USE DEF N, M, new, D, SystemIds, kept
    <2> QED
      BY <1>24, <1>25, <1>26, <1>27, <1>28, <1>29 DEF TrimKeepsLongestFit, SentRole, Asked

-----------------------------------------------------------------------------
(* The handler's steps *)

\* The request does not change, and neither does what is said of it.
LEMMA SameRequest ==
  ASSUME request' = request
  PROVE  /\ Turns(messages') => Turns(messages)'
         /\ Asked' = Asked
  <1>1. \A i : SentRole(i)' = SentRole(i)
    BY DEF SentRole
  <1>2. SentTurns' = SentTurns
    BY <1>1 DEF SentTurns, SentRole
  <1>3. Asked' = Asked
    BY DEF Asked
  <1>4. ASSUME Turns(messages') PROVE Turns(messages)'
    BY <1>2, <1>4 DEF Turns, SentRole
  <1> QED
    BY <1>3, <1>4

\* A conversation that is whole stays whole as long as the request is the same.
LEMMA SameRequestWhole ==
  ASSUME request' = request, NEW hints, Whole(messages', hints)
  PROVE  Whole(messages, hints)'
  BY DEF Whole, SentRole

\* The system message has an identity and instructions.
LEMMA SystemTyped ==
  ASSUME NEW ms \in Seq(Message)
  PROVE  SystemOf(ms) \in [id : Nat, hints : SUBSET Hints]
  <1> DEFINE s == SelectInSeq(ms, IsSystem)
  <1>1. s = 0 \/ s \in 1 .. Len(ms)
    BY SystemFirst
  <1>2. SystemOf(ms) = IF s = 0 THEN DefaultSystem ELSE [id |-> ms[s].id, hints |-> ms[s].hints]
    BY DEF SystemOf
  <1> HIDE DEF s
  <1>3. CASE s = 0
    BY <1>2, <1>3 DEF DefaultSystem
  <1>4. CASE s # 0
    <2>1. ms[s] \in Message
      BY <1>1, <1>4
    <2>2. ms[s].id \in Nat /\ ms[s].hints \in SUBSET Hints
      BY <2>1 DEF Message
    <2> QED
      BY <1>2, <1>4, <2>2
  <1> QED
    BY <1>3, <1>4

\* A step that leaves the conversation alone, and builds no prompt.
LEMMA ConversationStays ==
  ASSUME TranscriptInv, UNCHANGED <<request, messages, trimmed, system, prompt>>,
         phase # "received", phase' \in {"checked", "done"},
         outcome' \in {"pending", "tools_need_blocking", "no_user", "no_template"},
         phase' # "done" => outcome' = "pending", outcome # "prompted"
  PROVE  TranscriptInv'
  <1>1. Turns(messages)'
    BY SameRequest DEF TranscriptInv
  <1>2. TrimKeepsLongestFit'
    BY DEF TrimKeepsLongestFit
  <1> QED
    BY <1>1, <1>2 DEF TranscriptInv

\* The filter of roles leaves a conversation that is whole.
LEMMA ConvertRolesStep ==
  ASSUME TranscriptInv, ConvertRoles
  PROVE  TranscriptInv'
  <1>1. /\ phase = "received" /\ phase' = "converted"
        /\ UNCHANGED <<request, trimmed, system, prompt, outcome>>
    BY DEF ConvertRoles
  <1>2. Whole(messages', {}) /\ request \in Requests
    BY ConvertedIsWhole DEF TranscriptInv
  <1>3. Whole(messages, {})'
    BY <1>1, <1>2, SameRequestWhole
  <1>4. Turns(messages')
    BY <1>2, WholeTurns
  <1>5. Turns(messages)'
    BY <1>1, <1>4, SameRequest
  <1>6. messages' \in Seq(Message)
    BY <1>2 DEF Whole
  <1>7. TrimKeepsLongestFit'
    BY <1>1 DEF TrimKeepsLongestFit
  <1> QED
    BY <1>1, <1>3, <1>5, <1>6, <1>7 DEF TranscriptInv

\* So do the instructions, and they arrive.
LEMMA AugmentStep ==
  ASSUME TranscriptInv, Augment
  PROVE  TranscriptInv'
  <1> DEFINE tooled == IF request.tools THEN WithHint(messages, "tools") ELSE messages
             given == {h \in Hints : h = "tools" /\ request.tools}
  <1>1. /\ phase = "converted" /\ phase' = "augmented"
        /\ UNCHANGED <<request, trimmed, system, prompt, outcome>>
        /\ messages' = IF request.json THEN WithHint(tooled, "json") ELSE tooled
    BY DEF Augment
  <1>2. Whole(messages, {}) /\ request \in Requests
    BY <1>1 DEF TranscriptInv
  <1>3. Whole(tooled, given)
    <2>1. CASE request.tools
      <3>1. Whole(WithHint(messages, "tools"), {} \cup {"tools"})
        BY <1>2, HintedIsWhole DEF Hints
      <3>2. given = {} \cup {"tools"} /\ tooled = WithHint(messages, "tools")
        BY <2>1 DEF Hints
      <3> QED
        BY <3>1, <3>2
    <2>2. CASE ~request.tools
      <3>1. given = {} /\ tooled = messages
        BY <2>2
      <3> QED
        BY <1>2, <3>1
    <2> QED
      BY <2>1, <2>2
  <1>4. given \in SUBSET Hints /\ "json" \in Hints
    BY DEF Hints
  <1>5. Whole(messages', Asked)
    <2> HIDE DEF tooled
    <2>1. CASE request.json
      <3>1. Whole(WithHint(tooled, "json"), given \cup {"json"})
        <4> HIDE DEF given
        <4> QED
          BY <1>2, <1>3, <1>4, HintedIsWhole
      <3>2. Asked = given \cup {"json"}
        BY <2>1 DEF Asked, Hints
      <3> QED
        BY <1>1, <2>1, <3>1, <3>2
    <2>2. CASE ~request.json
      <3>1. Asked = given
        BY <2>2 DEF Asked, Hints
      <3> QED
        BY <1>1, <1>3, <2>2, <3>1
    <2> QED
      BY <2>1, <2>2
  <1>6. Whole(messages, Asked)'
    BY <1>1, <1>5, SameRequest, SameRequestWhole
  <1>7. Turns(messages')
    BY <1>2, <1>5, WholeTurns
  <1>8. Turns(messages)'
    BY <1>1, <1>7, SameRequest
  <1>9. messages' \in Seq(Message)
    BY <1>5 DEF Whole
  <1>10. TrimKeepsLongestFit'
    BY <1>1 DEF TrimKeepsLongestFit
  <1> QED
    BY <1>1, <1>6, <1>8, <1>9, <1>10 DEF TranscriptInv

\* The trim leaves the conversation's turns in order, as many as fit.
LEMMA TrimStep ==
  ASSUME TranscriptInv, Trim
  PROVE  TranscriptInv'
  <1>1. /\ phase = "augmented" /\ phase' = "trimmed" /\ trimmed' \in BOOLEAN
        /\ UNCHANGED <<request, system, prompt, outcome>>
        /\ messages' = IF trimmed' THEN TrimForContext(messages) ELSE messages
    BY DEF Trim
  <1>2. Whole(messages, Asked) /\ request \in Requests /\ messages \in Seq(Message)
    BY <1>1 DEF TranscriptInv
  <1>3. messages' \in Seq(Message) /\ Turns(messages') /\ TrimKeepsLongestFit'
    <2>1. CASE trimmed'
      <3>1. messages' = TrimForContext(messages)
        BY <1>1, <2>1
      <3>2. PICK s, rest, at, k, off : TrimmedTo(messages', messages, s, rest, at, k, off)
        BY <1>2, <3>1, TrimForContextIs
      <3>3. messages' \in Seq(Message)
        BY <3>2 DEF TrimmedTo
      <3>4. Turns(messages')
        BY <1>2, <3>2, TrimmedTurns
      <3>5. TrimKeepsLongestFit'
        BY <1>1, <1>2, <3>2, TrimmedFits
      <3> QED
        BY <3>3, <3>4, <3>5
    <2>2. CASE ~trimmed'
      <3>1. messages' = messages /\ TrimKeepsLongestFit'
        BY <1>1, <2>2 DEF TrimKeepsLongestFit
      <3> QED
        BY <1>2, <3>1, WholeTurns
    <2> QED
      BY <2>1, <2>2
  <1>4. Turns(messages)'
    BY <1>1, <1>3, SameRequest
  <1> QED
    BY <1>1, <1>3, <1>4 DEF TranscriptInv

\* wrap_chat leaves the conversation as it is.
LEMMA BuildPromptStep ==
  ASSUME TranscriptInv, BuildPrompt
  PROVE  TranscriptInv'
  <1>1. phase = "checked" /\ phase' = "done" /\ UNCHANGED <<request, messages, trimmed>>
    BY DEF BuildPrompt, Answer
  <1>2. Turns(messages)'
    BY <1>1, SameRequest DEF TranscriptInv
  <1>3. TrimKeepsLongestFit'
    BY <1>1 DEF TrimKeepsLongestFit
  <1>4. CASE request.template = "none"
    <2>1. outcome' = "no_template" /\ UNCHANGED <<system, prompt>>
      BY <1>4 DEF BuildPrompt, Answer
    <2> QED
      BY <1>1, <1>2, <1>3, <2>1 DEF TranscriptInv
  <1>5. CASE request.template # "none"
    <2>1. /\ system' = SystemOf(messages) /\ prompt' = WrapChat(messages)
          /\ outcome' = IF prompt' = <<>> THEN "no_user" ELSE "prompted"
      BY <1>5 DEF BuildPrompt, Answer
    <2>2. system' \in [id : Nat, hints : SUBSET Hints]
      BY <2>1, SystemTyped DEF TranscriptInv
    <2>3. WrapChat(messages)' = WrapChat(messages) /\ SystemOf(messages)' = SystemOf(messages)
      BY <1>1 DEF WrapChat
    <2> QED
      BY <1>1, <1>2, <1>3, <2>1, <2>2, <2>3 DEF TranscriptInv
  <1> QED
    BY <1>4, <1>5

\* What the trim keeps depends on what was sent and what is left.
LEMMA SameTrim ==
  ASSUME UNCHANGED <<request, phase, messages, trimmed>>, TrimKeepsLongestFit
  PROVE  TrimKeepsLongestFit'
  <1> DEFINE D == DOMAIN request.messages
             SystemIds == {0} \cup {i \in D : /\ SentRole(i) = "system"
                                              /\ \A j \in 1 .. i - 1 : SentRole(j) # "system"}
             kept == {messages[i].id : i \in DOMAIN messages} \ SystemIds
             older == {i \in D \ (kept \cup SystemIds) : SentRole(i) \in Roles}
  <1>1. SystemIds' = SystemIds
    BY DEF SentRole
  <1>2. kept' = kept
    <2> HIDE DEF SystemIds
    <2> QED
      BY <1>1
  <1>3. older' = older
    <2> HIDE DEF SystemIds, kept
    <2> QED
      BY <1>1, <1>2 DEF SentRole
  <1>4. Asked' = Asked
    BY SameRequest
  <1>5. TotalTokens(messages)' = TotalTokens(messages)
    OBVIOUS
  <1> DEFINE Leaves(S, K, O, A, T) ==
               /\ \A s \in S \ {0} : messages[1].id = s
               /\ A # {} => messages[1].id \in S /\ messages[1].hints = A
               /\ K = {} => O = {}
               /\ (\A k, l \in K : k = l) \/ T <= Budget
               /\ \A o \in O : \A k \in K : o < k
               /\ O = {} \/ \E o \in O :
                    /\ \A p \in O : p <= o
                    /\ T + EstimateTokens(request.messages[o]) > Budget
  <1>6. trimmed /\ phase = "trimmed" => Leaves(SystemIds, kept, older, Asked, TotalTokens(messages))
    BY DEF TrimKeepsLongestFit
  <1>7. (trimmed /\ phase = "trimmed")'
          => Leaves(SystemIds, kept, older, Asked, TotalTokens(messages))'
    <2> HIDE DEF SystemIds, kept, older
    <2> QED
      BY <1>1, <1>2, <1>3, <1>4, <1>5, <1>6
  <1> QED
    BY <1>7 DEF TrimKeepsLongestFit

\* Every step of a completion keeps what is known of the conversation.
LEMMA TranscriptStep ==
  ASSUME TranscriptInv, [CompletionNext]_completionVars
  PROVE  TranscriptInv'
  <1>1. CASE ConvertRoles
    BY <1>1, ConvertRolesStep
  <1>2. CASE RefuseStreamedTools
    <2>1. /\ UNCHANGED <<request, messages, trimmed, system, prompt>>
          /\ phase = "converted" /\ phase' = "done" /\ outcome' = "tools_need_blocking"
      BY <1>2 DEF RefuseStreamedTools, Answer
    <2> QED
      BY <2>1, ConversationStays DEF TranscriptInv
  <1>3. CASE Augment
    BY <1>3, AugmentStep
  <1>4. CASE Trim
    BY <1>4, TrimStep
  <1>5. CASE CheckUser
    <2>1. /\ UNCHANGED <<request, messages, trimmed, system, prompt>>
          /\ phase \in {"trimmed", "converted"}
          /\ \/ phase' = "checked" /\ outcome' = outcome
             \/ phase' = "done" /\ outcome' = "no_user"
      BY <1>5 DEF CheckUser, Answer
    <2>2. outcome = "pending"
      BY <2>1 DEF TranscriptInv
    <2>3. /\ phase # "received" /\ phase' \in {"checked", "done"}
          /\ outcome' \in {"pending", "tools_need_blocking", "no_user", "no_template"}
          /\ phase' # "done" => outcome' = "pending"
      BY <2>1, <2>2
    <2> QED
      BY <2>1, <2>2, <2>3, ConversationStays
  <1>6. CASE BuildPrompt
    BY <1>6, BuildPromptStep
  <1>7. CASE UNCHANGED vars
    <2>1. UNCHANGED <<request, phase, messages, trimmed, system, prompt, outcome>>
      BY <1>7 DEF vars
    <2>2. Turns(messages) => Turns(messages)'
      BY <2>1, SameRequest
    <2>3. \A hints : Whole(messages, hints) => Whole(messages, hints)'
      BY <2>1, SameRequestWhole
    <2>4. Asked' = Asked
      BY <2>1, SameRequest
    <2>5. WrapChat(messages)' = WrapChat(messages) /\ SystemOf(messages)' = SystemOf(messages)
      BY <2>1 DEF WrapChat
    <2>6. TrimKeepsLongestFit => TrimKeepsLongestFit'
      BY <2>1, SameTrim
    <2>7. phase = "converted" => Whole(messages, {})'
      BY <2>3 DEF TranscriptInv
    <2>8. phase = "augmented" => Whole(messages, Asked)'
      BY <2>3, <2>4 DEF TranscriptInv
    <2> QED
      BY <2>1, <2>2, <2>5, <2>6, <2>7, <2>8 DEF TranscriptInv
  <1> QED
    BY <1>1, <1>2, <1>3, <1>4, <1>5, <1>6, <1>7
       DEF CompletionNext, Prepare, Generate, QueryReturns, ParseReply, Respond, Finished,
           completionVars

\* Every behaviour keeps the conversation in order.
LEMMA TranscriptKept == CompletionSpec => []TranscriptInv
  <1>1. CompletionInit => TranscriptInv
    <2> SUFFICES ASSUME CompletionInit PROVE TranscriptInv
      OBVIOUS
    <2>1. /\ request \in Requests /\ phase = "received" /\ messages = <<>> /\ trimmed = FALSE
          /\ system = DefaultSystem /\ prompt = <<>> /\ outcome = "pending"
      BY DEF CompletionInit, Init
    <2>2. <<>> \in Seq(Message) /\ DefaultSystem \in [id : Nat, hints : SUBSET Hints]
      BY DEF DefaultSystem
    <2>3. TrimKeepsLongestFit
      BY <2>1 DEF TrimKeepsLongestFit
    <2> QED
      BY <2>1, <2>2, <2>3 DEF TranscriptInv
  <1>2. TranscriptInv /\ [CompletionNext]_completionVars => TranscriptInv'
    BY TranscriptStep
  <1> QED
    BY <1>1, <1>2, PTL DEF CompletionSpec

\* Whatever the conversation and the budget, the trim keeps the system message
\* and the longest run of recent messages that fits beside it.
THEOREM TrimKeepsWhatFits == CompletionSpec => []TrimKeepsLongestFit
  <1>1. TranscriptInv => TrimKeepsLongestFit
    BY DEF TranscriptInv
  <1> QED
    BY <1>1, TranscriptKept, PTL

-----------------------------------------------------------------------------
(* The prompt *)

\* The first user message, and the last one.
LEMMA UserFirst ==
  ASSUME NEW M, NEW ms \in Seq(M)
  PROVE  LET u == SelectInSeq(ms, IsUser) IN
         \/ u = 0 /\ \A i \in 1 .. Len(ms) : ms[i].role # "user"
         \/ /\ u \in 1 .. Len(ms) /\ ms[u].role = "user"
            /\ \A i \in 1 .. u - 1 : ms[i].role # "user"
  <1> DEFINE T == {i \in 1 .. Len(ms) : IsUser(ms[i])}
             u == SelectInSeq(ms, IsUser)
  <1>1. u = IF T # {} THEN Min(T) ELSE 0
    BY DEF SelectInSeq
  <1>2. T \in SUBSET Nat /\ Len(ms) \in Nat
    OBVIOUS
  <1>3. CASE T = {}
    BY <1>1, <1>3 DEF IsUser
  <1>4. CASE T # {}
    <2>1. u \in T /\ \A m \in T : u <= m
      <3> HIDE DEF T, u
      <3> QED
        BY <1>1, <1>2, <1>4, MinIs
    <2>2. ASSUME NEW i \in 1 .. u - 1 PROVE ms[i].role # "user"
      <3>1. u \in 1 .. Len(ms)
        BY <2>1
      <3>2. i \in 1 .. Len(ms) /\ ~(u <= i)
        BY <1>2, <3>1
      <3>3. i \notin T
        BY <2>1, <3>2
      <3> QED
        BY <3>2, <3>3 DEF IsUser
    <2> QED
      BY <2>1, <2>2 DEF IsUser
  <1> QED
    BY <1>3, <1>4

\* The last user message is the last one that is found.
LEMMA UserLast ==
  ASSUME NEW M, NEW ms \in Seq(M)
  PROVE  LET u == SelectLastInSeq(ms, IsUser) IN
         \/ u = 0 /\ \A i \in 1 .. Len(ms) : ms[i].role # "user"
         \/ /\ u \in 1 .. Len(ms) /\ ms[u].role = "user"
            /\ \A i \in u + 1 .. Len(ms) : ms[i].role # "user"
  <1> DEFINE T == {i \in 1 .. Len(ms) : IsUser(ms[i])}
             u == SelectLastInSeq(ms, IsUser)
  <1>1. u = IF T # {} THEN Max(T) ELSE 0
    BY DEF SelectLastInSeq
  <1>2. T \in SUBSET Nat /\ Len(ms) \in Nat /\ \A m \in T : m <= Len(ms)
    OBVIOUS
  <1>3. CASE T = {}
    BY <1>1, <1>3 DEF IsUser
  <1>4. CASE T # {}
    <2>1. u \in T /\ \A m \in T : m <= u
      <3> HIDE DEF T, u
      <3> QED
        BY <1>1, <1>2, <1>4, MaxIs
    <2>2. ASSUME NEW i \in u + 1 .. Len(ms) PROVE ms[i].role # "user"
      <3>1. u \in 1 .. Len(ms)
        BY <2>1
      <3>2. i \in 1 .. Len(ms) /\ ~(i <= u)
        BY <1>2, <3>1
      <3>3. i \notin T
        BY <2>1, <3>2
      <3> QED
        BY <3>2, <3>3 DEF IsUser
    <2> QED
      BY <2>1, <2>2 DEF IsUser
  <1> QED
    BY <1>3, <1>4

\* The turns that wrap_chat walks.
Walk(ms) == WithRoles(ms, Roles \ {"system"})

Recounts(w) ==
  /\ w \in Seq(Message)
  /\ \A i \in 1 .. Len(w) : /\ w[i].role \in {"user", "assistant"}
                            /\ w[i].id \in DOMAIN request.messages
                            /\ w[i].role = SentRole(w[i].id)
  /\ \A i, j \in 1 .. Len(w) : i < j => w[i].id < w[j].id
  /\ \A i \in 1 .. Len(w), t \in SentTurns :
       w[i].id < t => \E j \in 1 .. Len(w) : w[j].id = t

\* They recount the request.
LEMMA WalkRecounts ==
  ASSUME NEW ms \in Seq(Message), Turns(ms)
  PROVE  Recounts(Walk(ms))
  <1> DEFINE w == Walk(ms)
             R == Roles \ {"system"}
  <1>1. w \in Seq(Message) /\ \E at : Picks(w, at, ms, Len(ms), R)
    <2> HIDE DEF R
    <2> QED
      BY WithRolesPicks DEF Walk, R
  <1>2. PICK at : Picks(w, at, ms, Len(ms), R)
    BY <1>1
  <1>3. \A r \in Roles : r \in R <=> r # "system"
    OBVIOUS
  <1>4. \A r \in R : r \in {"user", "assistant"} /\ r # "system"
    BY DEF Roles
  <1>5. \A i \in 1 .. Len(ms) : ms[i].role \in Roles
    <2>1. \A m \in Message : m.role \in Roles
      BY DEF Message
    <2> QED
      BY <2>1
  <1> HIDE DEF w, R
  <1>6. \A i \in 1 .. Len(w) : at[i] \in 1 .. Len(ms) /\ w[i] = ms[at[i]] /\ ms[at[i]].role \in R
    BY <1>2 DEF Picks
  <1>7. \A i, j \in 1 .. Len(w) : i < j => at[i] < at[j]
    BY <1>2 DEF Picks
  <1>8. \A p \in 1 .. Len(ms) : ms[p].role \in R => \E i \in 1 .. Len(w) : at[i] = p
    BY <1>2 DEF Picks
  <1>9. ASSUME NEW i \in 1 .. Len(w)
        PROVE  /\ w[i].role \in {"user", "assistant"}
               /\ w[i].id \in DOMAIN request.messages /\ w[i].role = SentRole(w[i].id)
    <2>1. at[i] \in 1 .. Len(ms) /\ w[i] = ms[at[i]]
      BY <1>6, <1>9
    <2>2. w[i].role \in {"user", "assistant"} /\ w[i].role # "system"
      BY <1>4, <1>6, <1>9
    <2>3. \A p \in 1 .. Len(ms) :
            ms[p].role # "system" => /\ ms[p].id \in DOMAIN request.messages
                                     /\ ms[p].role = SentRole(ms[p].id)
      BY DEF Turns
    <2> QED
      BY <2>1, <2>2, <2>3
  <1>10. ASSUME NEW i \in 1 .. Len(w), NEW j \in 1 .. Len(w), i < j PROVE w[i].id < w[j].id
    <2>1. \A h \in {i, j} :
            /\ at[h] \in 1 .. Len(ms) /\ w[h] = ms[at[h]] /\ ms[at[h]].role # "system"
      BY <1>4, <1>6
    <2>2. at[i] < at[j]
      BY <1>7, <1>10
    <2>3. \A p, q \in 1 .. Len(ms) :
            p < q /\ ms[p].role # "system" /\ ms[q].role # "system" => ms[p].id < ms[q].id
      BY DEF Turns
    <2> QED
      BY <2>1, <2>2, <2>3
  <1>11. ASSUME NEW i \in 1 .. Len(w), NEW t \in SentTurns, w[i].id < t
         PROVE  \E j \in 1 .. Len(w) : w[j].id = t
    <2>1. PICK p \in 1 .. Len(ms) : ms[p].role # "system" /\ ms[p].id = t
      BY <1>4, <1>6, <1>11 DEF Turns
    <2>2. ms[p].role \in R
      BY <1>3, <1>5, <2>1
    <2>3. PICK j \in 1 .. Len(w) : at[j] = p
      BY <1>8, <2>2
    <2>4. w[j] = ms[p]
      BY <1>6, <2>3
    <2> QED
      BY <2>1, <2>4
  <1>12. Recounts(w)
    BY <1>1, <1>9, <1>10, <1>11 DEF Recounts
  <1> QED
    BY <1>12 DEF w

\* A prompt with the follow-up templates has the turns from the first user
\* message on; without them, the last user message.
Expands(p, w, u) ==
  /\ u \in 1 .. Len(w) /\ w[u].role = "user" /\ p \in Seq([form : Forms, id : Nat])
  /\ IF request.template = "multi"
     THEN /\ \A i \in 1 .. u - 1 : w[i].role # "user"
          /\ Len(p) = Len(w) - u + 1
          /\ \A i \in 1 .. Len(p) :
               /\ p[i].id = w[u + i - 1].id
               /\ p[i].form = IF i = 1 THEN "template"
                              ELSE IF w[u + i - 1].role = "user" THEN "next_user_turn"
                              ELSE "assistant_turn"
     ELSE /\ \A i \in u + 1 .. Len(w) : w[i].role # "user"
          /\ Len(p) = 1 /\ p[1].id = w[u].id /\ p[1].form = "template"

\* With follow-up templates, a walk expands from its first user message on.
LEMMA WrapTurnsIs ==
  ASSUME NEW w \in Seq(Message), request.template = "multi"
  PROVE  \/ WrapTurns(w) = <<>> /\ \A i \in 1 .. Len(w) : w[i].role # "user"
         \/ \E u : Expands(WrapTurns(w), w, u)
  <1> DEFINE u == SelectInSeq(w, IsUser)
             walked == IF u = 0 THEN <<>> ELSE SubSeq(w, u, Len(w))
             Form(i) == IF i = 1 THEN "template"
                        ELSE IF IsUser(walked[i]) THEN "next_user_turn" ELSE "assistant_turn"
             p == WrapTurns(w)
  <1>1. \/ u = 0 /\ \A i \in 1 .. Len(w) : w[i].role # "user"
        \/ /\ u \in 1 .. Len(w) /\ w[u].role = "user"
           /\ \A i \in 1 .. u - 1 : w[i].role # "user"
    BY UserFirst
  <1>2. p = [i \in DOMAIN walked |-> [form |-> Form(i), id |-> walked[i].id]]
    BY DEF WrapTurns
  <1>3. Len(w) \in Nat
    OBVIOUS
  <1> HIDE DEF u
  <1>4. CASE u = 0
    <2>1. walked = <<>>
      BY <1>4
    <2>2. DOMAIN walked = 1 .. 0
      <3>1. DOMAIN <<>> = 1 .. 0
        OBVIOUS
      <3> HIDE DEF walked
      <3> QED
        BY <2>1, <3>1
    <2>3. p = [i \in 1 .. 0 |-> [form |-> Form(i), id |-> walked[i].id]]
      BY <1>2, <2>2
    <2> HIDE DEF walked, Form, p
    <2>4. p = <<>>
      BY <2>3
    <2> QED
      BY <1>1, <1>4, <2>4 DEF p
  <1>5. CASE u # 0
    <2>1. u \in 1 .. Len(w) /\ w[u].role = "user" /\ \A i \in 1 .. u - 1 : w[i].role # "user"
      BY <1>1, <1>5
    <2> DEFINE L == Len(w) - u + 1
    <2>2. L \in Nat /\ L >= 1
      BY <1>3, <2>1
    <2>3. walked = SubSeq(w, u, Len(w))
      BY <1>5
    <2> HIDE DEF walked
    <2>4. walked \in Seq(Message) /\ Len(walked) = L
      BY <1>3, <2>1, <2>3
    <2>5. \A i \in 1 .. L : walked[i] = w[u + i - 1]
      BY <1>3, <2>1, <2>3
    <2>6. DOMAIN walked = 1 .. L
      BY <2>4
    <2>7. p = [i \in 1 .. L |-> [form |-> Form(i), id |-> walked[i].id]]
      BY <1>2, <2>6
    <2>8. \A i \in 1 .. L : Form(i) \in Forms /\ walked[i].id \in Nat
      <3>1. \A m \in Message : m.id \in Nat
        BY DEF Message
      <3>2. \A i \in 1 .. L : walked[i] \in Message
        BY <2>4
      <3> QED
        BY <3>1, <3>2 DEF Forms
    <2>9. \A i \in 1 .. L : Form(i) = IF i = 1 THEN "template"
                                      ELSE IF w[u + i - 1].role = "user" THEN "next_user_turn"
                                      ELSE "assistant_turn"
      BY <2>5 DEF IsUser
    <2> HIDE DEF L, Form, p
    <2>10. p \in Seq([form : Forms, id : Nat]) /\ Len(p) = L
      <3> DEFINE E == [form : Forms, id : Nat]
      <3>1. \A i \in 1 .. L : [form |-> Form(i), id |-> walked[i].id] \in E
        BY <2>8
      <3> HIDE DEF E
      <3>2. p \in Seq(E) /\ Len(p) = L
        BY <2>2, <2>7, <3>1
      <3> QED
        BY <3>2 DEF E
    <2>11. \A i \in 1 .. L : p[i].id = w[u + i - 1].id /\ p[i].form = Form(i)
      BY <2>5, <2>7
    <2>12. Expands(p, w, u)
      BY <2>1, <2>9, <2>10, <2>11, SMTT(40) DEF Expands, L
    <2> QED
      BY <2>12 DEF p
  <1> QED
    BY <1>4, <1>5

\* Without them, it expands its last user message.
LEMMA WrapLastIs ==
  ASSUME NEW w \in Seq(Message), request.template # "multi", WrapLast(w) # <<>>
  PROVE  \E u : Expands(WrapLast(w), w, u)
  <1> DEFINE u == SelectLastInSeq(w, IsUser)
  <1>1. \/ u = 0 /\ \A i \in 1 .. Len(w) : w[i].role # "user"
        \/ /\ u \in 1 .. Len(w) /\ w[u].role = "user"
           /\ \A i \in u + 1 .. Len(w) : w[i].role # "user"
    BY UserLast
  <1>2. u # 0 /\ WrapLast(w) = <<[form |-> "template", id |-> w[u].id]>>
    BY DEF WrapLast
  <1> HIDE DEF u
  <1>3. u \in 1 .. Len(w) /\ w[u] \in Message
    BY <1>1, <1>2
  <1>4. w[u].id \in Nat
    BY <1>3 DEF Message
  <1>5. [form |-> "template", id |-> w[u].id] \in [form : Forms, id : Nat]
    BY <1>4 DEF Forms
  <1>6. Expands(WrapLast(w), w, u)
    BY <1>1, <1>2, <1>5 DEF Expands
  <1> QED
    BY <1>6

\* A prompt is an expansion of the conversation's turns.
LEMMA PromptExpands ==
  ASSUME TranscriptInv, outcome = "prompted"
  PROVE  \E w, u : Recounts(w) /\ Expands(prompt, w, u)
  <1> DEFINE w == Walk(messages)
  <1>1. prompt = WrapChat(messages) /\ prompt # <<>>
    BY DEF TranscriptInv
  <1>2. messages \in Seq(Message) /\ Turns(messages)
    BY DEF TranscriptInv
  <1>3. Recounts(w)
    BY <1>2, WalkRecounts
  <1>4. w \in Seq(Message)
    BY <1>3 DEF Recounts
  <1>5. WrapChat(messages) = IF request.template = "multi" THEN WrapTurns(w) ELSE WrapLast(w)
    BY DEF WrapChat, Walk
  <1> HIDE DEF w
  <1>6. \E u : Expands(prompt, w, u)
    BY <1>1, <1>4, <1>5, WrapTurnsIs, WrapLastIs
  <1> QED
    BY <1>3, <1>6

\* Every variable of the transcript keeps its type.
THEOREM TranscriptTypeCorrect == CompletionSpec => []TypeOK
  <1>1. TranscriptInv => TypeOK
    <2> SUFFICES ASSUME TranscriptInv PROVE TypeOK
      OBVIOUS
    <2>1. \A i \in DOMAIN messages : messages[i].role \in Roles /\ messages[i].hints \subseteq Hints
      <3>1. messages \in Seq(Message)
        BY DEF TranscriptInv
      <3>2. \A i \in DOMAIN messages : messages[i] \in Message
        BY <3>1
      <3>3. \A m \in Message : m.role \in Roles /\ m.hints \subseteq Hints
        BY DEF Message
      <3> QED
        BY <3>2, <3>3
    <2>2. \A i \in DOMAIN prompt : prompt[i].form \in Forms
      <3>1. CASE outcome = "prompted"
        <4> DEFINE E == [form : Forms, id : Nat]
        <4>1. prompt \in Seq(E)
          BY <3>1, PromptExpands DEF Expands
        <4>2. \A e \in E : e.form \in Forms
          OBVIOUS
        <4> HIDE DEF E
        <4> QED
          BY <4>1, <4>2
      <3>2. CASE outcome # "prompted"
        <4>1. prompt = <<>>
          BY <3>2 DEF TranscriptInv
        <4> QED
          BY <4>1
      <3> QED
        BY <3>1, <3>2
    <2>3. system.hints \subseteq Hints
      BY DEF TranscriptInv
    <2>4. outcome = "prompted" <=> prompt # <<>>
      BY DEF TranscriptInv
    <2> QED
      BY <2>1, <2>2, <2>3, <2>4 DEF TranscriptInv, TypeOK
  <1> QED
    BY <1>1, TranscriptKept, PTL

\* However a request is trimmed and its roles are filtered, the prompt is one
\* recent stretch of the conversation.
THEOREM PromptIsOneStretch == CompletionSpec => []PromptIsRecentStretch
  <1>1. TranscriptInv => PromptIsRecentStretch
    <2> SUFFICES ASSUME TranscriptInv, outcome = "prompted" PROVE PromptIsRecentStretch
      BY DEF PromptIsRecentStretch
    <2>1. PICK w, u : Recounts(w) /\ Expands(prompt, w, u)
      BY PromptExpands
    <2> DEFINE N == Len(w)
    <2>2. /\ w \in Seq(Message) /\ N \in Nat
          /\ \A i, j \in 1 .. N : i < j => w[i].id < w[j].id
          /\ \A i \in 1 .. N, t \in SentTurns : w[i].id < t => \E j \in 1 .. N : w[j].id = t
      BY <2>1 DEF Recounts
    <2>3. \A i \in 1 .. N : /\ w[i].id \in SentTurns /\ w[i].id \in Nat
                            /\ w[i].role = "user" <=> w[i].id \in SentUsers
      <3> SUFFICES ASSUME NEW i \in 1 .. N
                   PROVE  /\ w[i].id \in SentTurns /\ w[i].id \in Nat
                          /\ w[i].role = "user" <=> w[i].id \in SentUsers
        OBVIOUS
      <3>1. /\ w[i].role \in {"user", "assistant"} /\ w[i].id \in DOMAIN request.messages
            /\ w[i].role = SentRole(w[i].id)
        BY <2>1 DEF Recounts
      <3>2. w[i].id \in Nat
        BY <3>1, RequestIs DEF TranscriptInv
      <3> QED
        BY <3>1, <3>2 DEF SentTurns, SentUsers
    <2>4. SentTurns \in SUBSET Nat
      BY RequestIs DEF SentTurns, TranscriptInv
    <2>5. u \in 1 .. N /\ w[u].role = "user" /\ DOMAIN prompt = 1 .. Len(prompt)
      BY <2>1 DEF Expands
    <2> HIDE DEF N
    <2>6. CASE request.template = "multi"
      <3>1. Len(prompt) = N - u + 1
        BY <2>1, <2>6 DEF Expands, N
      <3>2. \A i \in 1 .. Len(prompt) :
              /\ prompt[i].id = w[u + i - 1].id
              /\ prompt[i].form = IF i = 1 THEN "template"
                                  ELSE IF w[u + i - 1].role = "user" THEN "next_user_turn"
                                  ELSE "assistant_turn"
        BY <2>1, <2>6 DEF Expands
      <3>3. \A i \in 1 .. Len(prompt) : u + i - 1 \in 1 .. N
        BY <2>2, <2>5, <3>1
      <3>4. 1 \in 1 .. Len(prompt) /\ u + 1 - 1 = u
        BY <2>2, <2>5, <3>1
      <3>5. prompt[1].form = "template" /\ prompt[1].id = w[u].id /\ w[u].id \in SentUsers
        BY <2>3, <2>5, <3>2, <3>4
      <3>6. ASSUME NEW i \in 2 .. Len(prompt)
            PROVE  /\ prompt[i].id > prompt[i - 1].id
                   /\ prompt[i].form = IF prompt[i].id \in SentUsers THEN "next_user_turn"
                                       ELSE "assistant_turn"
        <4>1. i \in 1 .. Len(prompt) /\ i - 1 \in 1 .. Len(prompt) /\ i # 1
          BY <2>2, <2>5, <3>1
        <4>2. u + i - 1 \in 1 .. N /\ u + (i - 1) - 1 \in 1 .. N /\ u + (i - 1) - 1 < u + i - 1
          BY <2>5, <3>3, <4>1, SMTT(40)
        <4>3. w[u + (i - 1) - 1].id < w[u + i - 1].id
          BY <2>2, <4>2 DEF N
        <4>4. prompt[i].id = w[u + i - 1].id /\ prompt[i - 1].id = w[u + (i - 1) - 1].id
          BY <3>2, <4>1
        <4>5. prompt[i].id > prompt[i - 1].id
          BY <2>3, <4>2, <4>3, <4>4
        <4>6. prompt[i].form = IF w[u + i - 1].role = "user" THEN "next_user_turn"
                               ELSE "assistant_turn"
          BY <3>2, <4>1
        <4> QED
          BY <2>3, <4>2, <4>4, <4>5, <4>6
      <3>7. ASSUME NEW i \in 1 .. Len(prompt)
            PROVE  prompt[i].id \in SentTurns /\ prompt[i].id >= w[u].id
        <4>1. u + i - 1 \in 1 .. N /\ (u = u + i - 1 \/ u < u + i - 1)
          BY <2>2, <2>5, <3>3
        <4>2. prompt[i].id = w[u + i - 1].id
          BY <3>2
        <4>3. u < u + i - 1 => w[u].id < w[u + i - 1].id
          BY <2>2, <2>5, <4>1 DEF N
        <4>4. w[u].id \in Nat /\ w[u + i - 1].id \in Nat /\ w[u + i - 1].id \in SentTurns
          BY <2>3, <2>5, <4>1
        <4>5. w[u + i - 1].id >= w[u].id
          <5>1. CASE u = u + i - 1
            BY <4>4, <5>1
          <5>2. CASE u < u + i - 1
            BY <4>3, <4>4, <5>2
          <5> QED
            BY <4>1, <5>1, <5>2
        <4> QED
          BY <4>2, <4>4, <4>5
      <3>8. ASSUME NEW t \in SentTurns, t >= w[u].id
            PROVE  \E i \in 1 .. Len(prompt) : prompt[i].id = t
        <4>1. PICK j \in 1 .. N : w[j].id = t /\ (j = u \/ w[u].id < t)
          <5>1. CASE t = w[u].id
            BY <2>5, <5>1
          <5>2. CASE t # w[u].id
            <6>1. w[u].id < t
              BY <2>3, <2>4, <2>5, <3>8, <5>2
            <6> QED
              BY <2>2, <2>5, <6>1 DEF N
          <5> QED
            BY <5>1, <5>2
        <4>2. u <= j
          <5>1. j < u => w[j].id < w[u].id
            BY <2>2, <2>5 DEF N
          <5>2. w[u].id \in Nat /\ t \in Nat
            BY <2>3, <2>4, <2>5
          <5>3. ~(j < u)
            BY <3>8, <4>1, <5>1, <5>2
          <5> QED
            BY <2>2, <2>5, <5>3
        <4>3. j - u + 1 \in 1 .. Len(prompt) /\ u + (j - u + 1) - 1 = j
          BY <2>2, <2>5, <3>1, <4>2
        <4>4. prompt[j - u + 1].id = w[j].id
          BY <3>2, <4>3
        <4> QED
          BY <4>1, <4>3, <4>4
      <3>9. PromptIds = {t \in SentTurns : t >= prompt[1].id}
        BY <2>5, <3>5, <3>7, <3>8 DEF PromptIds
      <3> QED
        BY <3>5, <3>6, <3>9 DEF PromptIsRecentStretch
    <2>7. CASE request.template # "multi"
      <3>1. Len(prompt) = 1 /\ prompt[1].id = w[u].id /\ prompt[1].form = "template"
        BY <2>1, <2>7 DEF Expands
      <3>2. 2 .. Len(prompt) = {}
        BY <3>1
      <3>3. prompt[1].id \in SentUsers
        BY <2>3, <2>5, <3>1
      <3> QED
        BY <2>7, <3>1, <3>2, <3>3 DEF PromptIsRecentStretch
    <2> QED
      BY <2>6, <2>7
  <1> QED
    BY <1>1, TranscriptKept, PTL

\* A conversation that ends with the user is answered at that message.
THEOREM LastUserIsAnswered == CompletionSpec => []AnswersLastUser
  <1>1. TranscriptInv => AnswersLastUser
    <2> SUFFICES ASSUME TranscriptInv, outcome = "prompted",
                        \A t \in SentTurns : \E v \in SentUsers : v >= t
                 PROVE  /\ prompt[Len(prompt)].id \in SentUsers
                        /\ \A v \in SentUsers : v <= prompt[Len(prompt)].id
      BY DEF AnswersLastUser
    <2>1. PICK w, u : Recounts(w) /\ Expands(prompt, w, u)
      BY PromptExpands
    <2> DEFINE N == Len(w)
    <2>2. /\ w \in Seq(Message) /\ N \in Nat
          /\ \A i, j \in 1 .. N : i < j => w[i].id < w[j].id
          /\ \A i \in 1 .. N, t \in SentTurns : w[i].id < t => \E j \in 1 .. N : w[j].id = t
      BY <2>1 DEF Recounts
    <2>3. SentTurns \in SUBSET Nat /\ SentUsers \in SUBSET SentTurns
      BY RequestIs DEF SentTurns, SentUsers, TranscriptInv
    <2>4. \A i \in 1 .. N : w[i].id \in SentTurns /\ (w[i].role = "user" <=> w[i].id \in SentUsers)
      <3> SUFFICES ASSUME NEW i \in 1 .. N
                   PROVE  w[i].id \in SentTurns /\ (w[i].role = "user" <=> w[i].id \in SentUsers)
        OBVIOUS
      <3>1. /\ w[i].role \in {"user", "assistant"} /\ w[i].id \in DOMAIN request.messages
            /\ w[i].role = SentRole(w[i].id)
        BY <2>1 DEF Recounts
      <3> QED
        BY <3>1 DEF SentTurns, SentUsers
    <2>5. u \in 1 .. N /\ w[u].role = "user"
      BY <2>1 DEF Expands
    <2> HIDE DEF N
    <2>6. CASE request.template = "multi"
      <3> DEFINE l == w[N].id
      <3>1. Len(prompt) = N - u + 1
        BY <2>1, <2>6 DEF Expands, N
      <3>2. Len(prompt) \in 1 .. Len(prompt) /\ u + Len(prompt) - 1 = N /\ N \in 1 .. N
        <4>1. PICK k \in Nat : k = N - u + 1
          BY <2>2, <2>5
        <4>2. k \in 1 .. k /\ u + k - 1 = N /\ N \in 1 .. N
          BY <2>2, <2>5, <4>1
        <4>3. Len(prompt) = k
          BY <3>1, <4>1
        <4> QED
          BY <4>2, <4>3
      <3>3. \A i \in 1 .. Len(prompt) : prompt[i].id = w[u + i - 1].id
        BY <2>1, <2>6 DEF Expands
      <3>4. prompt[Len(prompt)].id = l
        <4>1. prompt[Len(prompt)].id = w[u + Len(prompt) - 1].id
          BY <3>2, <3>3
        <4> QED
          BY <3>2, <4>1
      <3>5. l \in SentTurns /\ l \in Nat
        BY <2>3, <2>4, <3>2
      <3>6. ASSUME NEW t \in SentTurns PROVE t <= l
        <4> SUFFICES ASSUME l < t PROVE FALSE
          BY <2>3, <3>5
        <4>1. PICK j \in 1 .. N : w[j].id = t
          BY <2>2, <3>2 DEF N
        <4>2. j = N \/ j < N
          BY <2>2
        <4>3. j < N => w[j].id < l
          BY <2>2, <3>2 DEF N
        <4> QED
          BY <2>3, <3>5, <4>1, <4>2, <4>3
      <3>7. PICK v \in SentUsers : v >= l
        BY <3>5
      <3>8. v = l
        BY <2>3, <3>5, <3>6, <3>7
      <3> QED
        BY <2>3, <3>4, <3>6, <3>7, <3>8
    <2>7. CASE request.template # "multi"
      <3>1. Len(prompt) = 1 /\ prompt[1].id = w[u].id /\ \A i \in u + 1 .. N : w[i].role # "user"
        BY <2>1, <2>7 DEF Expands, N
      <3>2. prompt[Len(prompt)].id = w[u].id /\ w[u].id \in SentUsers /\ w[u].id \in Nat
        BY <2>3, <2>4, <2>5, <3>1
      <3>3. ASSUME NEW v \in SentUsers PROVE v <= w[u].id
        <4> SUFFICES ASSUME w[u].id < v PROVE FALSE
          BY <2>3, <3>2
        <4>1. PICK j \in 1 .. N : w[j].id = v
          BY <2>2, <2>3, <2>5 DEF N
        <4>2. ~(j < u) /\ j # u
          <5>1. j < u => w[j].id < w[u].id
            BY <2>2, <2>5 DEF N
          <5>2. v \in Nat /\ w[u].id \in Nat /\ w[u].id < v /\ w[j].id = v
            BY <2>3, <3>2, <4>1
          <5> QED
            BY <5>1, <5>2
        <4>3. j \in u + 1 .. N
          BY <2>2, <2>5, <4>2
        <4> QED
          BY <2>4, <3>1, <4>1, <4>3
      <3> QED
        BY <3>2, <3>3
    <2> QED
      BY <2>6, <2>7
  <1> QED
    BY <1>1, TranscriptKept, PTL

\* The next turn of an untrimmed conversation extends the previous prompt.
THEOREM NextPromptExtends == CompletionSpec => []PrefixReused
  <1>1. TranscriptInv => PrefixReused
    <2> DEFINE n == Len(messages)
               earlier == SubSeq(messages, 1, n - 2)
               a == messages[n - 1]
               v == messages[n]
    <2> SUFFICES ASSUME TranscriptInv, outcome = "prompted", request.template = "multi",
                        n > 2, a.role = "assistant", IsUser(v)
                 PROVE  IsPrefix(WrapChat(earlier), prompt) /\ SystemOf(earlier) = system
      BY DEF PrefixReused
    <2>1. /\ messages \in Seq(Message) /\ Turns(messages)
          /\ prompt = WrapChat(messages) /\ system = SystemOf(messages) /\ prompt # <<>>
      BY DEF TranscriptInv
    <2>2. /\ n \in Nat /\ earlier \in Seq(Message) /\ Len(earlier) = n - 2
          /\ \A i \in 1 .. n - 2 : earlier[i] = messages[i]
      BY <2>1
    <2>3. a \in Message /\ v \in Message /\ v.role = "user"
      BY <2>1, <2>2 DEF IsUser
    <2>4. messages = Append(Append(earlier, a), v)
      BY <2>1, <2>2
    <2> DEFINE R == Roles \ {"system"}
               we == Walk(earlier)
               w == Walk(messages)
    <2>5. we \in Seq(Message) /\ w = Append(Append(we, a), v)
      <3>1. Append(earlier, a) \in Seq(Message) /\ a.role \in R /\ v.role \in R
        BY <2>2, <2>3 DEF Roles
      <3> HIDE DEF earlier, R, a, v
      <3>2. WithRoles(earlier, R) \in Seq(Message)
        BY <2>2, WithRolesPicks
      <3>3. WithRoles(Append(earlier, a), R) = Append(WithRoles(earlier, R), a)
        BY <2>2, <2>3, <3>1, WithRolesAppend
      <3>4. WithRoles(Append(Append(earlier, a), v), R)
              = Append(WithRoles(Append(earlier, a), R), v)
        BY <2>3, <3>1, WithRolesAppend
      <3> QED
        BY <2>4, <3>2, <3>3, <3>4 DEF Walk, R
    <2>6. WrapChat(earlier) = WrapTurns(we) /\ prompt = WrapTurns(w)
      BY <2>1 DEF WrapChat, Walk
    <2> HIDE DEF earlier, a, v, we, w
    <2>7. /\ w \in Seq(Message) /\ Len(we) \in Nat /\ Len(w) = Len(we) + 2
          /\ \A i \in 1 .. Len(we) : w[i] = we[i]
      BY <2>3, <2>5
    <2>8. SystemOf(earlier) = system
      <3> DEFINE s == SelectInSeq(messages, IsSystem)
                 se == SelectInSeq(earlier, IsSystem)
      <3>1. \/ s = 0 /\ \A i \in 1 .. n : messages[i].role # "system"
            \/ /\ s \in 1 .. n /\ messages[s].role = "system"
               /\ \A i \in 1 .. s - 1 : messages[i].role # "system"
        BY <2>1, SystemFirst
      <3>2. \/ se = 0 /\ \A i \in 1 .. n - 2 : earlier[i].role # "system"
            \/ /\ se \in 1 .. n - 2 /\ earlier[se].role = "system"
               /\ \A i \in 1 .. se - 1 : earlier[i].role # "system"
        BY <2>2, SystemFirst
      <3>3. messages[n].role # "system" /\ messages[n - 1].role # "system"
        BY <2>3 DEF a, v
      <3> HIDE DEF s, se, n
      <3>4. \A i \in 1 .. n : i \in 1 .. n - 2 \/ i = n - 1 \/ i = n
        BY <2>2
      <3>5. CASE se = 0
        <4>1. \A i \in 1 .. n : messages[i].role # "system"
          <5>1. \A i \in 1 .. n - 2 : earlier[i].role # "system"
            BY <3>2, <3>5
          <5> QED
            BY <2>2, <3>3, <3>4, <5>1
        <4>2. s = 0
          BY <3>1, <4>1
        <4> QED
          BY <2>1, <3>5, <4>2 DEF SystemOf, s, se
      <3>6. CASE se # 0
        <4>1. /\ se \in 1 .. n - 2 /\ earlier[se].role = "system"
              /\ \A i \in 1 .. se - 1 : earlier[i].role # "system"
          BY <3>2, <3>6
        <4>2. se \in 1 .. n /\ messages[se] = earlier[se] /\ messages[se].role = "system"
          BY <2>2, <4>1
        <4>3. \A i \in 1 .. se - 1 : i \in 1 .. n - 2 /\ messages[i].role # "system"
          BY <2>2, <4>1
        <4>4. s \in 1 .. n /\ messages[s].role = "system" /\ \A i \in 1 .. s - 1 : messages[i].role # "system"
          BY <3>1, <4>2
        <4>5. s = se
          <5>1. s < se => s \in 1 .. se - 1
            BY <2>2, <4>1, <4>4
          <5>2. se < s => se \in 1 .. s - 1
            BY <2>2, <4>1, <4>4
          <5>3. ~(s < se) /\ ~(se < s)
            BY <4>2, <4>3, <4>4, <5>1, <5>2
          <5> QED
            BY <2>2, <4>2, <4>4, <5>3
        <4> QED
          BY <2>1, <3>6, <4>2, <4>5 DEF SystemOf, s, se
      <3> QED
        BY <3>5, <3>6
    <2>9. IsPrefix(WrapTurns(we), WrapTurns(w))
      <3> DEFINE p == WrapTurns(we)
                 q == WrapTurns(w)
      <3>1. \/ p = <<>> /\ \A i \in 1 .. Len(we) : we[i].role # "user"
            \/ \E u : Expands(p, we, u)
        BY <2>5, WrapTurnsIs
      <3>2. PICK u : Expands(q, w, u)
        BY <2>1, <2>6, <2>7, WrapTurnsIs
      <3>3. q \in Seq([form : Forms, id : Nat])
        BY <3>2 DEF Expands
      <3> HIDE DEF p, q
      <3>4. CASE p = <<>>
        <4>1. Len(p) = 0 /\ SubSeq(p, 1, 0) = <<>> /\ SubSeq(q, 1, 0) = <<>> /\ Len(q) >= 0
          BY <3>3, <3>4
        <4> QED
          BY <4>1 DEF IsPrefix, p, q
      <3>5. CASE p # <<>>
        <4>1. PICK x : Expands(p, we, x)
          BY <3>1, <3>5
        <4>2. /\ x \in 1 .. Len(we) /\ we[x].role = "user"
              /\ \A i \in 1 .. x - 1 : we[i].role # "user"
              /\ Len(p) = Len(we) - x + 1
          BY <4>1 DEF Expands
        <4>3. /\ u \in 1 .. Len(w) /\ w[u].role = "user"
              /\ \A i \in 1 .. u - 1 : w[i].role # "user"
              /\ Len(q) = Len(w) - u + 1
          BY <3>2 DEF Expands
        <4>4. u = x
          <5>1. x \in 1 .. Len(w) /\ w[x].role = "user"
            BY <2>7, <4>2
          <5>2. \A i \in 1 .. x - 1 : i \in 1 .. Len(we) /\ w[i].role # "user"
            BY <2>7, <4>2
          <5>3. u < x => u \in 1 .. x - 1
            BY <2>7, <4>2, <4>3
          <5>4. x < u => x \in 1 .. u - 1
            BY <2>7, <4>2, <4>3
          <5>5. ~(u < x) /\ ~(x < u)
            BY <4>3, <5>1, <5>2, <5>3, <5>4
          <5> QED
            BY <2>7, <4>2, <4>3, <5>5
        <4>5. Len(p) \in Nat /\ Len(q) = Len(p) + 2
          BY <2>7, <4>2, <4>3, <4>4
        <4>6. ASSUME NEW i \in 1 .. Len(p) PROVE p[i] = q[i]
          <5>1. i \in 1 .. Len(q) /\ x + i - 1 \in 1 .. Len(we)
            BY <2>7, <4>2, <4>5
          <5>2. w[x + i - 1] = we[x + i - 1]
            BY <2>7, <5>1
          <5>3. /\ p[i].id = we[x + i - 1].id
                /\ p[i].form = IF i = 1 THEN "template"
                               ELSE IF we[x + i - 1].role = "user" THEN "next_user_turn"
                               ELSE "assistant_turn"
            BY <4>1 DEF Expands
          <5>4. /\ q[i].id = w[x + i - 1].id
                /\ q[i].form = IF i = 1 THEN "template"
                               ELSE IF w[x + i - 1].role = "user" THEN "next_user_turn"
                               ELSE "assistant_turn"
            BY <3>2, <4>4, <5>1 DEF Expands
          <5>5. p[i] \in [form : Forms, id : Nat] /\ q[i] \in [form : Forms, id : Nat]
            <6> DEFINE E == [form : Forms, id : Nat]
            <6>1. p \in Seq(E) /\ q \in Seq(E)
              BY <3>3, <4>1 DEF Expands
            <6> HIDE DEF E
            <6>2. p[i] \in E /\ q[i] \in E
              BY <5>1, <6>1
            <6> QED
              BY <6>2 DEF E
          <5> QED
            BY <5>2, <5>3, <5>4, <5>5
        <4>7. p \in Seq([form : Forms, id : Nat])
          BY <4>1 DEF Expands
        <4>8. SubSeq(p, 1, Len(p)) = SubSeq(q, 1, Len(p))
          <5> DEFINE E == [form : Forms, id : Nat]
          <5>1. p \in Seq(E) /\ q \in Seq(E)
            BY <3>3, <4>7
          <5> HIDE DEF E
          <5>2. Len(SubSeq(p, 1, Len(p))) = Len(p) /\ Len(SubSeq(q, 1, Len(p))) = Len(p)
            BY <4>5, <5>1
          <5>3. \A i \in 1 .. Len(p) : /\ SubSeq(p, 1, Len(p))[i] = p[i]
                                       /\ SubSeq(q, 1, Len(p))[i] = q[i]
            BY <4>5, <5>1
          <5>4. SubSeq(p, 1, Len(p)) \in Seq(E) /\ SubSeq(q, 1, Len(p)) \in Seq(E)
            BY <4>5, <5>1
          <5> QED
            BY <4>6, <5>2, <5>3, <5>4
        <4> QED
          BY <4>5, <4>8 DEF IsPrefix, p, q
      <3> QED
        BY <3>4, <3>5
    <2> QED
      BY <2>6, <2>8, <2>9
  <1> QED
    BY <1>1, TranscriptKept, PTL

-----------------------------------------------------------------------------
(* The way to the answer *)

\* A sum falls with a part of it.
LEMMA SumFalls ==
  ASSUME NEW a \in Nat, NEW b \in Nat, NEW c \in Nat, NEW d \in Nat, d < a
  PROVE  d + b + c < a + b + c /\ b + d + c < b + a + c
  OBVIOUS

\* Every iteration of the scan ends it or moves the cursor past the tag it came
\* to, for every reply: what is left of the reply gets shorter.
LEMMA ScanAdvances ==
  ASSUME ScanInv, Scan
  PROVE  reply' = reply /\ ScanLeft \in Nat /\ ScanLeft' \in Nat /\ ScanLeft' < ScanLeft
  <1>1. Scannable /\ parse = "scanning" /\ reply' = reply
    BY DEF ScanInv, Scannable, Scan, EndOfText, SkipTag, SkipUnclosed, SkipBody, TakeCall,
           Block, FoundTag
  <1>2. Len(reply) \in Nat /\ cursor \in Nat \ {0} /\ cursor <= Len(reply) + 1
    BY <1>1 DEF Scannable
  <1>3. ASSUME HasTag
        PROVE  NextGt \in Nat /\ cursor <= NextGt /\ NextGt <= Len(reply)
    <2>1. NextLt \in cursor .. Len(reply)
      BY <1>1, <1>3, NextLtIs DEF HasTag
    <2>2. NextGt \in NextLt .. Len(reply)
      BY <1>1, <1>3, NextGtIs DEF HasTag
    <2> QED
      BY <1>2, <2>1, <2>2
  <1>4. ASSUME cursor' \in Nat, cursor < cursor', cursor' <= Len(reply) + 1, parse' = parse
        PROVE  ScanLeft \in Nat /\ ScanLeft' \in Nat /\ ScanLeft' < ScanLeft
    BY <1>1, <1>2, <1>4 DEF ScanLeft
  <1>5. CASE EndOfText
    BY <1>1, <1>2, <1>5 DEF EndOfText, ScanLeft
  <1>6. CASE SkipTag \/ SkipUnclosed
    <2>1. HasTag /\ cursor' = NextGt + 1 /\ parse' = parse
      BY <1>6 DEF SkipTag, SkipUnclosed, FoundTag
    <2>2. cursor' \in Nat /\ cursor < cursor' /\ cursor' <= Len(reply) + 1
      BY <1>2, <1>3, <2>1
    <2> QED
      BY <1>1, <1>4, <2>1, <2>2
  <1>7. CASE SkipBody \/ TakeCall
    <2>1. Block /\ cursor' = ClosedAt + 1 /\ parse' = parse
      BY <1>7 DEF SkipBody, TakeCall
    <2>2. HasTag /\ ClosedAt # 0
      BY <2>1 DEF Block, FoundTag
    <2>3. ClosedAt \in NextGt + 1 .. Len(reply)
      BY <1>1, <2>2, ClosedAtIs
    <2>4. cursor' \in Nat /\ cursor < cursor' /\ cursor' <= Len(reply) + 1
      BY <1>2, <1>3, <2>1, <2>2, <2>3
    <2> QED
      BY <1>1, <1>4, <2>1, <2>4
  <1> QED
    BY <1>5, <1>6, <1>7 DEF Scan

\* The query's return leaves a reply to scan, or nothing of it to do.
LEMMA StartAdvances ==
  ASSUME ScanInv, StartParse
  PROVE  reply' = reply /\ ScanLeft \in Nat /\ ScanLeft' \in Nat /\ ScanLeft' < ScanLeft
  <1>1. Len(reply) \in Nat
    BY DEF ScanInv
  <1>2. /\ parse = "idle" /\ reply' = reply /\ cursor' = 1
        /\ parse' = "some" \/ parse' = "scanning"
    BY DEF StartParse
  <1> QED
    BY <1>1, <1>2 DEF ScanLeft

\* Every step of the handler's, up to the prompt, is a later one.
LEMMA PrepareAdvances ==
  ASSUME Prepare
  PROVE  PhasesLeft \in Nat /\ PhasesLeft' \in Nat /\ PhasesLeft' < PhasesLeft
  <1>1. \/ phase = "received" /\ phase' = "converted"
        \/ phase = "converted" /\ phase' \in {"augmented", "checked", "done"}
        \/ phase = "augmented" /\ phase' = "trimmed"
        \/ phase = "trimmed" /\ phase' \in {"checked", "done"}
        \/ phase = "checked" /\ phase' = "done"
    BY DEF Prepare, ConvertRoles, RefuseStreamedTools, Augment, Trim, CheckUser, BuildPrompt,
           Answer
  <1> QED
    BY <1>1 DEF PhasesLeft

\* Whatever the model's reply, a request has a bounded number of steps to its
\* answer once the reply is complete: no reply makes the scan for tool calls
\* read a tag twice.
THEOREM EveryStepLeadsToAnswer == CompletionSpec => EveryStepAdvances
  <1> DEFINE A == IF reply' = reply THEN CompletionLeft' < CompletionLeft
                  ELSE parse = "idle" /\ parse' = "idle" /\ answer = NoAnswer
  <1>1. ScanInv /\ TypeOK /\ [CompletionNext]_completionVars => [A]_completionVars
    <2> SUFFICES ASSUME ScanInv, TypeOK, CompletionNext,
                        ~UNCHANGED completionVars
                 PROVE  A
      OBVIOUS
    <2>1. PhasesLeft \in Nat
      BY DEF TypeOK, PhasesLeft
    <2>2. ScanLeft \in Nat
      BY DEF ScanInv, ScanLeft
    <2>3. UNCHANGED vars => PhasesLeft' = PhasesLeft
      BY DEF vars, PhasesLeft
    <2>4. UNCHANGED toolVars => ScanLeft' = ScanLeft /\ reply' = reply
      BY DEF toolVars, ScanLeft
    <2>5. UNCHANGED answer => AnswerLeft' = AnswerLeft
      BY DEF AnswerLeft
    <2>6. AnswerLeft \in Nat
      BY DEF AnswerLeft
    <2>7. CompletionLeft = PhasesLeft + ScanLeft + AnswerLeft
      BY DEF CompletionLeft
    <2>8. CompletionLeft' = PhasesLeft' + ScanLeft' + AnswerLeft'
      BY DEF CompletionLeft
    <2>n. answer = NoAnswer /\ answer' # NoAnswer => AnswerLeft = 1 /\ AnswerLeft' = 0
      BY DEF AnswerLeft
    <2>s. ASSUME reply' = reply, CompletionLeft' < CompletionLeft PROVE A
      BY <2>s
    <2> HIDE DEF A
    <2>9. CASE Prepare
      <3>1. PhasesLeft' \in Nat /\ PhasesLeft' < PhasesLeft
        BY <2>9, PrepareAdvances
      <3>2. ScanLeft' = ScanLeft /\ AnswerLeft' = AnswerLeft /\ reply' = reply
        BY <2>4, <2>5, <2>9 DEF Prepare
      <3> QED
        BY <2>s, <2>1, <2>2, <2>6, <2>7, <2>8, <3>1, <3>2, SumFalls
    <2>10. CASE Generate
      <3>1. PICK a \in Atoms : reply' = Append(reply, a)
        BY <2>10 DEF Generate
      <3>2. Len(reply') = Len(reply) + 1 /\ Len(reply) \in Nat
        BY <3>1 DEF ScanInv
      <3>3. reply' # reply
        BY <3>2
      <3> QED
        BY <2>10, <3>3 DEF Generate, A
    <2>11. CASE QueryReturns
      <3>1. UNCHANGED vars /\ answer = NoAnswer
        BY <2>11 DEF QueryReturns
      <3>2. CASE StartParse /\ UNCHANGED answer
        <4>1. reply' = reply /\ ScanLeft' \in Nat /\ ScanLeft' < ScanLeft
          BY <3>2, StartAdvances
        <4> QED
          BY <2>s, <2>1, <2>2, <2>3, <2>5, <2>6, <2>7, <2>8, <3>1, <3>2, <4>1, SumFalls
      <3>3. CASE UNCHANGED toolVars /\ answer' = [content |-> "text", finish |-> "stop"]
        <4>1. answer' # NoAnswer
          BY <3>3 DEF NoAnswer
        <4> QED
          BY <2>s, <2>1, <2>2, <2>3, <2>4, <2>n, <2>7, <2>8, <3>1, <3>3, <4>1
      <3> QED
        BY <2>11, <3>2, <3>3 DEF QueryReturns
    <2>12. CASE ParseReply
      <3>1. UNCHANGED <<vars, answer>> /\ Scan
        BY <2>12 DEF ParseReply
      <3>2. reply' = reply /\ ScanLeft' \in Nat /\ ScanLeft' < ScanLeft
        BY <3>1, ScanAdvances
      <3> QED
        BY <2>s, <2>1, <2>2, <2>3, <2>5, <2>6, <2>7, <2>8, <3>1, <3>2, SumFalls
    <2>13. CASE Respond
      <3>1. UNCHANGED <<vars, toolVars>> /\ answer = NoAnswer
        BY <2>13 DEF Respond
      <3>2. answer' # NoAnswer
        BY <2>13 DEF Respond, NoAnswer
      <3> QED
        BY <2>s, <2>1, <2>2, <2>3, <2>4, <2>n, <2>7, <2>8, <3>1, <3>2
    <2>14. CASE Finished
      BY <2>14 DEF Finished
    <2> QED
      BY <2>9, <2>10, <2>11, <2>12, <2>13, <2>14 DEF CompletionNext
  <1> QED
    BY <1>1, Scanned, TranscriptTypeCorrect, PTL DEF CompletionSpec, EveryStepAdvances

=============================================================================
