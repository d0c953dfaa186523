--------------------------- MODULE CompactionProofs ---------------------------
(***************************************************************************)
(* Cutting a conversation keeps the end of it, and the end of a            *)
(* conversation in which every tool call is answered is one, for any       *)
(* messages, budgets and anchors.                                          *)
(***************************************************************************)
EXTENDS Compaction, SequenceTheorems, WellFoundedInduction, TLAPS

(***************************************************************************)
(* Numbers: a set of them that is not empty has a least element.           *)
(***************************************************************************)
LEMMA LeastElement ==
  ASSUME NEW T, T \subseteq Nat, T # {}
  PROVE  \E x \in T : \A y \in T : x <= y
<1> DEFINE R == OpToRel(<, Nat)
<1>1. IsWellFoundedOn(R, Nat)
  BY NatLessThanWellFounded
<1>2. \A x, y \in Nat : y < x => <<y, x>> \in R
  BY DEF OpToRel
<1>3. \E Q : IsWellFoundedOn(Q, Nat) /\ \A x, y \in Nat : y < x => <<y, x>> \in Q
  <2> HIDE DEF R
  <2> QED
    BY <1>1, <1>2, Zenon
<1>4. PICK Q : IsWellFoundedOn(Q, Nat) /\ \A x, y \in Nat : y < x => <<y, x>> \in Q
  BY <1>3
<1>5. PICK x \in T : \A y \in T : ~(<<y, x>> \in Q)
  BY <1>4, WFMin
<1>6. x \in Nat /\ \A y \in T : y \in Nat /\ ~(y < x)
  BY <1>4, <1>5
<1> QED
  BY <1>5, <1>6

(***************************************************************************)
(* What compaction keeps is the end of the conversation.                   *)
(***************************************************************************)
SuffixOf(kept, conversation) ==
  \E a \in 1..(Len(conversation) + 1) : kept = SubSeq(conversation, a, Len(conversation))

\* Where the tool results at the end of a conversation begin.
LEMMA TrailingIs ==
  ASSUME NEW S, NEW conversation \in Seq(S)
  PROVE  TrailingResults(conversation) \in 1..(Len(conversation) + 1)
<1> DEFINE n == Len(conversation)
           T == {i \in 1..(n + 1) : \A j \in i..n : IsTool(conversation[j])}
<1>1. n \in Nat
  OBVIOUS
<1> HIDE DEF n
<1>2. n + 1 \in T /\ T \subseteq Nat
  BY <1>1
<1>3. PICK i \in T : \A y \in T : i <= y
  BY <1>2, LeastElement
<1>4. i > 1 => ~IsTool(conversation[i - 1])
  <2> SUFFICES ASSUME i > 1, IsTool(conversation[i - 1]) PROVE i - 1 \in T
    BY <1>1, <1>3
  <2>1. \A j \in (i - 1)..n : j = i - 1 \/ j \in i..n
    BY <1>1, <1>3
  <2> QED BY <1>1, <1>3, <2>1
<1>5. \E k \in 1..(n + 1) : /\ \A j \in k..n : IsTool(conversation[j])
                            /\ k > 1 => ~IsTool(conversation[k - 1])
  BY <1>3, <1>4
<1> QED BY <1>5 DEF TrailingResults, n

\* The first message that is kept is one of the conversation, before those results.
LEMMA FirstKeptIs ==
  ASSUME NEW S, NEW conversation \in Seq(S), NEW budget
  PROVE  FirstKept(conversation, budget) \in 1..TrailingResults(conversation)
<1> DEFINE last == TrailingResults(conversation) - 1
           fits(i) == EstimateTokens(SubSeq(conversation, i, last)) <= budget
           T == {i \in 1..last : i = last \/ fits(i)}
<1>1. last \in Nat /\ TrailingResults(conversation) = last + 1
  BY TrailingIs
<1>2. FirstKept(conversation, budget) =
        IF last = 0 THEN 1
        ELSE CHOOSE i \in 1..last : (i = last \/ fits(i)) /\ (i > 1 => ~fits(i - 1))
  BY DEF FirstKept
<1> HIDE DEF last, fits
<1>3. ASSUME last # 0
      PROVE  \E i \in 1..last : (i = last \/ fits(i)) /\ (i > 1 => ~fits(i - 1))
  <2>1. last \in T /\ T \subseteq Nat
    BY <1>1, <1>3
  <2>2. PICK i \in T : \A y \in T : i <= y
    BY <2>1, LeastElement
  <2>3. i > 1 => ~fits(i - 1)
    BY <1>1, <2>2
  <2> QED BY <2>2, <2>3
<1>4. CASE last = 0
  BY <1>1, <1>2, <1>4
<1>5. CASE last # 0
  <2>1. FirstKept(conversation, budget) \in 1..last
    BY <1>2, <1>3, <1>5
  <2> QED BY <1>1, <2>1
<1> QED BY <1>4, <1>5

\* Put together again, what keep_recent keeps is the end of the conversation.
LEMMA KeepRecentIs ==
  ASSUME NEW S, NEW conversation \in Seq(S), NEW budget
  PROVE  /\ SuffixOf(KeepRecent(conversation, budget), conversation)
         /\ FirstKept(conversation, budget) \in 1..(Len(conversation) + 1)
         /\ KeepRecent(conversation, budget)
              = SubSeq(conversation, FirstKept(conversation, budget), Len(conversation))
<1> DEFINE a == FirstKept(conversation, budget)
           r == TrailingResults(conversation)
           n == Len(conversation)
<1>1. n \in Nat /\ r \in 1..(n + 1) /\ a \in 1..r
  BY TrailingIs, FirstKeptIs
<1>2. KeepRecent(conversation, budget)
        = SubSeq(conversation, a, r - 1) \o SubSeq(conversation, r, n)
  BY DEF KeepRecent
<1> HIDE DEF a, r, n
<1>3. a \in 1..(n + 1) /\ r - 1 \in (a - 1)..n /\ n \in (r - 1)..n /\ (r - 1) + 1 = r
  BY <1>1
<1>4. SubSeq(conversation, a, r - 1) \o SubSeq(conversation, r, n) = SubSeq(conversation, a, n)
  BY <1>3, ConcatAdjacentSubSeq DEF n
<1> QED BY <1>2, <1>3, <1>4 DEF SuffixOf, n, a

\* There are no more orphaned results than messages kept.
LEMMA OrphansAre ==
  ASSUME NEW S, NEW kept \in Seq(S)
  PROVE  OrphanResults(kept) \in 0..Len(kept)
<1> DEFINE n == Len(kept)
           T == {i \in 0..n : i < n => ~IsTool(kept[i + 1])}
<1>1. n \in Nat
  OBVIOUS
<1> HIDE DEF n
<1>2. n \in T /\ T \subseteq Nat
  BY <1>1
<1>3. PICK k \in T : \A y \in T : k <= y
  BY <1>2, LeastElement
<1>4. \A i \in 1..k : IsTool(kept[i])
  <2> SUFFICES ASSUME NEW i \in 1..k, ~IsTool(kept[i]) PROVE FALSE
    OBVIOUS
  <2>1. i - 1 \in 0..n /\ (i - 1) + 1 = i /\ ~(k <= i - 1)
    BY <1>1, <1>3
  <2>2. i - 1 \in T
    BY <2>1
  <2> QED BY <1>3, <2>1, <2>2
<1>5. \E k0 \in 0..n : /\ \A i \in 1..k0 : IsTool(kept[i])
                       /\ k0 < n => ~IsTool(kept[k0 + 1])
  BY <1>3, <1>4
<1> QED BY <1>1, <1>5 DEF OrphanResults, n

\* The end of the end is the end.
LEMMA SuffixOfSuffix ==
  ASSUME NEW S, NEW conversation \in Seq(S), NEW kept, SuffixOf(kept, conversation),
         NEW k \in 0..Len(kept)
  PROVE  SuffixOf(SubSeq(kept, k + 1, Len(kept)), conversation)
<1> DEFINE n == Len(conversation)
<1>0. n \in Nat /\ n = Len(conversation) /\ \A i \in 1..n : conversation[i] \in S
  BY ElementOfSeq
<1> HIDE DEF n
<1>1. PICK a \in 1..(n + 1) : kept = SubSeq(conversation, a, n)
  BY <1>0 DEF SuffixOf
<1>2. /\ kept \in Seq(S) /\ Len(kept) = n - a + 1
      /\ \A i \in 1..(n - a + 1) : kept[i] = conversation[a + i - 1]
  <2>1. \A i \in a..n : conversation[i] \in S
    BY <1>0, <1>1
  <2> QED BY <1>0, <1>1, <2>1, SubSeqProperties
<1>3. a + k \in 1..(n + 1) /\ k + 1 \in Int /\ n - a + 1 \in Int /\ a + k \in Int
  BY <1>0, <1>1, <1>2
<1>4. /\ SubSeq(kept, k + 1, n - a + 1) \in Seq(S)
      /\ Len(SubSeq(kept, k + 1, n - a + 1)) = n - a + 1 - k
      /\ \A i \in 1..(n - a + 1 - k) : SubSeq(kept, k + 1, n - a + 1)[i] = kept[k + i]
  <2>1. \A i \in (k + 1)..(n - a + 1) : kept[i] \in S
    BY <1>0, <1>1, <1>2, ElementOfSeq
  <2>2. \A i \in 1..(n - a + 1 - k) : (k + 1) + i - 1 = k + i
    BY <1>3
  <2>3. k + 1 <= n - a + 1 \/ n - a + 1 = k
    BY <1>0, <1>1, <1>2
  <2> QED BY <1>0, <1>1, <1>2, <1>3, <2>1, <2>2, <2>3, SubSeqProperties
<1>5. /\ SubSeq(conversation, a + k, n) \in Seq(S)
      /\ Len(SubSeq(conversation, a + k, n)) = n - a + 1 - k
      /\ \A i \in 1..(n - a + 1 - k) : SubSeq(conversation, a + k, n)[i] = conversation[a + k + i - 1]
  <2>1. \A i \in (a + k)..n : conversation[i] \in S
    BY <1>0, <1>3
  <2>2. n - (a + k) + 1 = n - a + 1 - k /\ (a + k <= n \/ n - a + 1 - k = 0)
    BY <1>0, <1>1, <1>2, <1>3
  <2>3. n \in Int /\ a + k \in Int
    BY <1>0, <1>3
  <2>4. /\ SubSeq(conversation, a + k, n) \in Seq(S)
        /\ Len(SubSeq(conversation, a + k, n)) = IF a + k <= n THEN n - (a + k) + 1 ELSE 0
        /\ \A i \in 1..(n - (a + k) + 1) :
             SubSeq(conversation, a + k, n)[i] = conversation[(a + k) + i - 1]
    BY <2>1, <2>3, SubSeqProperties
  <2> QED BY <2>2, <2>4
<1>6. \A i \in 1..(n - a + 1 - k) : kept[k + i] = conversation[a + k + i - 1]
  <2> TAKE i \in 1..(n - a + 1 - k)
  <2>1. k + i \in 1..(n - a + 1) /\ a + (k + i) - 1 = a + k + i - 1
    BY <1>0, <1>1, <1>2
  <2> QED BY <1>2, <2>1
<1>7. SubSeq(kept, k + 1, n - a + 1) = SubSeq(conversation, a + k, n)
  <2> DEFINE left == SubSeq(kept, k + 1, n - a + 1)
             right == SubSeq(conversation, a + k, n)
             m == n - a + 1 - k
  <2>1. left \in Seq(S) /\ right \in Seq(S) /\ Len(left) = m /\ Len(right) = m
    BY <1>4, <1>5
  <2>2. \A i \in 1..m : left[i] = right[i]
    <3> TAKE i \in 1..m
    <3>1. left[i] = kept[k + i]
      BY <1>4
    <3>2. right[i] = conversation[a + k + i - 1]
      BY <1>5
    <3>3. kept[k + i] = conversation[a + k + i - 1]
      BY <1>6
    <3> QED BY <3>1, <3>2, <3>3
  <2> HIDE DEF left, right, m
  <2>3. \A i \in 1..Len(left) : left[i] = right[i]
    BY <2>1, <2>2
  <2>4. left = right
    BY <2>1, <2>3, SeqEqual
  <2> QED BY <2>4 DEF left, right
<1> QED BY <1>0, <1>2, <1>3, <1>7 DEF SuffixOf

\* There is a place behind the anchor and its tool results.
LEMMA SplitExists ==
  ASSUME NEW S, NEW conversation \in Seq(S), NEW anchor \in 0..Len(conversation)
  PROVE  LET n == Len(conversation)
         IN  \E i \in anchor..n : /\ \A j \in (anchor + 1)..i : IsTool(conversation[j])
                                  /\ i < n => ~IsTool(conversation[i + 1])
<1> DEFINE n == Len(conversation)
           T == {i \in anchor..n : i < n => ~IsTool(conversation[i + 1])}
<1>0. n \in Nat /\ n = Len(conversation)
  OBVIOUS
<1> HIDE DEF n
<1>1. n \in T /\ T \subseteq Nat /\ anchor \in Nat
  BY <1>0
<1>2. PICK k \in T : \A y \in T : k <= y
  BY <1>1, LeastElement
<1>3. \A j \in (anchor + 1)..k : IsTool(conversation[j])
  <2> SUFFICES ASSUME NEW j \in (anchor + 1)..k, ~IsTool(conversation[j]) PROVE FALSE
    OBVIOUS
  <2>1. j - 1 \in anchor..n /\ (j - 1) + 1 = j /\ ~(k <= j - 1)
    BY <1>0, <1>1, <1>2
  <2>2. j - 1 \in T
    BY <2>1
  <2> QED BY <1>2, <2>1, <2>2
<1> QED BY <1>0, <1>2, <1>3

(***************************************************************************)
(* Whichever way a conversation is cut, what is kept is its end: nothing   *)
(* is missing in the middle, nothing is kept twice or in another order     *)
(* (prepare_compaction and split_after_usage_anchor).                      *)
(***************************************************************************)
THEOREM CutKeepsSuffix ==
  ASSUME NEW S, NEW conversation \in Seq(S), NEW budget, NEW anchor \in 0..Len(conversation)
  PROVE  SuffixOf(Cut(conversation, budget, anchor).keep, conversation)
<1> DEFINE n == Len(conversation)
<1>0. n \in Nat /\ n = Len(conversation)
  OBVIOUS
<1> HIDE DEF n
<1>1. SuffixOf(PrepareCompaction(conversation, budget).keep, conversation)
  <2>1. SuffixOf(conversation, conversation)
    <3>1. conversation = SubSeq(conversation, 1, n)
      BY <1>0, SubSeqFull
    <3>2. 1 \in 1..(n + 1)
      BY <1>0
    <3> QED BY <1>0, <3>1, <3>2 DEF SuffixOf
  <2>2. SuffixOf(KeepRecent(conversation, budget), conversation)
    BY KeepRecentIs
  <2>3. KeepRecent(conversation, budget) \in Seq(S)
    <3>1. PICK a \in 1..(n + 1) : KeepRecent(conversation, budget) = SubSeq(conversation, a, n)
      BY <1>0, <2>2 DEF SuffixOf
    <3>2. \A i \in a..n : conversation[i] \in S
      BY <1>0, <3>1
    <3> QED BY <1>0, <3>1, <3>2, SubSeqProperties
  <2>4. LET kept == KeepRecent(conversation, budget)
        IN  SuffixOf(SubSeq(kept, OrphanResults(kept) + 1, Len(kept)), conversation)
    BY <2>2, <2>3, OrphansAre, SuffixOfSuffix
  <2> QED BY <2>1, <2>4 DEF PrepareCompaction
<1>2. ASSUME anchor > 0
      PROVE  SuffixOf(SplitAfterUsageAnchor(conversation, anchor).keep, conversation)
  <2>1. PICK cut \in anchor..n : SplitAfterUsageAnchor(conversation, anchor).keep
                                   = SubSeq(conversation, cut + 1, n)
    BY <1>0, SplitExists DEF SplitAfterUsageAnchor
  <2>2. cut + 1 \in 1..(n + 1)
    BY <1>0
  <2> QED BY <1>0, <2>1, <2>2 DEF SuffixOf
<1>3. 0 \in Int /\ anchor \in Int
  OBVIOUS
<1> QED BY <1>1, <1>2 DEF Cut

(***************************************************************************)
(* A cut loses nothing: what is to be summarized and what is kept are,     *)
(* one behind the other, the conversation, with the tool results that were *)
(* held back or moved over where they were (prepare_compaction and         *)
(* split_after_usage_anchor).                                              *)
(***************************************************************************)
THEOREM CutLosesNothing ==
  ASSUME NEW S, NEW conversation \in Seq(S), NEW budget, NEW anchor \in 0..Len(conversation)
  PROVE  LET cut == Cut(conversation, budget, anchor)
         IN  /\ cut.to_summarize \in Seq(S) /\ cut.keep \in Seq(S)
             /\ cut.to_summarize \o cut.keep = conversation
<1> DEFINE n == Len(conversation)
           prepared == PrepareCompaction(conversation, budget)
           kept == KeepRecent(conversation, budget)
           a == FirstKept(conversation, budget)
           k == OrphanResults(kept)
<1>0. n \in Nat /\ n = Len(conversation) /\ \A i \in 1..n : conversation[i] \in S
  BY ElementOfSeq
<1>1. a \in 1..(n + 1) /\ kept = SubSeq(conversation, a, n)
  BY KeepRecentIs
<1> HIDE DEF n, a
<1>2. ASSUME NEW p \in 0..n
      PROVE  /\ SubSeq(conversation, 1, p) \in Seq(S)
             /\ SubSeq(conversation, p + 1, n) \in Seq(S)
             /\ SubSeq(conversation, 1, p) \o SubSeq(conversation, p + 1, n) = conversation
  <2>1. p \in Int /\ n \in Int /\ p + 1 \in Int
    BY <1>0
  <2>2. (\A i \in 1..p : conversation[i] \in S) /\ (\A i \in (p + 1)..n : conversation[i] \in S)
    BY <1>0
  <2>3. 1 \in 1..(n + 1) /\ p \in (1 - 1)..n /\ n \in p..n
    BY <1>0
  <2>4. SubSeq(conversation, 1, p) \o SubSeq(conversation, p + 1, n) = SubSeq(conversation, 1, n)
    BY <1>0, <2>3, ConcatAdjacentSubSeq
  <2>5. SubSeq(conversation, 1, p) \in Seq(S)
    BY <2>1, <2>2, SubSeqProperties
  <2>6. SubSeq(conversation, p + 1, n) \in Seq(S)
    BY <2>1, <2>2, SubSeqProperties
  <2>7. SubSeq(conversation, 1, n) = conversation
    BY <1>0, SubSeqFull
  <2> QED BY <2>4, <2>5, <2>6, <2>7
<1>3. ASSUME EstimateTokens(conversation) <= ReserveTokens + budget
      PROVE  prepared.to_summarize = << >> /\ prepared.keep = conversation
  BY <1>3 DEF PrepareCompaction
<1>4. ASSUME ~(EstimateTokens(conversation) <= ReserveTokens + budget)
      PROVE  /\ prepared.to_summarize \in Seq(S) /\ prepared.keep \in Seq(S)
             /\ prepared.to_summarize \o prepared.keep = conversation
  <2> DEFINE b == SubSeq(conversation, 1, a - 1)
             x == SubSeq(kept, 1, k)
             y == SubSeq(kept, k + 1, Len(kept))
  <2>1. prepared.to_summarize = b \o x /\ prepared.keep = y
    BY <1>4 DEF PrepareCompaction, a
  <2>2. a - 1 \in 0..n /\ (a - 1) + 1 = a
    BY <1>0, <1>1
  <2>3. b \in Seq(S) /\ kept \in Seq(S) /\ b \o kept = conversation
    BY <1>1, <1>2, <2>2
  <2> HIDE DEF kept
  <2>4. k \in 0..Len(kept) /\ Len(kept) \in Nat /\ \A i \in 1..Len(kept) : kept[i] \in S
    BY <2>3, OrphansAre, ElementOfSeq
  <2> HIDE DEF k
  <2>5. x \in Seq(S) /\ y \in Seq(S) /\ x \o y = kept
    <3>1. k \in Int /\ Len(kept) \in Int /\ k + 1 \in Int
      BY <2>4
    <3>2. (\A i \in 1..k : kept[i] \in S) /\ (\A i \in (k + 1)..Len(kept) : kept[i] \in S)
      BY <2>4
    <3>3. 1 \in 1..(Len(kept) + 1) /\ k \in (1 - 1)..Len(kept) /\ Len(kept) \in k..Len(kept)
      BY <2>4
    <3>4. x \o y = SubSeq(kept, 1, Len(kept))
      BY <2>3, <3>3, ConcatAdjacentSubSeq
    <3>5. SubSeq(kept, 1, Len(kept)) = kept
      BY <2>3, SubSeqFull
    <3>6. x \in Seq(S)
      BY <3>1, <3>2, SubSeqProperties
    <3>7. y \in Seq(S)
      BY <3>1, <3>2, SubSeqProperties
    <3> QED BY <3>4, <3>5, <3>6, <3>7
  <2> HIDE DEF b, x, y
  <2>6. (b \o x) \o y = b \o (x \o y)
    <3> DEFINE regroup(s, t, u) == (s \o t) \o u = s \o (t \o u)
    <3>1. \A T : \A s, t, u \in Seq(T) : regroup(s, t, u)
      BY ConcatAssociative, Zenon
    <3> HIDE DEF regroup
    <3>2. regroup(b, x, y)
      BY <2>3, <2>5, <3>1, Zenon
    <3> QED BY <3>2 DEF regroup
  <2>7. b \o x \in Seq(S)
    BY <2>3, <2>5, ConcatProperties
  <2> QED BY <2>1, <2>3, <2>5, <2>6, <2>7
<1>5. ASSUME anchor > 0
      PROVE  LET split == SplitAfterUsageAnchor(conversation, anchor)
             IN  /\ split.to_summarize \in Seq(S) /\ split.keep \in Seq(S)
                 /\ split.to_summarize \o split.keep = conversation
  <2>1. PICK p \in 0..n :
          SplitAfterUsageAnchor(conversation, anchor)
            = [to_summarize |-> SubSeq(conversation, 1, p), keep |-> SubSeq(conversation, p + 1, n)]
    <3>1. anchor \in 0..Len(conversation)
      OBVIOUS
    <3>2. \E i \in anchor..n : /\ \A j \in (anchor + 1)..i : IsTool(conversation[j])
                               /\ i < n => ~IsTool(conversation[i + 1])
      BY <1>0, <3>1, SplitExists
    <3> DEFINE fits(i) == /\ \A j \in (anchor + 1)..i : IsTool(conversation[j])
                          /\ i < n => ~IsTool(conversation[i + 1])
               p == CHOOSE i \in anchor..n : fits(i)
    <3>3. p \in anchor..n
      <4> HIDE DEF fits
      <4> QED BY <3>2 DEF fits
    <3>4. SplitAfterUsageAnchor(conversation, anchor)
            = [to_summarize |-> SubSeq(conversation, 1, p), keep |-> SubSeq(conversation, p + 1, n)]
      BY <1>0 DEF SplitAfterUsageAnchor
    <3> HIDE DEF p
    <3>5. p \in 0..n
      BY <1>0, <3>1, <3>3
    <3> QED BY <3>4, <3>5
  <2> DEFINE split == SplitAfterUsageAnchor(conversation, anchor)
  <2>2. split = [to_summarize |-> SubSeq(conversation, 1, p),
                 keep |-> SubSeq(conversation, p + 1, n)]
    BY <2>1
  <2> HIDE DEF split
  <2>3. /\ split.to_summarize \in Seq(S) /\ split.keep \in Seq(S)
        /\ split.to_summarize \o split.keep = conversation
    BY <1>2, <2>2
  <2> QED BY <2>3 DEF split
<1> HIDE DEF prepared
<1>6. /\ prepared.to_summarize \in Seq(S) /\ prepared.keep \in Seq(S)
      /\ prepared.to_summarize \o prepared.keep = conversation
  BY <1>3, <1>4, EmptySeq, ConcatEmptySeq
<1> QED BY <1>5, <1>6 DEF Cut, prepared

\* The end of a conversation in which every call is answered is one.
LEMMA SuffixAnswered ==
  ASSUME NEW S, NEW conversation \in Seq(S), CallsAnswered(conversation),
         NEW kept, SuffixOf(kept, conversation),
         \A i \in DOMAIN conversation : conversation[i].calls \in Nat
  PROVE  kept \in Seq(S) /\ CallsAnswered(kept)
<1> DEFINE n == Len(conversation)
<1>0. n \in Nat /\ n = Len(conversation) /\ DOMAIN conversation = 1..n
      /\ \A i \in 1..n : conversation[i] \in S
  BY ElementOfSeq
<1> HIDE DEF n
<1>1. PICK a \in 1..(n + 1) : kept = SubSeq(conversation, a, n)
  BY <1>0 DEF SuffixOf
<1>2. /\ kept \in Seq(S) /\ Len(kept) = n - a + 1
      /\ \A i \in 1..(n - a + 1) : kept[i] = conversation[a + i - 1]
  <2>1. \A i \in a..n : conversation[i] \in S
    BY <1>0, <1>1
  <2> QED BY <1>0, <1>1, <2>1, SubSeqProperties
<1>3. DOMAIN kept = 1..(n - a + 1)
  BY <1>2, LenProperties
<1>4. ASSUME NEW i \in DOMAIN kept, MakesCalls(kept[i]), NEW c \in 1..kept[i].calls
      PROVE  i + c <= Len(kept) /\ IsTool(kept[i + c]) /\ kept[i + c].calls = c
  <2>0. PICK j \in Int : j = a + i - 1
    BY <1>0, <1>1, <1>3
  <2>1. /\ i \in 1..(n - a + 1) /\ kept[i] = conversation[j] /\ j \in DOMAIN conversation
        /\ j \in Nat
    BY <1>0, <1>1, <1>2, <1>3, <1>4, <2>0
  <2>2. c \in Nat
    BY <1>0, <1>4, <2>1
  <2>3. j + c <= n /\ IsTool(conversation[j + c]) /\ conversation[j + c].calls = c
    BY <1>0, <1>4, <2>1 DEF CallsAnswered
  <2>4. i + c \in 1..(n - a + 1) /\ a + (i + c) - 1 = j + c
    <3>1. i \in 1..(n - a + 1) /\ j + c <= n /\ a \in Nat /\ i \in Nat
      BY <1>0, <1>1, <2>1, <2>3
    <3> QED BY <1>0, <2>0, <2>2, <3>1
  <2> QED BY <1>2, <2>3, <2>4
<1> QED BY <1>2, <1>4 DEF CallsAnswered

(***************************************************************************)
(* Messages of a conversation.                                             *)
(***************************************************************************)
LEMMA MessageIs ==
  ASSUME NEW role \in Roles, NEW calls \in Nat, NEW tokens \in Nat
  PROVE  /\ Message(role, calls, tokens) \in Messages
         /\ Message(role, calls, tokens).role = role
         /\ Message(role, calls, tokens).calls = calls
BY DEF Message, Messages, NoId

\* The results of a tool turn.
Results(calls, tokens) == [c \in 1..calls |-> Message("tool", c, tokens)]

\* They answer the calls in order.
LEMMA ResultsAre ==
  ASSUME NEW calls \in Nat, NEW t \in Nat, NEW r \in Nat
  PROVE  /\ Results(calls, r) \in Seq(Messages) /\ Len(Results(calls, r)) = calls
         /\ \A c \in 1..calls : IsTool(Results(calls, r)[c]) /\ Results(calls, r)[c].calls = c
<1>1. \A c \in 1..calls : /\ Message("tool", c, r) \in Messages
                          /\ Message("tool", c, r).role = "tool"
                          /\ Message("tool", c, r).calls = c
  <2> TAKE c \in 1..calls
  <2>1. "tool" \in Roles /\ c \in Nat /\ 1 \in Nat
    BY DEF Roles
  <2> QED BY <2>1, MessageIs
<1>2. Results(calls, r) \in [1..calls -> Messages]
  BY <1>1 DEF Results
<1>3. \A c \in 1..calls : Results(calls, r)[c] = Message("tool", c, r)
  BY DEF Results
<1>4. Results(calls, r) \in Seq(Messages) /\ Len(Results(calls, r)) = calls
  BY <1>2
<1> QED BY <1>1, <1>3, <1>4 DEF IsTool

\* A conversation without calls, and one behind the other.
LEMMA QuietAnswered ==
  ASSUME NEW s, \A i \in DOMAIN s : ~MakesCalls(s[i])
  PROVE  CallsAnswered(s)
BY DEF CallsAnswered

\* One conversation behind another.
LEMMA ConcatAnswered ==
  ASSUME NEW s \in Seq(Messages), NEW t \in Seq(Messages),
         CallsAnswered(s), CallsAnswered(t)
  PROVE  s \o t \in Seq(Messages) /\ CallsAnswered(s \o t)
<1>1. /\ s \o t \in Seq(Messages) /\ Len(s \o t) = Len(s) + Len(t)
      /\ \A i \in 1..Len(s) + Len(t) :
            (s \o t)[i] = IF i <= Len(s) THEN s[i] ELSE t[i - Len(s)]
      /\ DOMAIN (s \o t) = 1..(Len(s) + Len(t)) /\ Len(s) \in Nat /\ Len(t) \in Nat
      /\ DOMAIN s = 1..Len(s) /\ DOMAIN t = 1..Len(t)
  BY ConcatProperties, LenProperties
<1>2. \A i \in 1..Len(s) : s[i].calls \in Nat
  <2> TAKE i \in 1..Len(s)
  <2>1. s[i] \in Messages
    BY ElementOfSeq
  <2> QED BY <2>1 DEF Messages
<1>3. \A i \in 1..Len(t) : t[i].calls \in Nat
  <2> TAKE i \in 1..Len(t)
  <2>1. t[i] \in Messages
    BY ElementOfSeq
  <2> QED BY <2>1 DEF Messages
<1>4. ASSUME NEW i \in 1..(Len(s) + Len(t)), MakesCalls((s \o t)[i]),
             NEW c \in 1..(s \o t)[i].calls
      PROVE  /\ i + c <= Len(s \o t)
             /\ IsTool((s \o t)[i + c]) /\ (s \o t)[i + c].calls = c
  <2>1. CASE i <= Len(s)
    <3>1. i \in 1..Len(s) /\ (s \o t)[i] = s[i]
      BY <1>1, <2>1
    <3>2. c \in Nat /\ s[i].calls \in Nat
      BY <1>2, <1>4, <3>1
    <3>3. i + c <= Len(s) /\ IsTool(s[i + c]) /\ s[i + c].calls = c
      BY <1>1, <1>4, <3>1 DEF CallsAnswered
    <3>4. i + c \in 1..(Len(s) + Len(t)) /\ i + c <= Len(s) + Len(t)
      BY <1>1, <3>1, <3>2, <3>3
    <3> QED BY <1>1, <3>3, <3>4
  <2>2. CASE ~(i <= Len(s))
    <3>1. i - Len(s) \in 1..Len(t) /\ (s \o t)[i] = t[i - Len(s)]
      BY <1>1, <2>2
    <3>2. c \in Nat /\ c >= 1
      BY <1>3, <1>4, <3>1
    <3>3. /\ (i - Len(s)) + c <= Len(t) /\ IsTool(t[(i - Len(s)) + c])
          /\ t[(i - Len(s)) + c].calls = c
      BY <1>1, <1>4, <3>1 DEF CallsAnswered
    <3>4. /\ i + c \in 1..(Len(s) + Len(t)) /\ i + c <= Len(s) + Len(t)
          /\ ~(i + c <= Len(s)) /\ (i + c) - Len(s) = (i - Len(s)) + c
      BY <1>1, <2>2, <3>1, <3>2, <3>3
    <3> QED BY <1>1, <3>3, <3>4
  <2> QED BY <2>1, <2>2
<1> QED BY <1>1, <1>4 DEF CallsAnswered

\* An assistant message and the results of its calls.
LEMMA ToolTurnAnswered ==
  ASSUME NEW calls \in Nat, NEW t \in Nat, NEW r \in Nat
  PROVE  LET s == <<Message("assistant", calls, t)>> \o Results(calls, r)
         IN  s \in Seq(Messages) /\ CallsAnswered(s)
<1> DEFINE a == Message("assistant", calls, t)
           s == <<a>> \o Results(calls, r)
<1>1. a \in Messages /\ a.calls = calls
  <2>1. "assistant" \in Roles /\ 1 \in Nat
    BY DEF Roles
  <2> QED BY <2>1, MessageIs
<1> HIDE DEF a
<1>2. /\ <<a>> \in Seq(Messages) /\ Len(<<a>>) = 1 /\ <<a>>[1] = a
      /\ Results(calls, r) \in Seq(Messages) /\ Len(Results(calls, r)) = calls
      /\ \A c \in 1..calls : IsTool(Results(calls, r)[c]) /\ Results(calls, r)[c].calls = c
  BY <1>1, ResultsAre
<1> HIDE DEF Results
<1>3. /\ s \in Seq(Messages) /\ Len(s) = 1 + calls
      /\ \A i \in 1..(1 + calls) : s[i] = IF i <= 1 THEN <<a>>[i] ELSE Results(calls, r)[i - 1]
  BY <1>2, ConcatProperties
<1>4. DOMAIN s = 1..(1 + calls)
  BY <1>3, LenProperties
<1>5. s[1] = a /\ \A c \in 1..calls : s[1 + c] = Results(calls, r)[c]
  <2>1. 1 \in 1..(1 + calls) /\ 1 <= 1
    OBVIOUS
  <2>2. ASSUME NEW c \in 1..calls PROVE s[1 + c] = Results(calls, r)[c]
    <3>1. 1 + c \in 1..(1 + calls) /\ ~(1 + c <= 1) /\ (1 + c) - 1 = c
      OBVIOUS
    <3> QED BY <1>3, <3>1
  <2> QED BY <1>2, <1>3, <2>1, <2>2
<1> HIDE DEF s
<1>6. ASSUME NEW i \in 1..(1 + calls), MakesCalls(s[i]) PROVE i = 1
  <2> SUFFICES ASSUME i # 1 PROVE FALSE
    OBVIOUS
  <2>1. i - 1 \in 1..calls /\ 1 + (i - 1) = i
    OBVIOUS
  <2>2. IsTool(s[i])
    BY <1>2, <1>5, <2>1
  <2> QED BY <1>6, <2>2 DEF IsTool, MakesCalls
<1>7. ASSUME NEW c \in 1..calls
      PROVE  1 + c <= 1 + calls /\ IsTool(s[1 + c]) /\ s[1 + c].calls = c
  BY <1>2, <1>5
<1>8. CallsAnswered(s)
  BY <1>1, <1>3, <1>4, <1>5, <1>6, <1>7 DEF CallsAnswered
<1> QED BY <1>3, <1>8 DEF s, a

\* A summary and the end of a conversation.
LEMMA CompactedIs ==
  ASSUME NEW conversation \in Seq(Messages), NEW budget, NEW anchor \in 0..Len(conversation)
  PROVE  /\ Compacted(Cut(conversation, budget, anchor)) \in Seq(Messages)
         /\ CallsAnswered(conversation) =>
              CallsAnswered(Compacted(Cut(conversation, budget, anchor)))
<1> DEFINE kept == Cut(conversation, budget, anchor).keep
           s == Message("summary", 0, 1)
           n == Len(conversation)
<1>0. n \in Nat /\ n = Len(conversation)
  OBVIOUS
<1>1. SuffixOf(kept, conversation)
  BY CutKeepsSuffix
<1>2. \A i \in DOMAIN conversation : conversation[i] \in Messages
  BY ElementOfSeq, LenProperties
<1>3. \A i \in DOMAIN conversation : conversation[i].calls \in Nat
  BY <1>2 DEF Messages
<1>4. Compacted(Cut(conversation, budget, anchor)) = <<s>> \o kept
  BY DEF Compacted
<1> HIDE DEF kept, n
<1>5. kept \in Seq(Messages)
  <2>1. PICK a \in 1..(n + 1) : kept = SubSeq(conversation, a, n)
    BY <1>0, <1>1 DEF SuffixOf
  <2>2. \A i \in a..n : conversation[i] \in Messages
    BY <1>0, <2>1, ElementOfSeq
  <2> QED BY <1>0, <2>1, <2>2, SubSeqProperties
<1>6. CallsAnswered(conversation) => CallsAnswered(kept)
  BY <1>1, <1>3, SuffixAnswered
<1>7. s \in Messages /\ ~MakesCalls(s)
  <2>1. "summary" \in Roles /\ 0 \in Nat /\ 1 \in Nat
    BY DEF Roles
  <2> QED BY <2>1, MessageIs DEF MakesCalls
<1> HIDE DEF s
<1>8. <<s>> \in Seq(Messages) /\ CallsAnswered(<<s>>)
  <2>1. DOMAIN <<s>> = {1} /\ <<s>>[1] = s
    OBVIOUS
  <2> QED BY <1>7, <2>1, QuietAnswered
<1>9. <<s>> \o kept \in Seq(Messages)
  BY <1>5, <1>8, ConcatProperties
<1> QED BY <1>4, <1>5, <1>6, <1>8, <1>9, ConcatAnswered

\* One more message that makes no calls.
LEMMA AppendQuiet ==
  ASSUME NEW s \in Seq(Messages), CallsAnswered(s), NEW m \in Messages, ~MakesCalls(m)
  PROVE  /\ Append(s, m) \in Seq(Messages) /\ CallsAnswered(Append(s, m))
         /\ <<m>> \in Seq(Messages) /\ CallsAnswered(<<m>>)
<1>1. <<m>> \in Seq(Messages)
  OBVIOUS
<1>2. CallsAnswered(<<m>>)
  <2>1. DOMAIN <<m>> = {1} /\ <<m>>[1] = m
    OBVIOUS
  <2> QED BY <2>1, QuietAnswered
<1>3. Append(s, m) = s \o <<m>>
  BY AppendIsConcat
<1> QED BY <1>1, <1>2, <1>3, ConcatAnswered

\* The results put behind the message that waits for them.
LEMMA ResultsAnswer ==
  ASSUME NEW earlier \in Seq(Messages), CallsAnswered(earlier), NEW calls \in Nat,
         NEW t \in Nat, NEW r \in Nat
  PROVE  CallsAnswered(Append(earlier, Message("assistant", calls, t)) \o Results(calls, r))
<1> DEFINE a == Message("assistant", calls, t)
<1>1. a \in Messages
  BY MessageIs DEF Roles
<1>2. <<a>> \o Results(calls, r) \in Seq(Messages) /\ CallsAnswered(<<a>> \o Results(calls, r))
  BY ToolTurnAnswered
<1>3. Results(calls, r) \in Seq(Messages)
  BY ResultsAre
<1> HIDE DEF a, Results
<1>4. Append(earlier, a) = earlier \o <<a>> /\ <<a>> \in Seq(Messages)
  BY <1>1, AppendIsConcat
<1>5. ASSUME NEW u \in Seq(Messages), NEW v \in Seq(Messages)
      PROVE  (earlier \o u) \o v = earlier \o (u \o v)
  BY ConcatAssociative
<1>6. (earlier \o <<a>>) \o Results(calls, r) = earlier \o (<<a>> \o Results(calls, r))
  BY <1>3, <1>4, <1>5, Zenon
<1>7. CallsAnswered(earlier \o (<<a>> \o Results(calls, r)))
  BY <1>2, ConcatAnswered
<1> QED BY <1>4, <1>6, <1>7 DEF a

=============================================================================
