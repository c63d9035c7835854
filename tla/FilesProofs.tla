----------------------------- MODULE FilesProofs -----------------------------
(***************************************************************************)
(* Theorems about the algorithms on files and on results: for texts and    *)
(* trees of any size, compute_edit_span finds the change between two texts *)
(* with the points of its ends, and collect_chunks the candidates of a     *)
(* tree with the comments above them; for any loaded chunks and lists of   *)
(* any length, a search answers what the lists name, fused as both of them *)
(* rank it.                                                                *)
(*                                                                         *)
(* What a recursive function says of every argument is proved by its least *)
(* counterexample, and a recursive function is the one that fits its       *)
(* equation.                                                               *)
(***************************************************************************)
EXTENDS Chunking, Ranking, SequenceTheorems, FiniteSetTheorems, TLAPS

(* A set of naturals has a least element.                                   *)
LEMMA LeastNatural ==
    ASSUME NEW S \in SUBSET Nat, S # {}
    PROVE  \E m \in S : \A k \in S : m <= k
<1>1. IsWellFoundedOn(OpToRel(<, Nat), Nat)
  BY NatLessThanWellFounded
<1>2. PICK m \in S : \A k \in S : ~(<<k, m>> \in OpToRel(<, Nat))
  BY <1>1, WFMin
<1>3. \A k \in S : ~(k < m)
  BY <1>2 DEF OpToRel
<1> QED  BY <1>3

(* A set of positive naturals that are bounded has a greatest element.      *)
LEMMA GreatestBelow ==
    ASSUME NEW n \in Nat, NEW S \in SUBSET (1..n), S # {}
    PROVE  \E m \in S : \A k \in S : k <= m
<1> DEFINE T == {j \in Nat : \E k \in S : j = n - k}
<1>1. T \in SUBSET Nat /\ T # {}
  <2>1. PICK k \in S : TRUE
    OBVIOUS
  <2>2. n - k \in T
    BY <2>1
  <2> QED  BY <2>2
<1>2. PICK j \in T : \A k \in T : j <= k
  BY <1>1, LeastNatural
<1>3. PICK m \in S : j = n - m
  BY <1>2
<1>4. \A k \in S : n - k \in T
  OBVIOUS
<1> QED  BY <1>2, <1>3, <1>4

(* Between a natural and its successor there is no other.                   *)
LEMMA OneBelow ==
    ASSUME NEW a \in Nat, NEW b \in Nat, NEW c \in Nat, a < b, b <= c, c <= a + 1
    PROVE  a = b - 1
OBVIOUS

(* Min is the least element.                                                *)
LEMMA MinIsLeast ==
    ASSUME NEW S \in SUBSET Nat, S # {}
    PROVE  Min(S) \in S /\ \A k \in S : Min(S) <= k
BY LeastNatural DEF Min

(* Max is the greatest element.                                             *)
LEMMA MaxIsGreatest ==
    ASSUME NEW n \in Nat, NEW S \in SUBSET (1..n), S # {}
    PROVE  Max(S) \in S /\ \A k \in S : k <= Max(S)
BY GreatestBelow DEF Max

-----------------------------------------------------------------------------
(* The span of an edit *)

(* Texts are sequences, and equal when their bytes are.                     *)
LEMMA TextIsSeq ==
    ASSUME NEW t \in Texts
    PROVE  /\ t \in Seq(Bytes) /\ Len(t) \in Nat /\ Len(t) \in 0..MaxLen
           /\ t = [i \in 1..Len(t) |-> t[i]]
<1>1. PICK n \in 0..MaxLen : t \in [1..n -> Bytes]
  BY DEF Texts
<1>2. n \in Nat
  BY <1>1, EditAssumption
<1>3. t \in Seq(Bytes) /\ Len(t) = n
  BY <1>1, <1>2
<1> QED  BY <1>1, <1>2, <1>3

(* Texts of one length with the same bytes are the same.                    *)
LEMMA SameTexts ==
    ASSUME NEW s \in Texts, NEW t \in Texts, Len(s) = Len(t),
           \A i \in 1..Len(s) : s[i] = t[i]
    PROVE  s = t
BY TextIsSeq

(* The comparison starts with nothing taken off the texts.                  *)
LEMMA InitEstablishes == Init => EditInv
<1> SUFFICES ASSUME Init PROVE EditInv
  OBVIOUS
<1>1. /\ Len(old) \in Nat /\ Len(old) \in 0..MaxLen
      /\ Len(new) \in Nat /\ Len(new) \in 0..MaxLen
  BY TextIsSeq DEF Init
<1>2. TypeOK
  BY <1>1, EditAssumption DEF Init, TypeOK
<1>3. CommonEnds /\ Progress
  BY <1>1 DEF Init, CommonEnds, Progress
<1> QED  BY <1>2, <1>3 DEF EditInv

(* A byte more at the start or at the end, and the end of either loop,      *)
(* keeps what was taken off common to both texts.                           *)
LEMMA StepPreserves ==
    ASSUME EditInv, [Next]_vars
    PROVE  EditInv'
<1>1. /\ TypeOK /\ CommonEnds /\ Progress
      /\ Len(old) \in 0..MaxLen /\ Len(new) \in 0..MaxLen
      /\ prefix \in Nat /\ oldSuffix \in Nat /\ newSuffix \in Nat /\ MaxLen \in Nat
      /\ Len(old) \in Nat /\ Len(new) \in Nat
  BY TextIsSeq, EditAssumption DEF EditInv, TypeOK
<1>2. CASE ExtendPrefix
  <2>1. TypeOK'
    BY <1>1, <1>2 DEF ExtendPrefix, InPrefix, TypeOK
  <2>2. CommonEnds'
    <3>1. \A i \in 1..prefix' : i \in 1..prefix \/ i = prefix + 1
      BY <1>1, <1>2 DEF ExtendPrefix
    <3> QED  BY <1>1, <1>2, <3>1 DEF ExtendPrefix, InPrefix, CommonEnds, Progress
  <2>3. Progress'
    BY <1>1, <1>2 DEF ExtendPrefix, Progress
  <2> QED  BY <2>1, <2>2, <2>3 DEF EditInv
<1>3. CASE EndPrefix
  <2>1. TypeOK' /\ CommonEnds'
    BY <1>1, <1>3 DEF EndPrefix, TypeOK, CommonEnds
  <2>2. prefix = Len(old) \/ prefix = Len(new) \/ old[prefix + 1] # new[prefix + 1]
    BY <1>1, <1>3 DEF EndPrefix, InPrefix, CommonEnds
  <2> QED  BY <1>3, <2>1, <2>2 DEF EndPrefix, Progress, EditInv
<1>4. CASE ExtendSuffix
  <2>1. TypeOK'
    BY <1>1, <1>4 DEF ExtendSuffix, InSuffix, TypeOK
  <2>2. CommonEnds'
    <3>1. /\ oldSuffix' = oldSuffix - 1 /\ newSuffix' = newSuffix - 1
          /\ UNCHANGED <<old, new, prefix>>
          /\ prefix < oldSuffix /\ prefix < newSuffix /\ old[oldSuffix] = new[newSuffix]
      BY <1>1, <1>4 DEF ExtendSuffix, InSuffix
    <3>2. Len(old') - oldSuffix' = Len(new') - newSuffix'
      BY <1>1, <3>1 DEF CommonEnds
    <3>3. ASSUME NEW k \in 1..(Len(old') - oldSuffix')
          PROVE  old'[oldSuffix' + k] = new'[newSuffix' + k]
      <4>1. CASE k = 1
        BY <1>1, <3>1, <4>1
      <4>2. CASE k # 1
        <5>1. k - 1 \in 1..(Len(old) - oldSuffix)
          BY <1>1, <3>1, <4>2
        <5>2. old[oldSuffix + (k - 1)] = new[newSuffix + (k - 1)]
          BY <1>1, <5>1 DEF CommonEnds
        <5>3. oldSuffix' + k = oldSuffix + (k - 1) /\ newSuffix' + k = newSuffix + (k - 1)
          BY <1>1, <3>1
        <5> QED  BY <3>1, <5>2, <5>3
      <4> QED  BY <4>1, <4>2
    <3> QED  BY <1>1, <3>1, <3>2, <3>3 DEF CommonEnds
  <2>3. Progress'
    BY <1>1, <1>4 DEF ExtendSuffix, Progress
  <2> QED  BY <2>1, <2>2, <2>3 DEF EditInv
<1>5. CASE EndSuffix
  <2>1. TypeOK' /\ CommonEnds'
    BY <1>1, <1>5 DEF EndSuffix, TypeOK, CommonEnds
  <2>2. Progress'
    BY <1>1, <1>5 DEF EndSuffix, Progress, InSuffix
  <2> QED  BY <2>1, <2>2 DEF EditInv
<1>6. CASE UNCHANGED vars
  BY <1>1, <1>6 DEF vars, EditInv, TypeOK, CommonEnds, Progress, InSuffix
<1> QED  BY <1>2, <1>3, <1>4, <1>5, <1>6 DEF Next

(* The inductive invariant of the search for the span.                      *)
THEOREM EditInvariant == Spec => []EditInv
BY InitEstablishes, StepPreserves, PTL DEF Spec

(* The span is the smallest: were both of its sides empty, the texts would  *)
(* be the same.                                                             *)
THEOREM SpanMinimal == Spec => []SpanIsMinimal
<1>1. EditInv => SpanIsMinimal
  <2> SUFFICES ASSUME EditInv, pc = "done" PROVE SpanIsMinimal
    BY DEF SpanIsMinimal
  <2>1. /\ TypeOK /\ CommonEnds /\ Progress /\ ~InSuffix
        /\ prefix \in Nat /\ oldSuffix \in Nat /\ newSuffix \in Nat
        /\ Len(old) \in Nat /\ Len(new) \in Nat
    BY TextIsSeq, EditAssumption DEF EditInv, TypeOK, Progress
  <2>2. prefix < oldSuffix \/ prefix < newSuffix
    <3> SUFFICES ASSUME prefix = oldSuffix, prefix = newSuffix PROVE FALSE
      BY <2>1 DEF CommonEnds
    <3>1. Len(old) = Len(new)
      BY <2>1 DEF CommonEnds
    <3>2. ASSUME NEW i \in 1..Len(old) PROVE old[i] = new[i]
      <4>1. CASE i <= prefix
        BY <2>1, <4>1 DEF CommonEnds
      <4>2. CASE i > prefix
        <5>1. i - prefix \in 1..(Len(old) - oldSuffix)
          BY <2>1, <4>2
        <5>2. oldSuffix + (i - prefix) = i /\ newSuffix + (i - prefix) = i
          BY <2>1
        <5> QED  BY <2>1, <5>1, <5>2 DEF CommonEnds
      <4> QED  BY <2>1, <4>1, <4>2
    <3> QED  BY <2>1, <3>1, <3>2, SameTexts DEF TypeOK
  <2>3. ASSUME prefix < oldSuffix, prefix < newSuffix
        PROVE  old[prefix + 1] # new[prefix + 1] /\ old[oldSuffix] # new[newSuffix]
    BY <2>1, <2>3 DEF CommonEnds, Progress, InSuffix
  <2> QED  BY <2>2, <2>3 DEF SpanIsMinimal
<1> QED  BY <1>1, EditInvariant, PTL

(* The span is the change: the texts agree before it and after it, so that  *)
(* the old text with its span replaced by that of the new is the new text.  *)
THEOREM SpanCorrect == Spec => []SpanIsTheChange
<1>1. EditInv => SpanIsTheChange
  <2> SUFFICES ASSUME EditInv
               PROVE  new = SubSeq(old, 1, prefix) \o SubSeq(new, prefix + 1, newSuffix)
                              \o SubSeq(old, oldSuffix + 1, Len(old))
    BY DEF SpanIsTheChange
  <2> DEFINE head == SubSeq(old, 1, prefix)
             middle == SubSeq(new, prefix + 1, newSuffix)
             tail == SubSeq(old, oldSuffix + 1, Len(old))
             all == (head \o middle) \o tail
  <2>1. /\ TypeOK /\ CommonEnds /\ old \in Seq(Bytes) /\ new \in Seq(Bytes)
        /\ prefix \in Nat /\ oldSuffix \in Nat /\ newSuffix \in Nat
        /\ Len(old) \in Nat /\ Len(new) \in Nat
    BY TextIsSeq, EditAssumption DEF EditInv, TypeOK
  <2>2. /\ head \in Seq(Bytes) /\ Len(head) = prefix
        /\ \A i \in 1..prefix : head[i] = old[i]
    BY <2>1, SubSeqProperties DEF CommonEnds
  <2>3. /\ middle \in Seq(Bytes) /\ Len(middle) = newSuffix - prefix
        /\ \A i \in 1..(newSuffix - prefix) : middle[i] = new[prefix + i]
    BY <2>1, SubSeqProperties DEF CommonEnds
  <2>4. /\ tail \in Seq(Bytes) /\ Len(tail) = Len(old) - oldSuffix
        /\ \A i \in 1..(Len(old) - oldSuffix) : tail[i] = old[oldSuffix + i]
    BY <2>1, SubSeqProperties DEF CommonEnds
  <2> HIDE DEF head, middle, tail
  <2> DEFINE front == head \o middle
  <2>5. /\ front \in Seq(Bytes) /\ Len(front) = newSuffix
        /\ \A i \in 1..newSuffix :
             front[i] = IF i <= prefix THEN head[i] ELSE middle[i - prefix]
    <3>1. prefix + (newSuffix - prefix) = newSuffix
      BY <2>1
    <3>2. /\ front \in Seq(Bytes) /\ Len(front) = Len(head) + Len(middle)
          /\ \A i \in 1..(Len(head) + Len(middle)) :
               front[i] = IF i <= Len(head) THEN head[i] ELSE middle[i - Len(head)]
      BY <2>2, <2>3, ConcatProperties
    <3>3. Len(head) = prefix /\ Len(head) + Len(middle) = newSuffix
      BY <2>2, <2>3, <3>1
    <3> QED  BY <3>2, <3>3
  <2>6. all = front \o tail
    OBVIOUS
  <2> HIDE DEF front, all
  <2>7. /\ all \in Seq(Bytes) /\ Len(all) = Len(new)
        /\ \A i \in 1..Len(all) :
             all[i] = IF i <= prefix THEN head[i]
                      ELSE IF i <= newSuffix THEN middle[i - prefix]
                      ELSE tail[i - newSuffix]
    <3>1. newSuffix + (Len(old) - oldSuffix) = Len(new)
      BY <2>1 DEF CommonEnds
    <3>2. /\ all \in Seq(Bytes) /\ Len(all) = Len(new)
          /\ \A i \in 1..Len(all) :
               all[i] = IF i <= newSuffix THEN front[i] ELSE tail[i - newSuffix]
      BY <2>4, <2>5, <2>6, <3>1, ConcatProperties
    <3>3. prefix <= newSuffix /\ \A i \in 1..Len(all) : i <= newSuffix => i \in 1..newSuffix
      BY <2>1, <3>2 DEF CommonEnds
    <3> QED  BY <2>1, <2>5, <3>2, <3>3
  <2>8. ASSUME NEW i \in 1..Len(new) PROVE all[i] = new[i]
    <3>1. CASE i <= prefix
      BY <2>1, <2>2, <2>7, <3>1 DEF CommonEnds
    <3>2. CASE i > prefix /\ i <= newSuffix
      <4>1. i - prefix \in 1..(newSuffix - prefix) /\ prefix + (i - prefix) = i
        BY <2>1, <3>2
      <4> QED  BY <2>1, <2>3, <2>7, <3>2, <4>1
    <3>3. CASE i > newSuffix
      <4>1. /\ i - newSuffix \in 1..(Len(old) - oldSuffix)
            /\ newSuffix + (i - newSuffix) = i /\ ~(i <= prefix)
        BY <2>1, <3>3 DEF CommonEnds
      <4>2. all[i] = old[oldSuffix + (i - newSuffix)]
        BY <2>1, <2>4, <2>7, <3>3, <4>1
      <4> QED  BY <2>1, <4>1, <4>2 DEF CommonEnds
    <3> QED  BY <2>1, <3>1, <3>2, <3>3
  <2>9. all = new
    BY <2>1, <2>7, <2>8
  <2> QED  BY <2>9 DEF all, head, middle, tail
<1> QED  BY <1>1, EditInvariant, PTL

-----------------------------------------------------------------------------
(* The points of a span *)

(* A byte adds one newline when it is one, and none otherwise.              *)
LEMMA NewlinesGrow ==
    ASSUME NEW t, NEW n \in Nat
    PROVE  /\ Newlines(t, n) \in Nat /\ Newlines(t, 0) = 0
           /\ n > 0 => Newlines(t, n) = IF t[n] = Newline THEN Newlines(t, n - 1) + 1
                                        ELSE Newlines(t, n - 1)
<1> DEFINE At(k) == {i \in 1..k : t[i] = Newline}
<1>1. \A k \in Nat : IsFiniteSet(At(k)) /\ Cardinality(At(k)) \in Nat
  <2> TAKE k \in Nat
  <2>1. IsFiniteSet(1..k)
    BY FS_Interval
  <2>2. IsFiniteSet(At(k))
    BY <2>1, FS_Subset
  <2> QED  BY <2>2, FS_CardinalityType
<1>2. At(0) = {}
  OBVIOUS
<1>3. ASSUME n > 0, t[n] = Newline PROVE At(n) = At(n - 1) \union {n} /\ n \notin At(n - 1)
  BY <1>3
<1>4. ASSUME n > 0, t[n] # Newline PROVE At(n) = At(n - 1)
  <2>1. \A i \in 1..n : i \in 1..(n - 1) \/ i = n
    BY <1>4
  <2>2. \A i \in 1..(n - 1) : i \in 1..n
    BY <1>4
  <2> QED  BY <1>4, <2>1, <2>2
<1>5. \A k : Newlines(t, k) = Cardinality(At(k))
  BY DEF Newlines
<1> HIDE DEF At
<1>6. ASSUME n > 0, t[n] = Newline PROVE Cardinality(At(n)) = Cardinality(At(n - 1)) + 1
  <2>1. n - 1 \in Nat
    BY <1>6
  <2> QED  BY <1>1, <1>3, <1>6, <2>1, FS_AddElement
<1>7. Newlines(t, 0) = 0
  BY <1>2, <1>5, FS_EmptySet
<1>8. ASSUME n > 0
      PROVE  Newlines(t, n) = IF t[n] = Newline THEN Newlines(t, n - 1) + 1
                              ELSE Newlines(t, n - 1)
  BY <1>4, <1>5, <1>6, <1>8
<1> QED  BY <1>1, <1>5, <1>7, <1>8

(* There is exactly one byte where the line of the next byte begins.        *)
LEMMA LineBeginIs ==
    ASSUME NEW t, NEW n \in Nat
    PROVE  /\ LineBegin(t, n) \in 0..n /\ BeginsLine(t, n, LineBegin(t, n))
           /\ \A m \in 0..n : BeginsLine(t, n, m) => m = LineBegin(t, n)
<1>1. \E m \in 0..n : BeginsLine(t, n, m)
  <2> DEFINE At == {i \in 1..n : t[i] = Newline}
  <2>1. CASE At = {}
    BY <2>1 DEF BeginsLine
  <2>2. CASE At # {}
    <3>1. PICK m \in At : \A k \in At : k <= m
      BY <2>2, GreatestBelow
    <3>2. \A i \in (m + 1)..n : t[i] # Newline
      BY <3>1
    <3> QED  BY <3>1, <3>2 DEF BeginsLine
  <2> QED  BY <2>1, <2>2
<1>2. LineBegin(t, n) \in 0..n /\ BeginsLine(t, n, LineBegin(t, n))
  BY <1>1 DEF LineBegin
<1>3. ASSUME NEW k \in 0..n, NEW m \in 0..n, BeginsLine(t, n, k), BeginsLine(t, n, m)
      PROVE  ~(k < m)
  BY <1>3 DEF BeginsLine
<1>4. ASSUME NEW m \in 0..n, BeginsLine(t, n, m) PROVE m = LineBegin(t, n)
  <2>1. ~(m < LineBegin(t, n)) /\ ~(LineBegin(t, n) < m)
    BY <1>2, <1>3, <1>4
  <2> QED  BY <1>2, <2>1
<1> QED  BY <1>2, <1>4

(* A line begins after a newline; any other byte stays in its line.         *)
LEMMA LineBeginMoves ==
    ASSUME NEW t, NEW n \in Nat
    PROVE  /\ LineBegin(t, 0) = 0
           /\ n > 0 => LineBegin(t, n) = IF t[n] = Newline THEN n ELSE LineBegin(t, n - 1)
<1>1. LineBegin(t, 0) = 0
  <2>1. LineBegin(t, 0) \in 0..0
    BY LineBeginIs
  <2> QED  BY <2>1
<1>2. ASSUME n > 0, t[n] = Newline PROVE LineBegin(t, n) = n
  <2>1. n \in 0..n /\ BeginsLine(t, n, n)
    BY <1>2 DEF BeginsLine
  <2> QED  BY <2>1, LineBeginIs
<1>3. ASSUME n > 0, t[n] # Newline PROVE LineBegin(t, n) = LineBegin(t, n - 1)
  <2> DEFINE m == LineBegin(t, n - 1)
  <2>1. m \in 0..(n - 1) /\ BeginsLine(t, n - 1, m)
    <3>1. n - 1 \in Nat
      BY <1>3
    <3> QED  BY <3>1, LineBeginIs
  <2> HIDE DEF m
  <2>2. \A i \in (m + 1)..n : i \in (m + 1)..(n - 1) \/ i = n
    BY <2>1
  <2>3. m \in 0..n /\ BeginsLine(t, n, m)
    BY <1>3, <2>1, <2>2 DEF BeginsLine
  <2> QED  BY <2>3, LineBeginIs DEF m
<1> QED  BY <1>1, <1>2, <1>3

(* byte_to_point counts newlines for the row, and bytes since the last of   *)
(* them for the column, for every text and number of bytes.                 *)
LEMMA PointCounts ==
    ASSUME NEW t, NEW n \in Nat
    PROVE  Point(t, n) = [row |-> Newlines(t, n), column |-> n - LineBegin(t, n)]
<1> DEFINE Fits(f) ==
             f = [i \in 0..n |->
                    IF i = 0 THEN [row |-> 0, column |-> 0]
                    ELSE IF t[i] = Newline THEN [row |-> f[i - 1].row + 1, column |-> 0]
                    ELSE [f[i - 1] EXCEPT !.column = @ + 1]]
           g == [i \in 0..n |-> [row |-> Newlines(t, i), column |-> i - LineBegin(t, i)]]
           walk == CHOOSE f : Fits(f)
<1>1. \A i \in 0..n : g[i] = [row |-> Newlines(t, i), column |-> i - LineBegin(t, i)]
  OBVIOUS
<1>2. ASSUME NEW i \in 0..n
      PROVE  g[i] = IF i = 0 THEN [row |-> 0, column |-> 0]
                    ELSE IF t[i] = Newline THEN [row |-> g[i - 1].row + 1, column |-> 0]
                    ELSE [g[i - 1] EXCEPT !.column = @ + 1]
  <2> HIDE DEF g
  <2>1. i \in Nat
    OBVIOUS
  <2>2. CASE i = 0
    <3>1. Newlines(t, 0) = 0 /\ LineBegin(t, 0) = 0
      BY NewlinesGrow, LineBeginMoves
    <3>2. g[0] = [row |-> 0, column |-> 0]
      BY <1>1, <2>2, <3>1
    <3> QED  BY <2>2, <3>2
  <2>3. CASE i # 0
    <3>1. i - 1 \in 0..n /\ i > 0 /\ i - 1 \in Nat
      BY <2>3
    <3>2. g[i - 1] = [row |-> Newlines(t, i - 1), column |-> (i - 1) - LineBegin(t, i - 1)]
      BY <1>1, <3>1
    <3>3. /\ Newlines(t, i) = IF t[i] = Newline THEN Newlines(t, i - 1) + 1
                             ELSE Newlines(t, i - 1)
          /\ LineBegin(t, i) = IF t[i] = Newline THEN i ELSE LineBegin(t, i - 1)
      BY <2>1, <3>1, NewlinesGrow, LineBeginMoves
    <3>4. LineBegin(t, i - 1) \in 0..(i - 1)
      BY <3>1, LineBeginIs
    <3>5. CASE t[i] = Newline
      <4>1. g[i] = [row |-> Newlines(t, i - 1) + 1, column |-> 0]
        BY <1>1, <2>1, <3>3, <3>5
      <4> QED  BY <2>3, <3>2, <3>5, <4>1
    <3>6. CASE t[i] # Newline
      <4>1. i - LineBegin(t, i - 1) = ((i - 1) - LineBegin(t, i - 1)) + 1
        BY <2>1, <3>4
      <4>2. g[i] = [row |-> Newlines(t, i - 1),
                    column |-> ((i - 1) - LineBegin(t, i - 1)) + 1]
        BY <1>1, <3>3, <3>6, <4>1
      <4>3. g[i] = [g[i - 1] EXCEPT !.column = @ + 1]
        BY <3>2, <4>2
      <4> QED  BY <2>3, <3>6, <4>3
    <3> QED  BY <3>5, <3>6
  <2> QED  BY <2>2, <2>3
<1>3. Fits(g)
  BY <1>2
<1>4. Fits(walk)
  <2> HIDE DEF Fits, g
  <2> QED  BY <1>3
<1>5. ASSUME NEW f, Fits(f), NEW i \in 0..n
      PROVE  f[i] = IF i = 0 THEN [row |-> 0, column |-> 0]
                    ELSE IF t[i] = Newline THEN [row |-> f[i - 1].row + 1, column |-> 0]
                    ELSE [f[i - 1] EXCEPT !.column = @ + 1]
  BY <1>5, Zenon
<1>6. \A i \in 0..n : walk[i] = g[i]
  <2> DEFINE Bad == {i \in 0..n : walk[i] # g[i]}
  <2> SUFFICES ASSUME Bad # {} PROVE FALSE
    OBVIOUS
  <2> HIDE DEF walk, g
  <2>1. PICK i \in Bad : \A k \in Bad : i <= k
    <3>1. Bad \in SUBSET Nat
      OBVIOUS
    <3> HIDE DEF Bad
    <3> QED  BY <3>1, LeastNatural
  <2>2. i \in 0..n /\ walk[i] # g[i]
    OBVIOUS
  <2>3. i # 0 => i - 1 \in 0..n /\ walk[i - 1] = g[i - 1]
    <3> SUFFICES ASSUME i # 0 PROVE i - 1 \in 0..n /\ i - 1 \notin Bad
      OBVIOUS
    <3>1. i - 1 \in 0..n /\ ~(i <= i - 1)
      BY <2>2
    <3> QED  BY <2>1, <3>1
  <2> HIDE DEF Bad, Fits
  <2>4. walk[i] = IF i = 0 THEN [row |-> 0, column |-> 0]
                ELSE IF t[i] = Newline THEN [row |-> walk[i - 1].row + 1, column |-> 0]
                ELSE [walk[i - 1] EXCEPT !.column = @ + 1]
    BY <1>4, <1>5, <2>2
  <2>5. walk[i] = g[i]
    BY <1>2, <2>2, <2>3, <2>4
  <2> QED  BY <2>2, <2>5
<1>7. Point(t, n) = walk[n]
  BY Zenon DEF Point
<1> QED  BY <1>1, <1>6, <1>7

(* Texts that begin with the same n bytes have the same point there.        *)
LEMMA SamePoint ==
    ASSUME NEW s, NEW t, NEW n \in Nat, \A i \in 1..n : s[i] = t[i]
    PROVE  Newlines(s, n) = Newlines(t, n) /\ LineBegin(s, n) = LineBegin(t, n)
<1>1. Newlines(s, n) = Newlines(t, n)
  <2>1. {i \in 1..n : s[i] = Newline} = {i \in 1..n : t[i] = Newline}
    OBVIOUS
  <2> QED  BY <2>1 DEF Newlines
<1>2. LineBegin(s, n) = LineBegin(t, n)
  <2>1. LineBegin(s, n) \in 0..n /\ BeginsLine(s, n, LineBegin(s, n))
    BY LineBeginIs
  <2>2. BeginsLine(t, n, LineBegin(s, n))
    BY <2>1 DEF BeginsLine
  <2> QED  BY <2>1, <2>2, LineBeginIs
<1> QED  BY <1>1, <1>2

AgreeAfter(s, m, t, n, d) == \A k \in 1..d : s[m + k] = t[n + k]

(* Where two texts go on with the same d bytes they have as many newlines.  *)
LEMMA SameRowsAfter ==
    ASSUME NEW s, NEW t, NEW m \in Nat, NEW n \in Nat, NEW d \in Nat,
           AgreeAfter(s, m, t, n, d)
    PROVE  Newlines(s, m + d) - Newlines(s, m) = Newlines(t, n + d) - Newlines(t, n)
<1> DEFINE Same(k) == Newlines(s, m + k) - Newlines(s, m) = Newlines(t, n + k) - Newlines(t, n)
           Bad == {k \in 0..d : ~Same(k)}
<1>1. \A k \in Nat : Newlines(s, k) \in Nat /\ Newlines(t, k) \in Nat
  BY NewlinesGrow
<1>2. ASSUME Bad # {} PROVE FALSE
  <2>1. PICK k \in Bad : \A j \in Bad : k <= j
    <3>1. Bad \in SUBSET Nat
      OBVIOUS
    <3> HIDE DEF Bad
    <3> QED  BY <1>2, <3>1, LeastNatural
  <2>2. k \in 0..d /\ ~Same(k)
    OBVIOUS
  <2>3. k # 0
    <3>1. Same(0)
      BY <1>1
    <3> HIDE DEF Same
    <3> QED  BY <2>2, <3>1
  <2>4. Same(k - 1)
    <3>1. k - 1 \in 0..d /\ ~(k <= k - 1)
      BY <2>2, <2>3
    <3>2. k - 1 \notin Bad
      BY <2>1, <3>1
    <3> HIDE DEF Same
    <3> QED  BY <3>1, <3>2
  <2>5. /\ m + k \in Nat /\ m + k > 0 /\ (m + k) - 1 = m + (k - 1)
        /\ n + k \in Nat /\ n + k > 0 /\ (n + k) - 1 = n + (k - 1)
        /\ m + (k - 1) \in Nat /\ n + (k - 1) \in Nat /\ k \in 1..d
    BY <2>2, <2>3
  <2>6. /\ Newlines(s, m + k) = IF s[m + k] = Newline THEN Newlines(s, m + (k - 1)) + 1
                                ELSE Newlines(s, m + (k - 1))
        /\ Newlines(t, n + k) = IF t[n + k] = Newline THEN Newlines(t, n + (k - 1)) + 1
                                ELSE Newlines(t, n + (k - 1))
    <3>1. /\ Newlines(s, m + k) = IF s[m + k] = Newline THEN Newlines(s, (m + k) - 1) + 1
                                  ELSE Newlines(s, (m + k) - 1)
          /\ Newlines(t, n + k) = IF t[n + k] = Newline THEN Newlines(t, (n + k) - 1) + 1
                                  ELSE Newlines(t, (n + k) - 1)
      BY <2>5, NewlinesGrow
    <3> QED  BY <2>5, <3>1
  <2>7. s[m + k] = t[n + k]
    BY <2>5 DEF AgreeAfter
  <2>8. Same(k)
    BY <1>1, <2>4, <2>5, <2>6, <2>7
  <2> HIDE DEF Same
  <2> QED  BY <2>2, <2>8
<1>3. d \in 0..d
  OBVIOUS
<1> HIDE DEF Same
<1>4. Same(d)
  BY <1>2, <1>3
<1> QED  BY <1>4 DEF Same

(* The three points of an edit are those of its bytes, and the rest of both *)
(* texts has the same rows.                                                 *)
THEOREM PointsAlwaysFit == Spec => []PointsFitSpan
<1>1. EditInv => PointsFitSpan
  <2> SUFFICES ASSUME EditInv, pc = "done" PROVE PointsFitSpan
    BY DEF PointsFitSpan
  <2>1. /\ CommonEnds /\ prefix \in Nat /\ oldSuffix \in Nat /\ newSuffix \in Nat
        /\ Len(old) \in Nat /\ Len(new) \in Nat
    BY TextIsSeq, EditAssumption DEF EditInv, TypeOK
  <2>2. /\ Edit.start = [row |-> Newlines(old, prefix),
                         column |-> prefix - LineBegin(old, prefix)]
        /\ Edit.oldEnd = [row |-> Newlines(old, oldSuffix),
                          column |-> oldSuffix - LineBegin(old, oldSuffix)]
        /\ Edit.newEnd = [row |-> Newlines(new, newSuffix),
                          column |-> newSuffix - LineBegin(new, newSuffix)]
    BY <2>1, PointCounts DEF Edit
  <2>3. Newlines(old, prefix) = Newlines(new, prefix) /\ LineBegin(old, prefix) = LineBegin(new, prefix)
    BY <2>1, SamePoint DEF CommonEnds
  <2>4. Newlines(old, Len(old)) - Newlines(old, oldSuffix)
          = Newlines(new, Len(new)) - Newlines(new, newSuffix)
    <3> DEFINE d == Len(old) - oldSuffix
    <3>1. /\ d \in Nat /\ oldSuffix + d = Len(old) /\ newSuffix + d = Len(new)
          /\ AgreeAfter(old, oldSuffix, new, newSuffix, d)
      BY <2>1 DEF CommonEnds, AgreeAfter
    <3> HIDE DEF d
    <3>2. Newlines(old, oldSuffix + d) - Newlines(old, oldSuffix)
            = Newlines(new, newSuffix + d) - Newlines(new, newSuffix)
      BY <2>1, <3>1, SameRowsAfter
    <3> QED  BY <3>1, <3>2
  <2> QED  BY <2>2, <2>3, <2>4 DEF PointsFitSpan
<1> QED  BY <1>1, EditInvariant, PTL

-----------------------------------------------------------------------------
(* The walk through a tree *)

(* A tree has a length, and its nodes depths.                               *)
LEMMA TreeTypes ==
    ASSUME tree \in Seq(Node)
    PROVE  /\ Len(tree) \in Nat
           /\ \A i \in 1..Len(tree) : tree[i].depth \in Nat
<1>1. \A i \in 1..Len(tree) : tree[i] \in Node
  OBVIOUS
<1>2. \A x \in Node : x.depth \in Nat
  BY DEF Node
<1> QED  BY <1>1, <1>2

(* The sibling is the first node after the descendants of a node, which end *)
(* just before it.                                                          *)
LEMMA SiblingIsNext ==
    ASSUME tree \in Seq(Node), NEW i \in 1..Len(tree), Outside(i) # {}
    PROVE  /\ Sibling(i) \in (i + 1)..Len(tree)
           /\ tree[Sibling(i)].depth <= tree[i].depth
           /\ \A j \in (i + 1)..Len(tree) : j < Sibling(i) => ~(tree[j].depth <= tree[i].depth)
           /\ LastBelow(i) = Sibling(i) - 1
<1>1. Outside(i) \in SUBSET Nat
  BY TreeTypes DEF Outside
<1> DEFINE m == Min(Outside(i))
<1>2. m \in Outside(i) /\ \A k \in Outside(i) : m <= k
  BY <1>1, MinIsLeast
<1> HIDE DEF m
<1>3. m \in (i + 1)..Len(tree) /\ tree[m].depth <= tree[i].depth
  BY <1>2 DEF Outside
<1>4. ASSUME NEW j \in (i + 1)..Len(tree), j < m PROVE ~(tree[j].depth <= tree[i].depth)
  <2>1. j \notin Outside(i)
    BY <1>2, <1>3, <1>4, TreeTypes
  <2> QED  BY <2>1 DEF Outside
<1>5. Sibling(i) = m /\ LastBelow(i) = m - 1
  BY DEF Sibling, LastBelow, m
<1> QED  BY <1>3, <1>4, <1>5

(* A node without a child is the last one below itself.                     *)
LEMMA LeafIsLast ==
    ASSUME tree \in Seq(Node), TreeGrowsDown, NEW i \in 1..Len(tree), ~HasChild(i)
    PROVE  LastBelow(i) = i
<1>1. Len(tree) \in Nat /\ \A j \in 1..Len(tree) : tree[j].depth \in Nat
  BY TreeTypes
<1>2. CASE i = Len(tree)
  <2>1. Outside(i) = {}
    BY <1>1, <1>2 DEF Outside
  <2> QED  BY <1>2, <2>1 DEF LastBelow
<1>3. CASE i # Len(tree)
  <2>1. i + 1 \in 2..Len(tree) /\ (i + 1) - 1 = i
    BY <1>1, <1>3
  <2>2. tree[i + 1].depth \in 1..(tree[i].depth + 1)
    BY <2>1 DEF TreeGrowsDown
  <2>3. i + 1 \in Outside(i)
    BY <1>1, <2>1, <2>2 DEF HasChild, Outside
  <2>4. /\ Sibling(i) \in (i + 1)..Len(tree) /\ LastBelow(i) = Sibling(i) - 1
        /\ \A j \in (i + 1)..Len(tree) : j < Sibling(i) => ~(tree[j].depth <= tree[i].depth)
    BY <2>3, SiblingIsNext
  <2>5. i + 1 \in (i + 1)..Len(tree) /\ tree[i + 1].depth <= tree[i].depth
    BY <2>3 DEF Outside
  <2>6. ~(i + 1 < Sibling(i))
    BY <2>4, <2>5
  <2>7. Sibling(i) = i + 1
    BY <1>1, <2>4, <2>6
  <2> QED  BY <1>1, <2>4, <2>7
<1> QED  BY <1>2, <1>3

(* A node without a sibling ends with its parent, which is one level up.    *)
LEMMA ParentEndsWithLast ==
    ASSUME tree \in Seq(Node), TreeGrowsDown, NEW i \in 1..Len(tree),
           tree[i].depth > 0, ~HasSibling(i)
    PROVE  /\ Parent(i) \in 1..Len(tree)
           /\ tree[Parent(i)].depth = tree[i].depth - 1
           /\ LastBelow(Parent(i)) = LastBelow(i)
<1>1. Len(tree) \in Nat /\ \A j \in 1..Len(tree) : tree[j].depth \in Nat
  BY TreeTypes
<1> DEFINE above == {j \in 1..(i - 1) : tree[j].depth < tree[i].depth}
           p == Max(above)
<1>2. 1 \in above
  BY <1>1 DEF TreeGrowsDown
<1>3. p \in above /\ \A k \in above : k <= p
  <2>1. i - 1 \in Nat /\ above \in SUBSET (1..(i - 1))
    BY <1>1
  <2> HIDE DEF above
  <2> QED  BY <1>2, <2>1, MaxIsGreatest
<1> HIDE DEF p
<1>4. p \in 1..(i - 1) /\ p \in 1..Len(tree) /\ tree[p].depth < tree[i].depth
  BY <1>1, <1>3
<1>5. ASSUME NEW j \in (p + 1)..i PROVE tree[i].depth <= tree[j].depth /\ j \in 1..Len(tree)
  <2>1. j \in 1..Len(tree)
    BY <1>1, <1>4
  <2>2. CASE j = i
    BY <1>1, <2>1, <2>2
  <2>3. CASE j # i
    <3>1. j \in 1..(i - 1)
      BY <1>1, <1>4, <2>3
    <3>2. j \notin above
      BY <1>1, <1>3, <1>4
    <3> QED  BY <1>1, <2>1, <3>1, <3>2
  <2> QED  BY <2>1, <2>2, <2>3
<1>6. tree[p].depth = tree[i].depth - 1
  <2>1. p + 1 \in 2..Len(tree) /\ p + 1 \in (p + 1)..i /\ (p + 1) - 1 = p
    BY <1>1, <1>4
  <2>2. tree[p + 1].depth \in 1..(tree[p].depth + 1)
    BY <2>1 DEF TreeGrowsDown
  <2>3. tree[i].depth <= tree[p + 1].depth
    BY <1>5, <2>1
  <2>4. /\ tree[p].depth \in Nat /\ tree[i].depth \in Nat /\ tree[p + 1].depth \in Nat
        /\ tree[p].depth < tree[i].depth
    BY <1>1, <1>4, <2>1
  <2>5. tree[p + 1].depth <= tree[p].depth + 1
    BY <2>2, <2>4
  <2> QED  BY <2>3, <2>4, <2>5, OneBelow
<1>7. Outside(p) \subseteq Outside(i)
  <2> SUFFICES ASSUME NEW j \in Outside(p) PROVE j \in Outside(i)
    OBVIOUS
  <2>1. j \in (p + 1)..Len(tree) /\ tree[j].depth <= tree[p].depth /\ j \in 1..Len(tree)
    BY <1>1, <1>4 DEF Outside
  <2>2. j \notin (p + 1)..i
    BY <1>1, <1>4, <1>5, <2>1
  <2> QED  BY <1>1, <1>4, <2>1, <2>2 DEF Outside
<1>8. LastBelow(p) = LastBelow(i)
  <2>1. CASE Outside(i) = {}
    <3>1. Outside(p) = {}
      BY <1>7, <2>1
    <3> QED  BY <2>1, <3>1 DEF LastBelow
  <2>2. CASE Outside(i) # {}
    <3> DEFINE m == Sibling(i)
    <3>1. /\ m \in (i + 1)..Len(tree) /\ tree[m].depth <= tree[i].depth /\ LastBelow(i) = m - 1
          /\ \A j \in (i + 1)..Len(tree) : j < m => ~(tree[j].depth <= tree[i].depth)
      BY <2>2, SiblingIsNext
    <3>2. tree[m].depth # tree[i].depth
      BY <2>2 DEF HasSibling, Sibling
    <3> HIDE DEF m
    <3>3. m \in 1..Len(tree) /\ tree[m].depth <= tree[p].depth
      BY <1>1, <1>4, <1>6, <3>1, <3>2
    <3>4. m \in Outside(p)
      BY <1>1, <1>4, <3>1, <3>3 DEF Outside
    <3>5. /\ Sibling(p) \in (p + 1)..Len(tree) /\ LastBelow(p) = Sibling(p) - 1
          /\ \A j \in (p + 1)..Len(tree) : j < Sibling(p) => ~(tree[j].depth <= tree[p].depth)
          /\ tree[Sibling(p)].depth <= tree[p].depth
      BY <1>4, <3>4, SiblingIsNext
    <3>6. ~(m < Sibling(p))
      BY <1>1, <1>4, <3>1, <3>3, <3>5
    <3>7. Sibling(p) \in Outside(i)
      BY <1>7, <3>5 DEF Outside
    <3>8. ~(Sibling(p) < m)
      BY <3>1, <3>7 DEF Outside
    <3>9. Sibling(p) = m
      BY <1>1, <1>4, <3>1, <3>5, <3>6, <3>8
    <3> QED  BY <3>1, <3>5, <3>9
  <2> QED  BY <2>1, <2>2
<1>9. Parent(i) = p
  BY DEF Parent, p
<1> QED  BY <1>4, <1>6, <1>8, <1>9

-----------------------------------------------------------------------------
(* The chunk of a node depends on the text and the tree only.               *)
LEMMA NodeChunkSame ==
    ASSUME new' = new, tree' = tree, NEW i
    PROVE  NodeChunk(i)' = NodeChunk(i)
BY DEF NodeChunk, EndOf, Outside

(* A tree is a root and the nodes below it.                                 *)
IsTree(text, t, s, n, root, nodes) ==
    /\ root = [Root EXCEPT !.start = s]
    /\ s = 0 \/ text[s] \in {Newline, Return}
    /\ nodes \in [1..n -> [start : {m \in 0..(Len(text) - 1) : Boundary(text, m)},
                           depth : 1..n, candidate : BOOLEAN]]
    /\ \A i \in 1..n : nodes[i].depth <= IF i = 1 THEN 1 ELSE nodes[i - 1].depth + 1
    /\ t = <<root>> \o nodes

LEMMA TreeOf ==
    ASSUME NEW text, NEW t \in Trees(text)
    PROVE  \E s \in Nat, n \in Nat : \E root, nodes : IsTree(text, t, s, n, root, nodes)
<1> DEFINE starts == {s \in 0..(Len(text) - 1) : Boundary(text, s)}
           blank == {m \in 0..Len(text) : \A i \in 1..m : text[i] \in {Newline, Return}}
           roots == {[Root EXCEPT !.start = s] : s \in blank}
           NodeLists(n) == [1..n -> [start : starts, depth : 1..n, candidate : BOOLEAN]]
           Grown(n) ==
             {nodes \in NodeLists(n) : \A i \in 1..n :
                /\ nodes[i].depth <= IF i = 1 THEN 1 ELSE nodes[i - 1].depth + 1
                /\ i > 1 => nodes[i - 1].start <= nodes[i].start}
           most == IF Len(text) <= MaxLen THEN MaxNodes ELSE 1
           below == UNION {Grown(n) : n \in 0..most}
<1>1. t \in UNION {{<<root>> \o nodes : nodes \in below} : root \in roots}
  <2>1. Trees(text) = {u \in UNION {{<<root>> \o nodes : nodes \in below} : root \in roots} :
                          Len(u) > 1 => u[1].start <= u[2].start}
    BY DEF Trees
  <2> HIDE DEF roots, below
  <2> QED  BY <2>1, Zenon
<1>2. PICK root \in roots : \E nodes \in below : t = <<root>> \o nodes
  <2> HIDE DEF roots, below
  <2> QED  BY <1>1
<1>3. PICK nodes \in below : t = <<root>> \o nodes
  <2> HIDE DEF roots, below
  <2> QED  BY <1>2
<1>4. PICK s \in blank : root = [Root EXCEPT !.start = s]
  <2> HIDE DEF blank
  <2> QED  OBVIOUS
<1>5. s \in Nat /\ (s = 0 \/ text[s] \in {Newline, Return})
  OBVIOUS
<1>6. PICK n \in 0..most : nodes \in Grown(n)
  <2> HIDE DEF Grown, most
  <2> QED  OBVIOUS
<1>7. n \in Nat
  BY ChunkingAssumption
<1>8. /\ nodes \in NodeLists(n)
      /\ \A i \in 1..n : nodes[i].depth <= IF i = 1 THEN 1 ELSE nodes[i - 1].depth + 1
  <2> HIDE DEF NodeLists
  <2> QED  BY <1>6
<1> HIDE DEF blank, roots, below, most, Grown
<1>9. IsTree(text, t, s, n, root, nodes)
  BY <1>3, <1>4, <1>5, <1>8 DEF IsTree
<1> QED  BY <1>5, <1>7, <1>9

(* Its nodes in one sequence.                                               *)
LEMMA RootAndNodes ==
    ASSUME NEW S, NEW root \in S, NEW n \in Nat, NEW nodes \in [1..n -> S],
           NEW t, t = <<root>> \o nodes
    PROVE  /\ t \in Seq(S) /\ Len(t) = n + 1
           /\ t[1] = root /\ \A i \in 2..(n + 1) : t[i] = nodes[i - 1]
<1>1. nodes \in Seq(S) /\ Len(nodes) = n
  OBVIOUS
<1>2. <<root>> \in Seq(S) /\ Len(<<root>>) = 1 /\ <<root>>[1] = root
  OBVIOUS
<1> QED  BY <1>1, <1>2, ConcatProperties

(* Every tree of a text grows down from its root.                           *)
LEMMA TreesGrowDown ==
    ASSUME NEW text, NEW t \in Trees(text)
    PROVE  /\ t \in Seq(Node) /\ Len(t) \in Nat /\ t # <<>> /\ t[1].depth = 0
           /\ \A i \in 2..Len(t) : t[i].depth \in 1..(t[i - 1].depth + 1)
<1>0. PICK s \in Nat, n \in Nat : \E root, nodes : IsTree(text, t, s, n, root, nodes)
  BY TreeOf
<1>1. PICK root, nodes : IsTree(text, t, s, n, root, nodes)
  BY <1>0
<1>9. n \in Nat /\ \A i \in 1..n :
        nodes[i].depth <= IF i = 1 THEN 1 ELSE nodes[i - 1].depth + 1
  BY <1>1 DEF IsTree
<1>2. \A i \in 1..n : nodes[i] \in Node /\ nodes[i].depth \in 1..n
  BY <1>1 DEF IsTree, Node
<1>3. nodes \in [1..n -> Node]
  BY <1>1, <1>2 DEF IsTree
<1>4. root \in Node /\ root.depth = 0
  BY <1>1 DEF IsTree, Root, Node
<1>5. t = <<root>> \o nodes
  BY <1>1 DEF IsTree
<1>6. /\ t \in Seq(Node) /\ Len(t) = n + 1
      /\ t[1] = root /\ \A i \in 2..(n + 1) : t[i] = nodes[i - 1]
  BY <1>3, <1>4, <1>5, RootAndNodes
<1>7. ASSUME NEW i \in 2..Len(t) PROVE t[i].depth \in 1..(t[i - 1].depth + 1)
  <2>1. i - 1 \in 1..n /\ t[i] = nodes[i - 1]
    BY <1>9, <1>6
  <2>2. CASE i = 2
    BY <1>9, <1>2, <1>4, <1>6, <2>1, <2>2
  <2>3. CASE i # 2
    <3>1. i - 1 \in 2..(n + 1) /\ (i - 1) - 1 \in 1..n /\ i - 1 # 1
      BY <1>9, <2>1, <2>3
    <3>2. t[i - 1] = nodes[(i - 1) - 1]
      BY <1>6, <3>1
    <3>3. nodes[i - 1].depth <= nodes[(i - 1) - 1].depth + 1
      BY <1>9, <2>1, <3>1
    <3> QED  BY <1>9, <1>2, <2>1, <3>1, <3>2, <3>3
  <2> QED  BY <2>2, <2>3
<1>8. Len(t) \in Nat /\ t # <<>> /\ t[1].depth = 0
  BY <1>9, <1>4, <1>6, EmptySeq
<1> QED  BY <1>6, <1>7, <1>8

(* Every node of a tree begins with a character, as the root of a text does *)
(* that leaves out its first blanks.                                        *)
LEMMA BlanksEndOnBoundary ==
    ASSUME NEW text, IsText(text), NEW s \in Nat,
           s = 0 \/ text[s] \in {Newline, Return}
    PROVE  Boundary(text, s)
<1> SUFFICES ASSUME s + 1 \in 1..Len(text), text[s + 1] = Inner PROVE FALSE
  BY DEF Boundary
<1>1. s + 1 > 1 /\ text[(s + 1) - 1] \notin {Newline, Return, Comment}
  BY DEF IsText
<1>2. (s + 1) - 1 = s
  OBVIOUS
<1> QED  BY <1>1, <1>2

LEMMA TreesOnCharacters ==
    ASSUME NEW text, IsText(text), NEW t \in Trees(text)
    PROVE  \A i \in 1..Len(t) : Boundary(text, t[i].start)
<1>0. PICK s \in Nat, n \in Nat : \E root, nodes : IsTree(text, t, s, n, root, nodes)
  BY TreeOf
<1>1. PICK root, nodes : IsTree(text, t, s, n, root, nodes)
  BY <1>0
<1>2. Boundary(text, root.start)
  <2>1. root.start = s
    BY <1>1 DEF IsTree, Root
  <2> QED  BY <1>1, <2>1, BlanksEndOnBoundary DEF IsTree
<1>3. \A i \in 1..n : nodes[i].start \in {m \in 0..(Len(text) - 1) : Boundary(text, m)}
  BY <1>1 DEF IsTree
<1> DEFINE S == {root} \union {nodes[i] : i \in 1..n}
<1>4. root \in S /\ nodes \in [1..n -> S]
  BY <1>1 DEF IsTree
<1>5. t = <<root>> \o nodes
  BY <1>1 DEF IsTree
<1> HIDE DEF S
<1>6. /\ Len(t) = n + 1
      /\ t[1] = root /\ \A i \in 2..(n + 1) : t[i] = nodes[i - 1]
  BY <1>4, <1>5, RootAndNodes
<1>7. ASSUME NEW i \in 1..Len(t) PROVE Boundary(text, t[i].start)
  <2>1. CASE i = 1
    BY <1>2, <1>6, <2>1
  <2>2. CASE i # 1
    <3>1. i \in 2..(n + 1) /\ i - 1 \in 1..n
      BY <1>6, <2>2
    <3> QED  BY <1>3, <1>6, <3>1
  <2> QED  BY <2>1, <2>2
<1> QED  BY <1>7

LEMMA CharactersStart == FileInit => OnCharacters
<1> SUFFICES ASSUME FileInit PROVE OnCharacters
  OBVIOUS
<1>1. IsText(new) /\ tree = <<Root>>
  BY DEF FileInit
<1>2. Len(tree) = 1 /\ tree[1].start = 0
  BY <1>1 DEF Root
<1>3. Boundary(new, 0)
  BY <1>1, BlanksEndOnBoundary
<1> QED  BY <1>1, <1>2, <1>3 DEF OnCharacters

LEMMA CharactersStay ==
    ASSUME OnCharacters, [FileNext]_<<vars, walkVars>>
    PROVE  OnCharacters'
<1>1. new' = new
  BY DEF FileNext, Next, ExtendPrefix, EndPrefix, ExtendSuffix, EndSuffix, Parse,
         ParseFails, Visit, NextSibling, ReturnToParent, Finish, vars
<1>2. IsText(new)'
  BY <1>1 DEF OnCharacters, IsText
<1>3. tree' = tree \/ tree' \in Trees(new)
  BY DEF FileNext, Next, Parse, ParseFails, Visit, NextSibling, ReturnToParent, Finish,
         walkVars
<1>4. \A i \in 1..Len(tree') : Boundary(new, tree'[i].start)
  BY <1>3, TreesOnCharacters DEF OnCharacters
<1>5. \A i \in 1..Len(tree') : Boundary(new', tree'[i].start)
  BY <1>1, <1>4 DEF Boundary
<1> QED  BY <1>2, <1>5 DEF OnCharacters, Boundary

(* So does what makes chunks those of the first nodes.                      *)
LEMMA AreChunksSame ==
    ASSUME new' = new, tree' = tree, chunks' = chunks, NEW n
    PROVE  AreChunksUpTo(n)' <=> AreChunksUpTo(n)
BY NodeChunkSame DEF AreChunksUpTo

(* A file starts without a chunk, at the root.                              *)
LEMMA WalkStarts == FileInit => WalkInv
<1> SUFFICES ASSUME FileInit PROVE WalkInv
  OBVIOUS
<1>1. stage = "compared" /\ tree = <<Root>> /\ at = 1 /\ level = 0 /\ chunks = <<>>
  BY DEF FileInit
<1>2. Root \in Node /\ Root.depth = 0
  BY DEF Root, Node
<1>3. tree \in Seq(Node) /\ Len(tree) = 1 /\ tree # <<>> /\ tree[1].depth = 0
  BY <1>1, <1>2
<1>4. TreeGrowsDown
  BY <1>3 DEF TreeGrowsDown
<1> QED  BY <1>1, <1>3, <1>4 DEF WalkInv, WalkFindsCandidates

(* The parse puts the cursor on a root with nothing visited.                *)
LEMMA ParseKeepsWalk ==
    ASSUME WalkInv, Parse \/ ParseFails
    PROVE  WalkInv'
<1>1. at = 1 /\ level = 0 /\ chunks = <<>> /\ tree \in Seq(Node) /\ TreeGrowsDown
  BY DEF WalkInv, Parse, ParseFails
<1>2. at' = 1 /\ level' = 0 /\ chunks' = <<>>
  BY <1>1 DEF Parse, ParseFails
<1>3. CASE Parse
  <2>1. stage' = "visit" /\ tree' \in Trees(new)
    BY <1>3 DEF Parse
  <2>2. /\ tree' \in Seq(Node) /\ Len(tree') \in Nat /\ tree' # <<>> /\ tree'[1].depth = 0
        /\ \A i \in 2..Len(tree') : tree'[i].depth \in 1..(tree'[i - 1].depth + 1)
    BY <2>1, TreesGrowDown
  <2>3. AreChunksUpTo(0)'
    BY <1>2 DEF AreChunksUpTo
  <2>4. at' \in 1..Len(tree') /\ (at - 1)' = 0
    BY <1>2, <2>2, EmptySeq
  <2>5. AreChunksUpTo(at - 1)'
    BY <2>3, <2>4
  <2> QED  BY <1>2, <2>1, <2>2, <2>4, <2>5 DEF WalkInv, TreeGrowsDown, WalkFindsCandidates
<1>4. CASE ParseFails
  <2>1. stage' = "failed" /\ tree' = tree
    BY <1>4 DEF ParseFails
  <2> QED  BY <1>1, <1>2, <2>1 DEF WalkInv, TreeGrowsDown, WalkFindsCandidates
<1> QED  BY <1>3, <1>4

(* The chunks there can be depend on the text and the tree only.            *)
LEMMA ChunksSame ==
    ASSUME new' = new, tree' = tree
    PROVE  ({NodeChunk(i) : i \in 1..Len(tree)} \union {FileChunk})'
             = {NodeChunk(i) : i \in 1..Len(tree)} \union {FileChunk}
<1>1. FileChunk' = FileChunk
  BY DEF FileChunk
<1>2. \A i : NodeChunk(i)' = NodeChunk(i)
  BY NodeChunkSame
<1> QED  BY <1>1, <1>2

(* A visit adds the chunk of the node when it is a candidate, after those   *)
(* of the nodes before it.                                                  *)
LEMMA VisitTakesCandidate ==
    ASSUME WalkInv, Visit, NEW m, m = at
    PROVE  /\ AreChunksUpTo(m)'
           /\ chunks' \in Seq({NodeChunk(i) : i \in 1..Len(tree)} \union {FileChunk})
<1> DEFINE All == {NodeChunk(i) : i \in 1..Len(tree)} \union {FileChunk}
           n == Len(chunks)
<1>1. /\ m \in 1..Len(tree) /\ AreChunksUpTo(m - 1)
      /\ new' = new /\ tree' = tree /\ Len(tree) \in Nat
      /\ chunks' = IF tree[m].candidate THEN Append(chunks, NodeChunk(m)) ELSE chunks
  BY TreeTypes DEF WalkInv, Visit
<1>2. chunks \in Seq(All)
  BY DEF WalkInv
<1>3. NodeChunk(m) \in All /\ NodeChunk(m).node = m
  BY <1>1 DEF NodeChunk
<1>4. \A k \in 1..n : chunks[k].node \in 1..(m - 1) /\ tree[chunks[k].node].candidate
  <2>1. \A k \in 1..n : chunks[k].node \in {i \in 1..(m - 1) : tree[i].candidate}
    BY <1>1 DEF AreChunksUpTo
  <2> QED  BY <2>1
<1>5. \A i : NodeChunk(i)' = NodeChunk(i)
  BY <1>1, NodeChunkSame
<1>6. CASE tree[m].candidate
  <2> HIDE DEF All
  <2>1. /\ chunks' \in Seq(All) /\ n \in Nat /\ Len(chunks') = n + 1
        /\ \A k \in 1..n : chunks'[k] = chunks[k]
        /\ chunks'[n + 1] = NodeChunk(m)
    BY <1>1, <1>2, <1>3, <1>6, AppendProperties
  <2> HIDE DEF n
  <2>2. \A k \in 1..(n + 1) : k \in 1..n \/ k = n + 1
    BY <2>1
  <2>3. {chunks'[k].node : k \in 1..(n + 1)} = {i \in 1..m : tree[i].candidate}
    <3>1. ASSUME NEW k \in 1..(n + 1)
          PROVE  chunks'[k].node \in {i \in 1..m : tree[i].candidate}
      <4>1. CASE k \in 1..n
        BY <1>1, <1>4, <2>1, <4>1
      <4>2. CASE k = n + 1
        BY <1>1, <1>3, <1>6, <2>1, <4>2
      <4> QED  BY <2>2, <4>1, <4>2
    <3>2. ASSUME NEW i \in 1..m, tree[i].candidate
          PROVE  i \in {chunks'[k].node : k \in 1..(n + 1)}
      <4>1. CASE i = m
        BY <1>3, <2>1, <4>1
      <4>2. CASE i # m
        <5>1. i \in 1..(m - 1)
          BY <1>1, <4>2
        <5>2. PICK k \in 1..n : chunks[k].node = i
          BY <1>1, <3>2, <5>1 DEF AreChunksUpTo, n
        <5> QED  BY <2>1, <5>2
      <4> QED  BY <4>1, <4>2
    <3> QED  BY <3>1, <3>2
  <2>4. ASSUME NEW k \in 1..(n + 1) PROVE chunks'[k] = NodeChunk(chunks'[k].node)
    <3>1. CASE k \in 1..n
      BY <1>1, <2>1, <3>1 DEF AreChunksUpTo, n
    <3>2. CASE k = n + 1
      BY <1>3, <2>1, <3>2
    <3> QED  BY <2>2, <3>1, <3>2
  <2>5. ASSUME NEW j \in 1..(n + 1), NEW k \in 1..(n + 1), j < k
        PROVE  chunks'[j].node < chunks'[k].node
    <3>1. j \in 1..n
      BY <2>1, <2>5
    <3>2. CASE k \in 1..n
      BY <1>1, <2>1, <2>5, <3>1, <3>2 DEF AreChunksUpTo, n
    <3>3. CASE k = n + 1
      BY <1>1, <1>3, <1>4, <2>1, <3>1, <3>3 DEF n
    <3> QED  BY <2>2, <3>2, <3>3
  <2>6. AreChunksUpTo(m)'
    BY <1>1, <1>5, <2>1, <2>3, <2>4, <2>5 DEF AreChunksUpTo
  <2> QED  BY <2>1, <2>6 DEF All
<1>7. CASE ~tree[m].candidate
  <2>1. chunks' = chunks
    BY <1>1, <1>7
  <2>2. {i \in 1..m : tree[i].candidate} = {i \in 1..(m - 1) : tree[i].candidate}
    <3>1. \A i \in 1..m : i \in 1..(m - 1) \/ i = m
      BY <1>1
    <3>2. \A i \in 1..(m - 1) : i \in 1..m
      BY <1>1
    <3> QED  BY <1>7, <3>1, <3>2
  <2>3. AreChunksUpTo(m)
    BY <1>1, <2>2 DEF AreChunksUpTo
  <2>4. AreChunksUpTo(m)'
    BY <1>1, <2>1, <2>3, AreChunksSame
  <2> QED  BY <1>2, <2>1, <2>4
<1> QED  BY <1>6, <1>7

(* After a visit the next node is visited, or all is visited below the      *)
(* cursor.                                                                  *)
LEMMA VisitKeepsWalk ==
    ASSUME WalkInv, Visit
    PROVE  WalkInv'
<1> DEFINE m == at
<1>1. /\ tree \in Seq(Node) /\ at \in 1..Len(tree) /\ TreeGrowsDown /\ level = tree[at].depth
      /\ stage = "visit" /\ new' = new /\ tree' = tree /\ Len(tree) \in Nat
      /\ \A i \in 1..Len(tree) : tree[i].depth \in Nat
  BY TreeTypes DEF WalkInv, Visit
<1>2. PICK n : n = at
  OBVIOUS
<1>3. /\ AreChunksUpTo(n)'
      /\ chunks' \in Seq({NodeChunk(i) : i \in 1..Len(tree)} \union {FileChunk})
  BY <1>2, VisitTakesCandidate
<1>4. chunks' \in Seq({NodeChunk(i) : i \in 1..Len(tree)} \union {FileChunk})'
  BY <1>1, <1>3, ChunksSame
<1>5. tree' \in Seq(Node) /\ TreeGrowsDown'
  BY <1>1 DEF TreeGrowsDown
<1>6. CASE HasChild(at)
  <2>1. at' = n + 1 /\ level' = level + 1 /\ stage' = "visit"
    BY <1>1, <1>2, <1>6 DEF Visit, Child
  <2>2. at' \in 1..Len(tree) /\ (at - 1)' = n /\ level' = tree[at'].depth
    BY <1>1, <1>2, <1>6, <2>1 DEF HasChild
  <2>3. AreChunksUpTo(at - 1)'
    BY <1>3, <2>2
  <2> QED  BY <1>1, <1>4, <1>5, <2>1, <2>2, <2>3 DEF WalkInv, WalkFindsCandidates
<1>7. CASE ~HasChild(at)
  <2>1. at' = at /\ level' = level /\ stage' = "next"
    BY <1>7 DEF Visit
  <2>2. LastBelow(at) = n
    BY <1>1, <1>2, <1>7, LeafIsLast
  <2>3. LastBelow(at)' = n
    BY <1>1, <2>1, <2>2 DEF LastBelow, Outside
  <2>4. AreChunksUpTo(LastBelow(at))'
    BY <1>3, <2>3
  <2> QED  BY <1>1, <1>4, <1>5, <2>1, <2>4 DEF WalkInv, WalkFindsCandidates
<1> QED  BY <1>6, <1>7

(* The next sibling comes just after all that was visited.                  *)
LEMMA SiblingKeepsWalk ==
    ASSUME WalkInv, NextSibling
    PROVE  WalkInv'
<1>1. /\ tree \in Seq(Node) /\ at \in 1..Len(tree) /\ TreeGrowsDown /\ level = tree[at].depth
      /\ stage = "next" /\ AreChunksUpTo(LastBelow(at))
      /\ new' = new /\ tree' = tree /\ chunks' = chunks /\ level' = level
      /\ at' = Sibling(at) /\ stage' = "visit" /\ Len(tree) \in Nat
      /\ Outside(at) # {} /\ tree[Sibling(at)].depth = tree[at].depth
  BY TreeTypes DEF WalkInv, NextSibling, HasSibling, Sibling
<1>2. chunks' \in Seq({NodeChunk(i) : i \in 1..Len(tree)} \union {FileChunk})'
  BY <1>1, ChunksSame DEF WalkInv
<1>3. tree' \in Seq(Node) /\ TreeGrowsDown'
  BY <1>1 DEF TreeGrowsDown
<1>4. Sibling(at) \in (at + 1)..Len(tree) /\ LastBelow(at) = Sibling(at) - 1
  BY <1>1, SiblingIsNext
<1>5. PICK n : n = LastBelow(at)
  OBVIOUS
<1>6. AreChunksUpTo(n)' /\ (at - 1)' = n /\ at' \in 1..Len(tree)
  BY <1>1, <1>4, <1>5, AreChunksSame
<1>7. AreChunksUpTo(at - 1)'
  BY <1>6
<1> QED  BY <1>1, <1>2, <1>3, <1>6, <1>7 DEF WalkInv, WalkFindsCandidates

(* Back at the parent, all below the parent was visited.                    *)
LEMMA ReturnKeepsWalk ==
    ASSUME WalkInv, ReturnToParent
    PROVE  WalkInv'
<1>1. /\ tree \in Seq(Node) /\ at \in 1..Len(tree) /\ TreeGrowsDown /\ level = tree[at].depth
      /\ stage = "next" /\ AreChunksUpTo(LastBelow(at))
      /\ new' = new /\ tree' = tree /\ chunks' = chunks /\ level' = level - 1
      /\ at' = Parent(at) /\ stage' = "next" /\ level > 0 /\ ~HasSibling(at)
  BY DEF WalkInv, ReturnToParent
<1>2. chunks' \in Seq({NodeChunk(i) : i \in 1..Len(tree)} \union {FileChunk})'
  BY <1>1, ChunksSame DEF WalkInv
<1>3. tree' \in Seq(Node) /\ TreeGrowsDown'
  BY <1>1 DEF TreeGrowsDown
<1>4. /\ Parent(at) \in 1..Len(tree) /\ tree[Parent(at)].depth = level - 1
      /\ LastBelow(Parent(at)) = LastBelow(at)
  BY <1>1, ParentEndsWithLast
<1>5. PICK n : n = LastBelow(at)
  OBVIOUS
<1>6. AreChunksUpTo(n)'
  BY <1>1, <1>5, AreChunksSame
<1>7. PICK p : p = Parent(at)
  OBVIOUS
<1>8. LastBelow(p)' = n /\ at' = p
  BY <1>1, <1>4, <1>5, <1>7 DEF LastBelow, Outside
<1>9. AreChunksUpTo(LastBelow(at))'
  BY <1>6, <1>8
<1> QED  BY <1>1, <1>2, <1>3, <1>4, <1>9 DEF WalkInv, WalkFindsCandidates

(* When the last call ends the cursor is at the root again, and all nodes   *)
(* were visited.                                                            *)
LEMMA FinishKeepsWalk ==
    ASSUME WalkInv, Finish
    PROVE  WalkInv'
<1>1. /\ tree \in Seq(Node) /\ at \in 1..Len(tree) /\ TreeGrowsDown /\ level = tree[at].depth
      /\ stage = "next" /\ AreChunksUpTo(LastBelow(at)) /\ Len(tree) \in Nat
      /\ new' = new /\ tree' = tree /\ at' = at /\ level' = level
      /\ stage' = "chunked" /\ level = 0 /\ ~HasSibling(at)
      /\ chunks' = IF chunks = <<>> THEN <<FileChunk>> ELSE chunks
  BY TreeTypes DEF WalkInv, Finish
<1> DEFINE All == {NodeChunk(i) : i \in 1..Len(tree)} \union {FileChunk}
<1>2. tree' \in Seq(Node) /\ TreeGrowsDown'
  BY <1>1 DEF TreeGrowsDown
<1>3. chunks' \in Seq(All) /\ chunks \in Seq(All) /\ (chunks # <<>> => 1 \in 1..Len(chunks))
  <2>1. chunks \in Seq(All) /\ FileChunk \in All
    BY DEF WalkInv
  <2> HIDE DEF All
  <2> QED  BY <1>1, <2>1, EmptySeq
<1>4. chunks' \in Seq({NodeChunk(i) : i \in 1..Len(tree)} \union {FileChunk})'
  BY <1>1, <1>3, ChunksSame
<1>5. at = 1
  <2> SUFFICES ASSUME at # 1 PROVE FALSE
    OBVIOUS
  <2>1. at \in 2..Len(tree)
    BY <1>1
  <2>2. tree[at].depth \in 1..(tree[at - 1].depth + 1)
    BY <1>1, <2>1 DEF TreeGrowsDown
  <2> QED  BY <1>1, <2>2
<1>6. LastBelow(at) = Len(tree)
  <2>1. Outside(at) = {}
    <3> SUFFICES ASSUME Outside(at) # {} PROVE FALSE
      OBVIOUS
    <3>1. /\ Sibling(at) \in (at + 1)..Len(tree) /\ tree[Sibling(at)].depth <= tree[at].depth
          /\ tree[Sibling(at)].depth # tree[at].depth
      BY <1>1, SiblingIsNext DEF HasSibling, Sibling
    <3> QED  BY <1>1, <1>5, <3>1 DEF TreeGrowsDown
  <2> QED  BY <2>1 DEF LastBelow
<1>7. AreChunksUpTo(Len(tree))
  BY <1>1, <1>6
<1>8. WalkFindsCandidates'
  <2>1. CASE chunks = <<>>
    <3>1. {chunks[k].node : k \in 1..Len(chunks)} = {}
      BY <2>1
    <3>2. \A i \in 1..Len(tree) : ~tree[i].candidate
      BY <1>7, <3>1 DEF AreChunksUpTo
    <3>3. FileChunk' = FileChunk
      BY <1>1 DEF FileChunk
    <3> QED  BY <1>1, <2>1, <3>2, <3>3 DEF WalkFindsCandidates
  <2>2. CASE chunks # <<>>
    <3>1. \E i \in 1..Len(tree) : tree[i].candidate
      BY <1>3, <1>7, <2>2 DEF AreChunksUpTo
    <3>2. PICK n : n = Len(tree)
      OBVIOUS
    <3>3. AreChunksUpTo(n)'
      BY <1>1, <1>7, <2>2, <3>2, AreChunksSame
    <3> QED  BY <1>1, <3>1, <3>2, <3>3 DEF WalkFindsCandidates
  <2> QED  BY <2>1, <2>2
<1> QED  BY <1>1, <1>2, <1>4, <1>8 DEF WalkInv

(* The comparison of the texts leaves the walk alone.                       *)
LEMMA WalkStutters ==
    ASSUME WalkInv, UNCHANGED walkVars, new' = new
    PROVE  WalkInv'
<1>1. UNCHANGED <<new, stage, tree, at, level, chunks>>
  BY DEF walkVars
<1>2. chunks' \in Seq({NodeChunk(i) : i \in 1..Len(tree)} \union {FileChunk})'
  BY <1>1, ChunksSame DEF WalkInv
<1>3. \A n : AreChunksUpTo(n)' <=> AreChunksUpTo(n)
  BY <1>1, AreChunksSame
<1>4. PICK n : n = LastBelow(at)
  OBVIOUS
<1>5. LastBelow(at)' = n
  BY <1>1, <1>4 DEF LastBelow, Outside
<1>6. stage' = "next" => AreChunksUpTo(LastBelow(at))'
  BY <1>1, <1>3, <1>4, <1>5 DEF WalkInv
<1>7. WalkFindsCandidates'
  <2>1. FileChunk' = FileChunk
    BY <1>1 DEF FileChunk
  <2> QED  BY <1>1, <1>3, <2>1 DEF WalkInv, WalkFindsCandidates
<1>8. stage' = "visit" => AreChunksUpTo(at - 1)'
  BY <1>1, <1>3 DEF WalkInv
<1> QED  BY <1>1, <1>2, <1>6, <1>7, <1>8 DEF WalkInv, TreeGrowsDown

(* The inductive invariant of the walk: the chunks are at each step those   *)
(* of the candidates that come before the cursor, or end with what is below *)
(* it.                                                                      *)
THEOREM WalkInvariant == FileSpec => []WalkInv
<1>1. FileInit => WalkInv
  BY WalkStarts
<1>2. WalkInv /\ [FileNext]_<<vars, walkVars>> => WalkInv'
  <2> SUFFICES ASSUME WalkInv, [FileNext]_<<vars, walkVars>> PROVE WalkInv'
    OBVIOUS
  <2>1. CASE Next /\ UNCHANGED walkVars
    <3>1. new' = new
      BY <2>1 DEF Next, ExtendPrefix, EndPrefix, ExtendSuffix, EndSuffix
    <3> QED  BY <2>1, <3>1, WalkStutters
  <2>2. CASE UNCHANGED <<vars, walkVars>>
    <3>1. UNCHANGED walkVars /\ new' = new
      BY <2>2 DEF vars
    <3> QED  BY <3>1, WalkStutters
  <2> QED  BY <2>1, <2>2, ParseKeepsWalk, VisitKeepsWalk, SiblingKeepsWalk, ReturnKeepsWalk,
              FinishKeepsWalk DEF FileNext
<1> QED  BY <1>1, <1>2, PTL DEF FileSpec

(* collect_chunks takes every candidate of a tree once, in the order of the *)
(* document, and a file without one is a chunk, for trees of any size.      *)
THEOREM WalkFinds == FileSpec => []WalkFindsCandidates
<1>1. WalkInv => WalkFindsCandidates
  BY DEF WalkInv
<1> QED  BY <1>1, WalkInvariant, PTL

-----------------------------------------------------------------------------
(* The comment above a node *)

(* A line ends with the first newline after its start, or after the text.   *)
LEMMA LineEndIs ==
    ASSUME NEW t, NEW n \in Nat, NEW s \in 0..n
    PROVE  /\ LineEnd(t, s, n) \in (s + 1)..(n + 1)
           /\ LineEnd(t, s, n) <= n => t[LineEnd(t, s, n)] = Newline
           /\ \A e \in (s + 1)..n : e < LineEnd(t, s, n) => t[e] # Newline
<1> DEFINE Ends == {e \in (s + 1)..n : t[e] = Newline} \union {n + 1}
           end == Min(Ends)
<1>1. Ends \in SUBSET Nat /\ n + 1 \in Ends
  OBVIOUS
<1>2. end \in Ends /\ \A e \in Ends : end <= e
  <2> HIDE DEF Ends
  <2> QED  BY <1>1, MinIsLeast
<1>3. LineEnd(t, s, n) = end
  BY DEF LineEnd
<1> HIDE DEF end
<1>4. end \in (s + 1)..(n + 1) /\ (end <= n => t[end] = Newline)
  BY <1>2
<1>5. ASSUME NEW e \in (s + 1)..n, e < end PROVE t[e] # Newline
  <2>1. e \notin Ends
    BY <1>2, <1>4, <1>5
  <2> QED  BY <2>1
<1> QED  BY <1>3, <1>4, <1>5

(* The line that a byte is in begins at or before it.                       *)
LEMMA LineOf ==
    ASSUME NEW t, NEW n \in Nat, NEW q \in 1..n
    PROVE  \E s \in LineStarts(t, n) : s < q /\ \A i \in (s + 1)..(q - 1) : t[i] # Newline
<1> DEFINE Starts == {s \in LineStarts(t, n) : s < q}
           Shifted == {i \in 1..n : i - 1 \in Starts}
<1>1. 0 \in Starts /\ \A s \in Starts : s \in 0..(q - 1)
  BY DEF LineStarts
<1>2. 1 \in Shifted
  BY <1>1
<1>3. PICK m \in Shifted : \A k \in Shifted : k <= m
  <2>1. Shifted \in SUBSET (1..n) /\ Shifted # {}
    BY <1>2
  <2> HIDE DEF Shifted
  <2> QED  BY <2>1, GreatestBelow
<1>4. m \in 1..n /\ m - 1 \in LineStarts(t, n) /\ m - 1 < q
  BY <1>3
<1>5. ASSUME NEW i \in ((m - 1) + 1)..(q - 1), t[i] = Newline PROVE FALSE
  <2>1. i \in 0..(n - 1) /\ i < q
    BY <1>4
  <2>2. i \in LineStarts(t, n)
    BY <1>5, <2>1 DEF LineStarts
  <2>3. i + 1 \in Shifted
    BY <2>1, <2>2
  <2>4. i + 1 <= m
    BY <1>3, <2>3
  <2> QED  BY <1>4, <2>4
<1> QED  BY <1>4, <1>5

-----------------------------------------------------------------------------
(* Where the lines before the comment end: those that begin from there on   *)
(* lead, and the one before does not.                                       *)
Ends(t, n, b) ==
    /\ b \in 0..n
    /\ b \in {0, n} \/ t[b] = Newline
    /\ \A s \in LineStarts(t, n) : s >= b => Leads(t, s, n)

(* Where those lines end there is nothing but blanks and comments down to   *)
(* n.                                                                       *)
LEMMA CommentBegins ==
    ASSUME NEW t, NEW n \in Nat, NEW b, Ends(t, n, b)
    PROVE  BeginsComment(t, n, b)
<1>1. b \in 0..n /\ (b \in {0, n} \/ t[b] = Newline)
  BY DEF Ends
<1>2. ASSUME NEW q \in (b + 1)..n, t[q] \notin {Newline, Return, Comment}
      PROVE  \E r \in (b + 1)..(q - 1) :
                 t[r] = Comment /\ \A i \in r..q : t[i] # Newline
  <2>1. q \in 1..n /\ b < q /\ q \in Nat /\ b \in Nat
    BY <1>1
  <2>2. PICK s \in LineStarts(t, n) : s < q /\ \A i \in (s + 1)..(q - 1) : t[i] # Newline
    BY <2>1, LineOf
  <2>3. s \in 0..(n - 1)
    BY DEF LineStarts
  <2>4. s >= b
    <3> SUFFICES ASSUME s < b PROVE FALSE
      BY <2>1, <2>3
    <3>1. b \in (s + 1)..(q - 1) /\ b # 0 /\ b # n
      BY <1>1, <2>1, <2>3
    <3> QED  BY <1>1, <2>2, <3>1
  <2>5. Leads(t, s, n)
    BY <2>4 DEF Ends
  <2> DEFINE e == LineEnd(t, s, n)
             inked == {i \in (s + 1)..(e - 1) : t[i] # Return}
             r == Min(inked)
  <2>6. e \in (s + 1)..(n + 1) /\ (e <= n => t[e] = Newline) /\ e \in Nat
    <3>1. s \in 0..n
      BY <2>3
    <3>2. e \in (s + 1)..(n + 1) /\ (e <= n => t[e] = Newline)
      BY <3>1, LineEndIs
    <3> HIDE DEF e
    <3> QED  BY <2>3, <3>2
  <2>7. e > q
    <3> SUFFICES ASSUME e <= q PROVE FALSE
      BY <2>1, <2>6
    <3>1. e <= n /\ (e = q \/ e \in (s + 1)..(q - 1))
      BY <2>1, <2>3, <2>6
    <3> QED  BY <1>2, <2>2, <2>6, <3>1
  <2> HIDE DEF e
  <2>8. q \in inked /\ inked \in SUBSET Nat
    BY <1>2, <2>1, <2>2, <2>3, <2>6, <2>7
  <2>9. r \in inked /\ r <= q
    <3> HIDE DEF inked
    <3> QED  BY <2>8, MinIsLeast
  <2>10. t[r] = Comment
    <3>1. inked # {} => t[Min(inked)] = Comment
      BY <2>5 DEF Leads, e
    <3> QED  BY <2>8, <3>1
  <2> HIDE DEF r
  <2>11. r \in (s + 1)..(e - 1)
    BY <2>9
  <2>12. r \in (b + 1)..(q - 1)
    BY <1>2, <2>1, <2>3, <2>4, <2>6, <2>9, <2>10, <2>11
  <2>13. \A i \in r..q : t[i] # Newline
    <3> SUFFICES ASSUME NEW i \in r..q PROVE t[i] # Newline
      OBVIOUS
    <3>1. i = q \/ i \in (s + 1)..(q - 1)
      BY <2>1, <2>3, <2>11, <2>12
    <3> QED  BY <1>2, <2>2, <3>1
  <2> QED  BY <2>10, <2>12, <2>13
<1> QED  BY <1>1, <1>2 DEF BeginsComment

(* Above a line that does not lead there is no begin of the comment.        *)
LEMMA NothingBeginsAbove ==
    ASSUME NEW t, NEW n \in Nat, NEW last \in LineStarts(t, n), ~Leads(t, last, n),
           NEW p \in 0..n, BeginsComment(t, n, p)
    PROVE  p >= LineEnd(t, last, n) \/ p = n
<1> DEFINE e == LineEnd(t, last, n)
<1>1. last \in 0..(n - 1) /\ (last = 0 \/ t[last] = Newline)
  BY DEF LineStarts
<1>2. /\ e \in (last + 1)..(n + 1) /\ e \in Nat
      /\ \A i \in (last + 1)..n : i < e => t[i] # Newline
  <2>1. last \in 0..n
    BY <1>1
  <2>2. /\ e \in (last + 1)..(n + 1)
        /\ \A i \in (last + 1)..n : i < e => t[i] # Newline
    BY <2>1, LineEndIs
  <2> HIDE DEF e
  <2> QED  BY <1>1, <2>2
<1> DEFINE inked == {i \in (last + 1)..(e - 1) : t[i] # Return}
           i0 == Min(inked)
<1>3. inked # {} /\ t[i0] # Comment
  BY DEF Leads
<1> HIDE DEF e
<1>4. i0 \in inked /\ \A i \in inked : i0 <= i
  <2>1. inked \in SUBSET Nat
    BY <1>1, <1>2
  <2> HIDE DEF inked
  <2> QED  BY <1>3, <2>1, MinIsLeast
<1> HIDE DEF i0
<1>5. i0 \in (last + 1)..(e - 1) /\ t[i0] # Return /\ i0 \in 1..n /\ t[i0] # Newline
  BY <1>1, <1>2, <1>4
<1>6. ASSUME p <= last PROVE FALSE
  <2>1. i0 \in (p + 1)..n /\ t[i0] \notin {Newline, Return, Comment}
    BY <1>1, <1>3, <1>5, <1>6
  <2>2. PICK r \in (p + 1)..(i0 - 1) :
          t[r] = Comment /\ \A i \in r..i0 : t[i] # Newline
    BY <2>1 DEF BeginsComment
  <2>3. r > last
    <3> SUFFICES ASSUME r <= last PROVE FALSE
      BY <1>1, <2>2
    <3>1. last \in r..i0 /\ last # 0
      BY <1>1, <1>5, <2>2
    <3> QED  BY <1>1, <2>2, <3>1
  <2>4. r \in (last + 1)..(e - 1) /\ ~(i0 <= r)
    BY <1>1, <1>2, <1>5, <2>2, <2>3
  <2>5. t[r] # Return
    BY <2>2, ChunkingAssumption
  <2> QED  BY <1>4, <2>4, <2>5
<1>7. ASSUME p > last, p < e, p # n PROVE FALSE
  <2>1. p \in (last + 1)..n /\ p # 0
    BY <1>1, <1>7
  <2>2. t[p] = Newline
    BY <1>7, <2>1 DEF BeginsComment
  <2> QED  BY <1>2, <1>7, <2>1, <2>2
<1>8. p >= e \/ p = n
  BY <1>1, <1>2, <1>6, <1>7
<1> QED  BY <1>8 DEF e

-----------------------------------------------------------------------------
(* The sums of the first m numbers of c, for m up to n.                      *)
SumFits(f, c, n) == f = [m \in 0..n |-> IF m = 0 THEN 0 ELSE f[m - 1] + c[m]]

(* The sum goes on from n to n + 1.                                         *)
LEMMA SumGrows ==
    ASSUME NEW n \in Nat, NEW c, NEW f, SumFits(f, c, n)
    PROVE  \E g : SumFits(g, c, n + 1)
<1> DEFINE g == [m \in 0..(n + 1) |-> IF m = n + 1 THEN f[n] + c[m] ELSE f[m]]
<1>1. \A m \in 0..(n + 1) : g[m] = IF m = n + 1 THEN f[n] + c[m] ELSE f[m]
  OBVIOUS
<1>2. \A m \in 0..n : f[m] = IF m = 0 THEN 0 ELSE f[m - 1] + c[m]
  BY Zenon DEF SumFits
<1> HIDE DEF g
<1>3. ASSUME NEW m \in 0..(n + 1)
      PROVE  g[m] = IF m = 0 THEN 0 ELSE g[m - 1] + c[m]
  <2>1. CASE m = n + 1
    <3>1. m # 0 /\ m - 1 = n /\ n \in 0..(n + 1) /\ n # n + 1
      BY <2>1
    <3>2. g[m - 1] = f[n]
      BY <1>1, <3>1
    <3> QED  BY <1>1, <2>1, <3>1, <3>2
  <2>2. CASE m = 0
    <3>1. 0 \in 0..n /\ 0 \in 0..(n + 1) /\ 0 # n + 1
      OBVIOUS
    <3> QED  BY <1>1, <1>2, <2>2, <3>1
  <2>3. CASE m # 0 /\ m # n + 1
    <3>1. m \in 0..n /\ m - 1 \in 0..(n + 1) /\ m - 1 # n + 1
      BY <2>3
    <3> QED  BY <1>1, <1>2, <2>3, <3>1
  <2> QED  BY <2>1, <2>2, <2>3
<1>4. SumFits(g, c, n + 1)
  <2>1. g = [m \in 0..(n + 1) |-> g[m]]
    BY DEF g
  <2> QED  BY <1>3, <2>1 DEF SumFits
<1> QED  BY <1>4

(* A sum over 1..n is defined for every n.                                  *)
LEMMA SumExists ==
    ASSUME NEW n \in Nat, NEW c
    PROVE  \E f : SumFits(f, c, n)
<1> DEFINE Bad == {m \in Nat : ~ \E f : SumFits(f, c, m)}
<1>1. ASSUME Bad # {} PROVE FALSE
  <2>1. PICK m \in Bad : \A k \in Bad : m <= k
    <3>1. Bad \in SUBSET Nat
      OBVIOUS
    <3> HIDE DEF Bad
    <3> QED  BY <1>1, <3>1, LeastNatural
  <2>2. m \in Nat /\ ~ \E f : SumFits(f, c, m)
    OBVIOUS
  <2>3. CASE m = 0
    <3> DEFINE none == [k \in 0..0 |-> 0]
    <3>1. \A k \in 0..0 : k = 0
      OBVIOUS
    <3>2. none = [k \in 0..0 |-> IF k = 0 THEN 0 ELSE none[k - 1] + c[k]]
      BY <3>1
    <3> QED  BY <2>2, <2>3, <3>2 DEF SumFits
  <2>4. CASE m # 0
    <3>1. m - 1 \in Nat /\ ~(m <= m - 1) /\ (m - 1) + 1 = m
      BY <2>2, <2>4
    <3>2. m - 1 \notin Bad
      BY <2>1, <3>1
    <3>3. PICK f : SumFits(f, c, m - 1)
      BY <3>1, <3>2
    <3> HIDE DEF Bad
    <3>4. \E g : SumFits(g, c, (m - 1) + 1)
      BY <3>1, <3>3, SumGrows
    <3> QED  BY <2>2, <3>1, <3>4
  <2> QED  BY <2>3, <2>4
<1> QED  BY <1>1

-----------------------------------------------------------------------------
(* The bytes of the lines before the comment, as with_leading_comment_start *)
(* adds them up.                                                            *)
Adds(f, t, n) ==
    /\ f[0] = 0
    /\ \A m \in 1..n : f[m] = f[m - 1] + (IF m - 1 \in Before(t, n)
                                         THEN LineLength(t, m - 1, n) + 1 ELSE 0)

(* with_leading_comment_start is such a sum, or n when that is less.        *)
LEMMA LeadingStartAdds ==
    ASSUME NEW t, NEW n \in Nat
    PROVE  \E f : Adds(f, t, n) /\ LeadingStart(t, n) = Min({n, f[n]})
<1> DEFINE Fits(f) ==
             f = [m \in 0..n |-> IF m = 0 THEN 0
                                 ELSE f[m - 1] + (IF m - 1 \in Before(t, n)
                                                  THEN LineLength(t, m - 1, n) + 1 ELSE 0)]
           c == [m \in 1..n |-> IF m - 1 \in Before(t, n)
                                THEN LineLength(t, m - 1, n) + 1 ELSE 0]
           bytes == CHOOSE f : Fits(f)
<1>1. PICK f : SumFits(f, c, n)
  BY SumExists
<1>2. Fits(f)
  <2>1. \A m \in 0..n : m # 0 => m \in 1..n
    OBVIOUS
  <2>2. \A m \in 0..n : (IF m = 0 THEN 0 ELSE f[m - 1] + c[m])
          = IF m = 0 THEN 0 ELSE f[m - 1] + (IF m - 1 \in Before(t, n)
                                             THEN LineLength(t, m - 1, n) + 1 ELSE 0)
    BY <2>1
  <2> HIDE DEF c
  <2> QED  BY <1>1, <2>2 DEF SumFits
<1>3. Fits(bytes)
  <2> HIDE DEF Fits
  <2> QED  BY <1>2
<1>4. \A m \in 0..n : bytes[m] = IF m = 0 THEN 0
                                 ELSE bytes[m - 1] + (IF m - 1 \in Before(t, n)
                                                      THEN LineLength(t, m - 1, n) + 1 ELSE 0)
  <2> HIDE DEF bytes
  <2> QED  BY <1>3, Zenon
<1>5. LeadingStart(t, n) = Min({n, bytes[n]})
  BY Zenon DEF LeadingStart
<1> HIDE DEF bytes
<1>6. Adds(bytes, t, n)
  <2>1. 0 \in 0..n /\ \A m \in 1..n : m \in 0..n /\ m # 0
    OBVIOUS
  <2> QED  BY <1>4, <2>1 DEF Adds
<1> QED  BY <1>5, <1>6

(* The lines up to e that end with a carriage return.                       *)
Until(t, n, e) == Cardinality({i \in Returns(t, n) : i <= e})

(* There are no fewer up to a later place, and a line more counts its own.  *)
LEMMA ReturnsGrow ==
    ASSUME NEW t, NEW n \in Nat, NEW d \in Nat, NEW e \in Nat, d <= e
    PROVE  /\ Until(t, n, d) \in Nat /\ Until(t, n, e) \in Nat
           /\ Cardinality(Returns(t, n)) \in Nat
           /\ Until(t, n, d) <= Until(t, n, e)
           /\ Until(t, n, e) <= Cardinality(Returns(t, n))
           /\ d < e /\ e \in Returns(t, n) => Until(t, n, d) + 1 <= Until(t, n, e)
<1> DEFINE R(k) == {i \in Returns(t, n) : i <= k}
<1>1. IsFiniteSet(Returns(t, n))
  <2>1. IsFiniteSet(2..n)
    BY FS_Interval
  <2> QED  BY <2>1, FS_Subset DEF Returns
<1>2. Returns(t, n) \subseteq 2..n
  BY DEF Returns
<1>3. \A k : R(k) \subseteq Returns(t, n) /\ IsFiniteSet(R(k))
  BY <1>1, FS_Subset
<1>4. R(d) \subseteq R(e)
  BY <1>2
<1>5. ASSUME d < e, e \in Returns(t, n) PROVE e \notin R(d) /\ R(d) \union {e} \subseteq R(e)
  BY <1>4, <1>5
<1> HIDE DEF R
<1>6. Cardinality(R(d)) \in Nat /\ Cardinality(R(e)) \in Nat /\ Cardinality(Returns(t, n)) \in Nat
  BY <1>1, <1>3, FS_CardinalityType
<1>7. /\ Cardinality(R(d)) <= Cardinality(R(e))
      /\ Cardinality(R(e)) <= Cardinality(Returns(t, n))
  BY <1>1, <1>3, <1>4, FS_Subset
<1>8. ASSUME d < e, e \in Returns(t, n) PROVE Cardinality(R(d)) + 1 <= Cardinality(R(e))
  <2>1. Cardinality(R(d) \union {e}) = Cardinality(R(d)) + 1
    BY <1>3, <1>5, <1>8, FS_AddElement
  <2>2. Cardinality(R(d) \union {e}) <= Cardinality(R(e))
    BY <1>3, <1>5, <1>8, FS_Subset
  <2> QED  BY <2>1, <2>2
<1>9. \A k : Until(t, n, k) = Cardinality(R(k))
  BY DEF Until, R
<1> QED  BY <1>6, <1>7, <1>8, <1>9

(* A line is as long as its bytes, but for a carriage return at its end.    *)
LEMMA LineLengthIs ==
    ASSUME NEW t, NEW n \in Nat, NEW s \in 0..n
    PROVE  LET e == LineEnd(t, s, n)
           IN  \/ LineLength(t, s, n) + 1 = e - s
               \/ LineLength(t, s, n) + 1 = (e - s) - 1 /\ e \in Returns(t, n) /\ e - s >= 2
<1> DEFINE e == LineEnd(t, s, n)
<1>1. e \in (s + 1)..(n + 1) /\ (e <= n => t[e] = Newline)
  BY LineEndIs
<1>2. LineLength(t, s, n) = IF e <= n /\ e - 1 > s /\ t[e - 1] = Return
                            THEN e - 2 - s ELSE e - 1 - s
  BY DEF LineLength
<1> HIDE DEF e
<1>3. \/ LineLength(t, s, n) + 1 = e - s
      \/ LineLength(t, s, n) + 1 = (e - s) - 1 /\ e \in Returns(t, n) /\ e - s >= 2
  <2>1. CASE e <= n /\ e - 1 > s /\ t[e - 1] = Return
    <3>1. e \in 2..n /\ t[e] = Newline /\ e - s >= 2 /\ e - 2 - s + 1 = (e - s) - 1
      BY <1>1, <2>1
    <3> QED  BY <1>2, <2>1, <3>1 DEF Returns
  <2>2. CASE ~(e <= n /\ e - 1 > s /\ t[e - 1] = Return)
    BY <1>1, <1>2, <2>2
  <2> QED  BY <2>1, <2>2
<1> QED  BY <1>3 DEF e

(* Up to the line after the last that does not lead, the sum is where the   *)
(* lines end, but for their carriage returns.                               *)
Near(t, n, e, sum) ==
    sum \in Nat /\ sum <= e /\ e - sum <= Until(t, n, e)

Summed(f, t, n, m) ==
    \E s \in LineStarts(t, n) :
        /\ s < m /\ \A i \in (s + 1)..(m - 1) : t[i] # Newline
        /\ Near(t, n, LineEnd(t, s, n), f[m])

(* A line more keeps the sum near to where it ends.                         *)
LEMMA NearGrows ==
    ASSUME NEW t, NEW n \in Nat, NEW s \in 0..n, NEW sum, NEW d \in Nat,
           d = s, Near(t, n, d, sum)
    PROVE  Near(t, n, LineEnd(t, s, n), sum + (LineLength(t, s, n) + 1))
<1> DEFINE e == LineEnd(t, s, n)
           len == LineLength(t, s, n) + 1
<1>1. e \in (s + 1)..(n + 1)
  BY LineEndIs
<1>2. \/ len = e - s
      \/ len = (e - s) - 1 /\ e \in Returns(t, n) /\ e - s >= 2
  BY LineLengthIs
<1> HIDE DEF e, len
<1>3. e \in Nat /\ d <= e /\ d < e
  BY <1>1
<1>4. /\ Until(t, n, d) \in Nat /\ Until(t, n, e) \in Nat
      /\ Until(t, n, d) <= Until(t, n, e)
      /\ e \in Returns(t, n) => Until(t, n, d) + 1 <= Until(t, n, e)
  BY <1>3, ReturnsGrow
<1>5. sum \in Nat /\ sum <= d /\ d - sum <= Until(t, n, d)
  BY DEF Near
<1>6. CASE len = e - s
  BY <1>1, <1>3, <1>4, <1>5, <1>6 DEF Near, e, len
<1>7. CASE len = (e - s) - 1 /\ e \in Returns(t, n) /\ e - s >= 2
  BY <1>1, <1>3, <1>4, <1>5, <1>7 DEF Near, e, len
<1> QED  BY <1>2, <1>6, <1>7

(* So it is for every line down to the last that does not lead.             *)
LEMMA SumFollowsLines ==
    ASSUME NEW t, NEW n \in Nat, NEW f, Adds(f, t, n),
           NEW last \in LineStarts(t, n), ~Leads(t, last, n)
    PROVE  Near(t, n, LineEnd(t, last, n), f[last + 1])
<1>1. last \in 0..(n - 1) /\ (last = 0 \/ t[last] = Newline)
  BY DEF LineStarts
<1>2. \A s \in LineStarts(t, n) : s <= last => s \in Before(t, n)
  BY DEF Before
<1>3. Before(t, n) \subseteq LineStarts(t, n)
  BY DEF Before
<1>4. Summed(f, t, n, 1)
  <2>1. 0 \in LineStarts(t, n) /\ 0 <= last /\ 0 \in 0..n /\ 1 \in 1..n /\ 1 - 1 = 0
    BY <1>1 DEF LineStarts
  <2>2. 0 \in Before(t, n)
    BY <1>2, <2>1
  <2>3. f[1] = 0 + (LineLength(t, 0, n) + 1)
    <3>1. f[0] = 0
      BY DEF Adds
    <3>2. f[1] = f[1 - 1] + (IF 1 - 1 \in Before(t, n) THEN LineLength(t, 1 - 1, n) + 1 ELSE 0)
      BY <2>1 DEF Adds
    <3> QED  BY <2>1, <2>2, <3>1, <3>2
  <2>4. Near(t, n, 0, 0)
    BY ReturnsGrow DEF Near
  <2>5. Near(t, n, LineEnd(t, 0, n), f[1])
    BY <2>1, <2>3, <2>4, NearGrows
  <2>6. \A i \in (0 + 1)..(1 - 1) : t[i] # Newline
    OBVIOUS
  <2> QED  BY <2>1, <2>5, <2>6 DEF Summed
<1>5. ASSUME NEW m \in 1..last, Summed(f, t, n, m) PROVE Summed(f, t, n, m + 1)
  <2>1. PICK s \in LineStarts(t, n) :
          /\ s < m /\ \A i \in (s + 1)..(m - 1) : t[i] # Newline
          /\ Near(t, n, LineEnd(t, s, n), f[m])
    BY <1>5 DEF Summed
  <2>2. /\ s \in 0..(n - 1) /\ s \in 0..n /\ m \in 0..n /\ m \in 1..(n - 1) /\ m \in Nat
        /\ m + 1 \in 1..n /\ (m + 1) - 1 = m
    BY <1>1 DEF LineStarts
  <2>3. f[m + 1] = f[m] + (IF m \in Before(t, n) THEN LineLength(t, m, n) + 1 ELSE 0)
    <3>1. f[m + 1] = f[(m + 1) - 1] + (IF (m + 1) - 1 \in Before(t, n)
                                      THEN LineLength(t, (m + 1) - 1, n) + 1 ELSE 0)
      BY <2>2 DEF Adds
    <3> QED  BY <2>2, <3>1
  <2>4. f[m] \in Nat
    BY <2>1 DEF Near
  <2>5. CASE t[m] = Newline
    <3>1. m \in LineStarts(t, n) /\ m \in Before(t, n)
      BY <1>2, <2>2, <2>5 DEF LineStarts
    <3>2. LineEnd(t, s, n) = m
      <4>1. /\ LineEnd(t, s, n) \in (s + 1)..(n + 1)
            /\ LineEnd(t, s, n) <= n => t[LineEnd(t, s, n)] = Newline
            /\ \A e \in (s + 1)..n : e < LineEnd(t, s, n) => t[e] # Newline
        BY <2>2, LineEndIs
      <4>2. ~(m < LineEnd(t, s, n))
        BY <2>1, <2>2, <2>5, <4>1
      <4>3. ~(LineEnd(t, s, n) < m)
        <5> SUFFICES ASSUME LineEnd(t, s, n) < m PROVE FALSE
          OBVIOUS
        <5>1. LineEnd(t, s, n) \in (s + 1)..(m - 1) /\ LineEnd(t, s, n) <= n
          BY <2>2, <4>1
        <5> QED  BY <2>1, <4>1, <5>1
      <4> QED  BY <2>2, <4>1, <4>2, <4>3
    <3>3. Near(t, n, m, f[m])
      BY <2>1, <3>2
    <3>4. Near(t, n, LineEnd(t, m, n), f[m] + (LineLength(t, m, n) + 1))
      BY <2>2, <3>3, NearGrows
    <3>5. f[m + 1] = f[m] + (LineLength(t, m, n) + 1)
      BY <2>3, <3>1
    <3>6. m < m + 1 /\ \A i \in (m + 1)..((m + 1) - 1) : t[i] # Newline
      BY <2>2
    <3> QED  BY <3>1, <3>4, <3>5, <3>6 DEF Summed
  <2>6. CASE t[m] # Newline
    <3>1. m \notin Before(t, n)
      BY <1>3, <2>2, <2>6 DEF LineStarts
    <3>2. f[m + 1] = f[m]
      BY <2>3, <2>4, <3>1
    <3>3. s < m + 1 /\ \A i \in (s + 1)..((m + 1) - 1) : t[i] # Newline
      <4>1. \A i \in (s + 1)..((m + 1) - 1) : i \in (s + 1)..(m - 1) \/ i = m
        BY <2>2
      <4> QED  BY <2>1, <2>2, <2>6, <4>1
    <3> QED  BY <2>1, <3>2, <3>3 DEF Summed
  <2> QED  BY <2>5, <2>6
<1>6. Summed(f, t, n, last + 1)
  <2> DEFINE Bad == {m \in 1..(last + 1) : ~Summed(f, t, n, m)}
  <2>1. ASSUME Bad # {} PROVE FALSE
    <3>1. PICK m \in Bad : \A k \in Bad : m <= k
      <4>1. Bad \in SUBSET Nat
        OBVIOUS
      <4> HIDE DEF Bad
      <4> QED  BY <2>1, <4>1, LeastNatural
    <3>2. m \in 1..(last + 1) /\ ~Summed(f, t, n, m)
      OBVIOUS
    <3>3. m # 1
      BY <1>4, <3>2
    <3>4. m - 1 \in 1..last /\ m - 1 \in 1..(last + 1) /\ ~(m <= m - 1) /\ (m - 1) + 1 = m
      BY <1>1, <3>2, <3>3
    <3>5. m - 1 \notin Bad
      BY <3>1, <3>4
    <3>6. Summed(f, t, n, m - 1)
      BY <3>4, <3>5
    <3> HIDE DEF Bad
    <3>7. Summed(f, t, n, (m - 1) + 1)
      BY <1>5, <3>4, <3>6
    <3> QED  BY <3>2, <3>4, <3>7
  <2>2. last + 1 \in 1..(last + 1)
    BY <1>1
  <2> QED  BY <2>1, <2>2
<1>7. PICK s \in LineStarts(t, n) :
        /\ s < last + 1 /\ \A i \in (s + 1)..((last + 1) - 1) : t[i] # Newline
        /\ Near(t, n, LineEnd(t, s, n), f[last + 1])
  BY <1>6 DEF Summed
<1>8. s = last
  <2>1. s \in 0..(n - 1)
    BY DEF LineStarts
  <2> SUFFICES ASSUME s < last PROVE FALSE
    BY <1>1, <1>7, <2>1
  <2>2. last \in (s + 1)..((last + 1) - 1) /\ last # 0
    BY <1>1, <2>1
  <2> QED  BY <1>1, <1>7, <2>2
<1> QED  BY <1>7, <1>8

-----------------------------------------------------------------------------
(* Lines that are not before the comment add nothing.                       *)
LEMMA SumRests ==
    ASSUME NEW t, NEW n \in Nat, NEW f, Adds(f, t, n), NEW k \in 0..n, f[k] \in Nat,
           \A m \in k..(n - 1) : m \notin Before(t, n)
    PROVE  f[n] = f[k]
<1> DEFINE Bad == {m \in k..n : f[m] # f[k]}
<1>1. ASSUME Bad # {} PROVE FALSE
  <2>1. PICK m \in Bad : \A j \in Bad : m <= j
    <3>1. Bad \in SUBSET Nat
      OBVIOUS
    <3> HIDE DEF Bad
    <3> QED  BY <1>1, <3>1, LeastNatural
  <2>2. m \in k..n /\ f[m] # f[k] /\ m # k
    OBVIOUS
  <2>3. m - 1 \in k..n /\ m - 1 \in k..(n - 1) /\ ~(m <= m - 1) /\ m \in 1..n
    BY <2>2
  <2>4. m - 1 \notin Bad
    BY <2>1, <2>3
  <2>5. f[m - 1] = f[k]
    BY <2>3, <2>4
  <2>6. f[m] = f[m - 1] + (IF m - 1 \in Before(t, n) THEN LineLength(t, m - 1, n) + 1 ELSE 0)
    BY <2>3 DEF Adds
  <2>7. m - 1 \notin Before(t, n)
    BY <2>3
  <2> QED  BY <2>2, <2>5, <2>6, <2>7
<1>2. n \in k..n
  OBVIOUS
<1> QED  BY <1>1, <1>2

(* Of the lines that do not lead there is a last.                           *)
LEMMA LastNotLeading ==
    ASSUME NEW t, NEW n \in Nat, NEW some \in LineStarts(t, n), ~Leads(t, some, n)
    PROVE  \E last \in LineStarts(t, n) :
               /\ ~Leads(t, last, n)
               /\ \A s \in LineStarts(t, n) : s > last => Leads(t, s, n)
<1> DEFINE Shifted == {i \in 1..n : i - 1 \in LineStarts(t, n) /\ ~Leads(t, i - 1, n)}
<1>1. \A s \in LineStarts(t, n) : s + 1 \in 1..n /\ (s + 1) - 1 = s
  BY DEF LineStarts
<1>2. \A s \in LineStarts(t, n) : ~Leads(t, s, n) => s + 1 \in Shifted
  BY <1>1
<1>3. PICK m \in Shifted : \A k \in Shifted : k <= m
  <2>1. Shifted \in SUBSET (1..n) /\ Shifted # {}
    BY <1>2
  <2> HIDE DEF Shifted
  <2> QED  BY <2>1, GreatestBelow
<1>4. m \in 1..n /\ m - 1 \in LineStarts(t, n) /\ ~Leads(t, m - 1, n)
  BY <1>3
<1>5. ASSUME NEW s \in LineStarts(t, n), s > m - 1, ~Leads(t, s, n) PROVE FALSE
  <2>1. s + 1 <= m
    BY <1>2, <1>3, <1>5
  <2> QED  BY <1>1, <1>4, <1>5, <2>1
<1> QED  BY <1>4, <1>5

(* Where a node's comment is taken to begin, and where it does.             *)
LEMMA LeadingStartIsNear ==
    ASSUME NEW t, NEW n \in Nat
    PROVE  LET begin == Min({p \in 0..n : BeginsComment(t, n, p)})
           IN  /\ LeadingStart(t, n) \in Nat
               /\ LeadingStart(t, n) <= begin
               /\ begin - LeadingStart(t, n) <= Cardinality(Returns(t, n))
<1> DEFINE Begins == {p \in 0..n : BeginsComment(t, n, p)}
           begin == Min(Begins)
<1>1. PICK f : Adds(f, t, n) /\ LeadingStart(t, n) = Min({n, f[n]})
  BY LeadingStartAdds
<1>2. ASSUME f[n] \in Nat
      PROVE  LeadingStart(t, n) = IF f[n] < n THEN f[n] ELSE n
  <2>1. {n, f[n]} \in SUBSET Nat /\ {n, f[n]} # {}
    BY <1>2
  <2>2. Min({n, f[n]}) \in {n, f[n]} /\ \A k \in {n, f[n]} : Min({n, f[n]}) <= k
    BY <2>1, MinIsLeast
  <2> QED  BY <1>1, <1>2, <2>2
<1>3. ASSUME NEW b \in 0..n, b \in Begins
      PROVE  begin \in Begins /\ begin \in 0..n /\ begin <= b
  <2>1. Begins \in SUBSET Nat
    OBVIOUS
  <2>2. Begins \subseteq 0..n
    OBVIOUS
  <2>3. Min(Begins) \in Begins /\ \A k \in Begins : Min(Begins) <= k
    <3> HIDE DEF Begins
    <3> QED  BY <1>3, <2>1, MinIsLeast
  <2> HIDE DEF Begins
  <2> QED  BY <1>3, <2>2, <2>3
<1>4. Cardinality(Returns(t, n)) \in Nat
  <2>1. 0 \in Nat /\ 0 <= 0
    OBVIOUS
  <2> QED  BY <2>1, ReturnsGrow
<1>5. CASE \A s \in LineStarts(t, n) : Leads(t, s, n)
  <2>1. Ends(t, n, 0)
    BY <1>5 DEF Ends
  <2>2. 0 \in 0..n /\ 0 \in Begins
    BY <2>1, CommentBegins
  <2>3. begin = 0
    <3> HIDE DEF begin, Begins
    <3> QED  BY <1>3, <2>2
  <2>4. Before(t, n) = {}
    BY <1>5 DEF Before
  <2>5. f[n] = 0
    <3>1. f[0] = 0 /\ f[0] \in Nat
      BY <1>1 DEF Adds
    <3>2. \A m \in 0..(n - 1) : m \notin Before(t, n)
      BY <2>4
    <3>3. f[n] = f[0]
      BY <1>1, <2>2, <3>1, <3>2, SumRests
    <3> QED  BY <3>1, <3>3
  <2>6. LeadingStart(t, n) = 0
    BY <1>2, <2>5
  <2> HIDE DEF begin, Begins
  <2>7. /\ LeadingStart(t, n) \in Nat /\ LeadingStart(t, n) <= begin
        /\ begin - LeadingStart(t, n) <= Cardinality(Returns(t, n))
    BY <1>4, <2>3, <2>6
  <2> QED  BY <2>7 DEF begin, Begins
<1>6. CASE \E s \in LineStarts(t, n) : ~Leads(t, s, n)
  <2>1. PICK last \in LineStarts(t, n) :
          /\ ~Leads(t, last, n)
          /\ \A s \in LineStarts(t, n) : s > last => Leads(t, s, n)
    BY <1>6, LastNotLeading
  <2>2. last \in 0..(n - 1) /\ last \in 0..n /\ last + 1 \in 0..n
    BY DEF LineStarts
  <2> DEFINE e == LineEnd(t, last, n)
             b == IF e <= n THEN e ELSE n
  <2>3. /\ e \in (last + 1)..(n + 1)
        /\ e <= n => t[e] = Newline
        /\ \A i \in (last + 1)..n : i < e => t[i] # Newline
    BY <2>2, LineEndIs
  <2>4. Near(t, n, e, f[last + 1])
    BY <1>1, <2>1, SumFollowsLines
  <2> HIDE DEF e
  <2>5. f[last + 1] \in Nat /\ f[last + 1] <= e /\ e - f[last + 1] <= Until(t, n, e)
    BY <2>4 DEF Near
  <2>6. f[n] = f[last + 1]
    <3>1. \A m \in (last + 1)..(n - 1) : m \notin Before(t, n)
      <4> SUFFICES ASSUME NEW m \in (last + 1)..(n - 1), m \in Before(t, n) PROVE FALSE
        OBVIOUS
      <4>1. PICK s \in LineStarts(t, n) : m <= s /\ ~Leads(t, s, n)
        BY DEF Before
      <4>2. s \in 0..(n - 1)
        BY DEF LineStarts
      <4>3. s > last
        BY <2>2, <4>1, <4>2
      <4> QED  BY <2>1, <4>1, <4>3
    <3> QED  BY <1>1, <2>2, <2>5, <3>1, SumRests
  <2>7. b \in 0..n /\ b \in Nat /\ b <= e
    BY <2>2, <2>3
  <2>8. Ends(t, n, b)
    <3>1. \A s \in LineStarts(t, n) : s >= b => s > last
      <4>1. \A s \in LineStarts(t, n) : s \in 0..(n - 1)
        BY DEF LineStarts
      <4> QED  BY <2>2, <2>3, <4>1
    <3>2. b \in {0, n} \/ t[b] = Newline
      BY <2>3
    <3> HIDE DEF b
    <3> QED  BY <2>1, <2>7, <3>1, <3>2 DEF Ends
  <2>9. b \in Begins
    <3> HIDE DEF b
    <3> QED  BY <2>7, <2>8, CommentBegins
  <2>10. begin \in Begins /\ begin \in 0..n /\ begin <= b
    <3> HIDE DEF begin, Begins, b
    <3> QED  BY <1>3, <2>7, <2>9
  <2>11. begin >= e \/ begin = n
    <3>1. BeginsComment(t, n, begin)
      <4> HIDE DEF begin
      <4> QED  BY <2>10
    <3> HIDE DEF begin, Begins
    <3> QED  BY <2>1, <2>10, <3>1, NothingBeginsAbove DEF e
  <2> HIDE DEF begin, Begins
  <2>12. begin = b
    BY <2>3, <2>7, <2>10, <2>11
  <2>13. /\ Until(t, n, e) \in Nat /\ Until(t, n, e) <= Cardinality(Returns(t, n))
    <3>1. 0 \in Nat /\ e \in Nat /\ 0 <= e
      BY <2>2, <2>3
    <3> QED  BY <3>1, ReturnsGrow
  <2>14. LeadingStart(t, n) = IF f[last + 1] < n THEN f[last + 1] ELSE n
    BY <1>2, <2>5, <2>6
  <2>15. LeadingStart(t, n) \in Nat /\ LeadingStart(t, n) <= begin
    BY <2>2, <2>3, <2>5, <2>12, <2>14
  <2>16. begin - LeadingStart(t, n) <= Cardinality(Returns(t, n))
    BY <1>4, <2>2, <2>3, <2>5, <2>12, <2>13, <2>14
  <2> QED  BY <2>15, <2>16 DEF begin, Begins
<1> QED  BY <1>5, <1>6

(* Every chunk of a node begins where with_leading_comment_start says.      *)
LEMMA ChunksTake ==
    ASSUME WalkInv, OnCharacters
    PROVE  ChunksTakeTheirComments
<1> SUFFICES ASSUME NEW k \in 1..Len(chunks), chunks[k].node # 0
             PROVE  LET n == tree[chunks[k].node].start
                        begin == Min({p \in 0..n : BeginsComment(new, n, p)})
                    IN  /\ chunks[k].start <= begin
                        /\ begin - chunks[k].start <= Cardinality(Returns(new, n))
                        /\ chunks[k].lost => chunks[k].start < begin
  BY Zenon DEF ChunksTakeTheirComments
<1>1. /\ tree \in Seq(Node)
      /\ chunks \in Seq({NodeChunk(i) : i \in 1..Len(tree)} \union {FileChunk})
  BY DEF WalkInv
<1>2. chunks[k] \in {NodeChunk(i) : i \in 1..Len(tree)} \union {FileChunk}
  BY <1>1, ElementOfSeq
<1>3. FileChunk.node = 0
  BY DEF FileChunk
<1>4. PICK i \in 1..Len(tree) : chunks[k] = NodeChunk(i)
  BY <1>2, <1>3
<1> DEFINE n == tree[i].start
           Begins == {p \in 0..n : BeginsComment(new, n, p)}
           begin == Min(Begins)
<1>5. /\ chunks[k].node = i /\ chunks[k].start = LeadingStart(new, n)
      /\ chunks[k].lost = ~Boundary(new, LeadingStart(new, n))
  BY <1>4 DEF NodeChunk
<1>6. tree[i] \in Node
  BY <1>1, ElementOfSeq
<1>7. n \in Nat
  BY <1>6 DEF Node
<1>8. /\ LeadingStart(new, n) \in Nat /\ LeadingStart(new, n) <= begin
      /\ begin - LeadingStart(new, n) <= Cardinality(Returns(new, n))
  BY <1>7, LeadingStartIsNear
<1>9. begin \in 0..n /\ (begin \in {0, n} \/ new[begin] = Newline)
  <2>1. n \in Begins
    <3> HIDE DEF n
    <3> QED  BY <1>7 DEF BeginsComment
  <2>2. Begins \in SUBSET Nat
    BY <1>7
  <2>3. begin \in Begins
    <3> HIDE DEF Begins
    <3> QED  BY <2>1, <2>2, MinIsLeast
  <2> HIDE DEF begin
  <2> QED  BY <2>3 DEF BeginsComment
<1>10. Boundary(new, begin)
  <2> HIDE DEF begin
  <2>1. Boundary(new, n) /\ IsText(new)
    BY DEF OnCharacters
  <2> QED  BY <1>7, <1>9, <2>1, BlanksEndOnBoundary
<1>11. chunks[k].lost => chunks[k].start < begin
  <2> SUFFICES ASSUME chunks[k].lost, ~(chunks[k].start < begin) PROVE FALSE
    OBVIOUS
  <2> HIDE DEF begin, n
  <2>1. LeadingStart(new, n) = begin
    BY <1>5, <1>7, <1>8, <1>9
  <2> QED  BY <1>5, <1>10, <2>1, Zenon
<1>12. tree[chunks[k].node].start = n
  BY <1>5
<1> HIDE DEF n
<1> QED  BY <1>5, <1>8, <1>11, <1>12

(* The texts and their trees begin and end with whole characters.           *)
LEMMA CharactersWhole == FileSpec => []OnCharacters
<1>1. OnCharacters /\ [FileNext]_<<vars, walkVars>> => OnCharacters'
  BY CharactersStay
<1> QED  BY <1>1, CharactersStart, PTL DEF FileSpec

(* Every chunk begins with the comment above its node, up to a byte for     *)
(* each line that ends with a carriage return, and has its text unless it   *)
(* begins too far up, for texts and trees of any size.                      *)
THEOREM CommentsTaken == FileSpec => []ChunksTakeTheirComments
<1>1. WalkInv /\ OnCharacters => ChunksTakeTheirComments
  BY ChunksTake
<1> QED  BY <1>1, WalkInvariant, CharactersWhole, PTL

-----------------------------------------------------------------------------
(* The results of a search *)

(* A tuple is a sequence.                                                   *)
LEMMA TupleIsSeq ==
    ASSUME NEW n \in Nat, NEW S, NEW f \in [1..n -> S]
    PROVE  f \in Seq(S) /\ Len(f) = n
OBVIOUS

(* The loaded chunks have ids, and Loaded is all of them.                   *)
LEMMA ChunksType ==
    /\ Len(Chunks) \in Nat /\ Len(Chunks) > 0
    /\ \A i \in 1..Len(Chunks) : Chunks[i].id \in Ids
    /\ Loaded = {Chunks[i].id : i \in 1..Len(Chunks)}
<1>1. Chunks \in Seq([id : Ids, symbol : Queries \union {"chunk"}]) /\ Chunks # <<>>
  BY RankingAssumption
<1> DEFINE Chunk == [id : Ids, symbol : Queries \union {"chunk"}]
<1>4. \A c \in Chunk : c.id \in Ids
  OBVIOUS
<1>2. Len(Chunks) \in Nat /\ Len(Chunks) > 0 /\ \A i \in 1..Len(Chunks) : Chunks[i].id \in Ids
  <2> HIDE DEF Chunk
  <2>1. Chunks \in Seq(Chunk) /\ Chunks # <<>>
    BY <1>1 DEF Chunk
  <2>2. Len(Chunks) \in Nat /\ Len(Chunks) > 0
    BY <2>1, EmptySeq
  <2>3. \A i \in 1..Len(Chunks) : Chunks[i] \in Chunk
    BY <2>1
  <2> QED  BY <1>4, <2>2, <2>3
<1>3. Loaded = {Chunks[i].id : i \in 1..Len(Chunks)}
  <2> DEFINE ids == [i \in 1..Len(Chunks) |-> Chunks[i].id]
  <2>1. DOMAIN ids = 1..Len(Chunks) /\ \A i \in 1..Len(Chunks) : ids[i] = Chunks[i].id
    OBVIOUS
  <2> QED  BY <2>1, Zenon DEF Loaded, ToSet
<1> QED  BY <1>2, <1>3

(* The chunk of a loaded id has that id. *)
LEMMA ChunkOfLoaded ==
    ASSUME NEW id \in Loaded
    PROVE  ChunkOf(id) \in 1..Len(Chunks) /\ Chunks[ChunkOf(id)].id = id
<1> DEFINE S == {i \in 1..Len(Chunks) : Chunks[i].id = id}
<1>1. Len(Chunks) \in Nat /\ S # {}
  BY ChunksType
<1>2. PICK m \in S : \A k \in S : k <= m
  BY <1>1, GreatestBelow
<1>3. \A j \in (m + 1)..Len(Chunks) : Chunks[j].id # id
  <2> SUFFICES ASSUME NEW j \in (m + 1)..Len(Chunks), Chunks[j].id = id PROVE FALSE
    OBVIOUS
  <2>1. j \in S /\ ~(j <= m)
    BY <1>1, <1>2
  <2> QED  BY <1>2, <2>1
<1>4. \E i \in 1..Len(Chunks) : Chunks[i].id = id /\ \A j \in (i + 1)..Len(Chunks) : Chunks[j].id # id
  BY <1>2, <1>3
<1> QED  BY <1>4, Zenon DEF ChunkOf

(* The exact symbol is at most one id, of a loaded chunk. *)
LEMMA ExactIsLoaded ==
    /\ ExactHits \in Seq(Ids)
    /\ ExactHits # <<>> => /\ Len(ExactHits) = 1
                           /\ ExactHits[1] \in Loaded /\ ExactHits[1] \in Ids
<1> DEFINE hits == {i \in 1..Len(Chunks) : Chunks[i].symbol = query}
           least == CHOOSE i \in hits : \A j \in hits : i <= j
<1>1. CASE hits = {}
  BY <1>1 DEF ExactHits
<1>2. CASE hits # {}
  <2>1. hits \in SUBSET Nat
    OBVIOUS
  <2>2. \E i \in hits : \A j \in hits : i <= j
    BY <1>2, <2>1, LeastNatural
  <2>3. least \in hits
    BY <2>2, Zenon
  <2>5. ExactHits = <<Chunks[least].id>>
    BY <1>2 DEF ExactHits
  <2>6. least \in 1..Len(Chunks)
    BY <2>3
  <2> HIDE DEF least, hits
  <2>4. Chunks[least].id \in Ids /\ Chunks[least].id \in Loaded
    BY <2>6, ChunksType
  <2> QED  BY <2>4, <2>5
<1> QED  BY <1>1, <1>2

(* The values of a sequence are finitely many, each at some place.          *)
LEMMA SeqValues ==
    ASSUME NEW S, NEW s \in Seq(S)
    PROVE  /\ ToSet(s) = {s[i] : i \in 1..Len(s)} /\ ToSet(s) \subseteq S
           /\ IsFiniteSet(ToSet(s))
           /\ \A x \in ToSet(s) : \E i \in 1..Len(s) : s[i] = x
           /\ \A i \in 1..Len(s) : s[i] \in ToSet(s)
<1>1. Len(s) \in Nat /\ s \in [1..Len(s) -> S] /\ DOMAIN s = 1..Len(s)
  BY LenProperties
<1>2. ToSet(s) = {s[i] : i \in 1..Len(s)}
  BY <1>1 DEF ToSet
<1>3. ToSet(s) \subseteq S /\ \A x \in ToSet(s) : \E i \in 1..Len(s) : s[i] = x
  BY <1>1, <1>2
<1>4. s \in [1..Len(s) -> ToSet(s)]
  BY <1>1, <1>2
<1>5. s \in Surjection(1..Len(s), ToSet(s))
  BY <1>3, <1>4 DEF Surjection
<1>6. IsFiniteSet(1..Len(s))
  BY <1>1, FS_Interval
<1>7. IsFiniteSet(ToSet(s))
  BY <1>5, <1>6, FS_Surjection
<1> QED  BY <1>2, <1>3, <1>4, <1>7

(* The order of a search has every id that its lists name. *)
LEMMA FusionsCover ==
    ASSUME RankTypeOK, NEW list \in Fusions
    PROVE  list \in Seq(Ids) /\ \A id \in Named : \E i \in 1..Len(list) : list[i] = id
<1>1. Named \subseteq Ids /\ IsFiniteSet(Named)
  BY SeqValues, FS_Union DEF RankTypeOK, Named
<1> DEFINE n == Cardinality(Named)
<1>2. n \in Nat
  BY <1>1, FS_CardinalityType
<1>3. list \in [1..n -> Named] /\ IsInjective(list)
  BY DEF Fusions, Named
<1>4. IsFiniteSet(1..n) /\ Cardinality(1..n) = n
  BY <1>2, FS_Interval
<1> HIDE DEF n
<1>5. list \in Seq(Ids) /\ Len(list) = n
  <2>1. list \in [1..n -> Ids]
    BY <1>1, <1>3
  <2> QED  BY <1>2, <2>1
<1>6. \A id \in Named : \E i \in 1..n : list[i] = id
  <2>1. IsFiniteSet(1..n) /\ Cardinality(1..n) = Cardinality(Named)
    BY <1>4 DEF n
  <2>2. list \in Injection(1..n, Named)
    BY <1>3 DEF Injection, IsInjective
  <2>3. list \in Surjection(1..n, Named)
    BY <1>1, <2>1, <2>2, FS_Injection
  <2> QED  BY <2>3 DEF Surjection
<1> QED  BY <1>5, <1>6

(* An order starts with the exact symbol and has every id that is named.    *)
LEMMA OrdersCover ==
    ASSUME RankTypeOK, NEW o \in Orders
    PROVE  /\ o \in Seq(Ids)
           /\ Named \subseteq ToSet(o)
           /\ ExactHits # <<>> => o # <<>> /\ o[1] = ExactHits[1]
<1>1. PICK list \in IF tier = "fast" THEN {lexical} ELSE Fusions : o = ExactHits \o list
  BY DEF Orders
<1>2. list \in Seq(Ids) /\ \A id \in Named : \E i \in 1..Len(list) : list[i] = id
  <2>1. CASE tier = "fast"
    <3>1. list = lexical /\ lexical \in Seq(Ids) /\ semantic = <<>>
      BY <1>1, <2>1 DEF RankTypeOK
    <3>2. ToSet(semantic) = {}
      BY <3>1 DEF ToSet
    <3>3. Named = ToSet(lexical)
      BY <3>2 DEF Named
    <3> QED  BY <3>1, <3>3, SeqValues
  <2>2. CASE tier # "fast"
    BY <1>1, <2>2, FusionsCover
  <2> QED  BY <2>1, <2>2
<1>3. ExactHits \in Seq(Ids) /\ Len(ExactHits) \in Nat /\ Len(list) \in Nat
  BY <1>2, ExactIsLoaded
<1>4. /\ o \in Seq(Ids) /\ Len(o) = Len(ExactHits) + Len(list)
      /\ \A i \in 1..(Len(ExactHits) + Len(list)) :
           o[i] = IF i <= Len(ExactHits) THEN ExactHits[i] ELSE list[i - Len(ExactHits)]
  BY <1>1, <1>2, <1>3, ConcatProperties
<1>5. ASSUME NEW id \in Named PROVE id \in ToSet(o)
  <2>1. PICK i \in 1..Len(list) : list[i] = id
    BY <1>2
  <2>2. /\ i + Len(ExactHits) \in 1..(Len(ExactHits) + Len(list))
        /\ ~(i + Len(ExactHits) <= Len(ExactHits))
        /\ (i + Len(ExactHits)) - Len(ExactHits) = i
    BY <1>3
  <2>3. o[i + Len(ExactHits)] = id /\ i + Len(ExactHits) \in 1..Len(o)
    BY <1>4, <2>1, <2>2
  <2> QED  BY <1>4, <2>3, SeqValues
<1>6. ASSUME ExactHits # <<>> PROVE o # <<>> /\ o[1] = ExactHits[1]
  <2>1. Len(ExactHits) = 1
    BY <1>6, ExactIsLoaded
  <2>2. 1 \in 1..(Len(ExactHits) + Len(list)) /\ Len(o) # 0
    BY <1>3, <1>4, <2>1
  <2> QED  BY <1>4, <2>1, <2>2
<1> QED  BY <1>4, <1>5, <1>6

-----------------------------------------------------------------------------
(* Every result is answered.                                                *)
LEMMA AnsweredOf ==
    ASSUME NEW k \in 1..Len(results)
    PROVE  Chunks[results[k]].id \in Answered
BY DEF Answered

(* A search starts without results.                                         *)
LEMMA RankStarts == RankInit => RankInv
<1> SUFFICES ASSUME RankInit PROVE RankInv
  OBVIOUS
<1>1. results = <<>> /\ ordered = <<>> /\ ranking = "listed" /\ Len(results) = 0
  BY DEF RankInit
<1>2. ASSUME NEW list \in Lists PROVE list \in Seq(Ids) /\ Len(list) \in 0..MaxListed
  <2>1. PICK n \in 0..MaxListed : list \in [1..n -> Ids]
    BY DEF Lists
  <2>2. n \in Nat
    BY RankingAssumption
  <2>3. list \in Seq(Ids) /\ Len(list) = n
    BY <2>1, <2>2
  <2> QED  BY <2>3
<1>3. /\ lexical \in Seq(Ids) /\ semantic \in Seq(Ids) /\ (tier = "fast" => semantic = <<>>)
      /\ Len(lexical) \in 0..MaxListed /\ Len(semantic) \in 0..MaxListed
  <2>1. lexical \in Seq(Ids) /\ Len(lexical) \in 0..MaxListed
    BY <1>2 DEF RankInit
  <2>2. CASE tier = "fast"
    <3>1. semantic = <<>> /\ <<>> \in Seq(Ids) /\ Len(<<>>) = 0 /\ 0 \in 0..MaxListed
      BY <2>2, RankingAssumption DEF RankInit
    <3> QED  BY <2>1, <3>1
  <2>3. CASE tier # "fast"
    BY <1>2, <2>1, <2>3 DEF RankInit
  <2> QED  BY <2>2, <2>3
<1>4. RankTypeOK
  BY <1>1, <1>3 DEF RankInit, RankTypeOK
<1>5. ResultsDiffer /\ ResultsAreCapped
  BY <1>1, RankingAssumption DEF ResultsDiffer, ResultsAreCapped, Cap, RankInit
<1>6. NamedAreKept /\ ExactComesFirst
  BY <1>1 DEF NamedAreKept, ExactComesFirst
<1> QED  BY <1>4, <1>5, <1>6 DEF RankInv

(* What is ordered is the exact symbol and then all that is named.          *)
LEMMA OrderKeepsInv ==
    ASSUME RankInv, Order
    PROVE  RankInv'
<1>1. /\ RankTypeOK /\ ordered' \in Orders /\ ranking = "listed" /\ ranking' = "ordered"
      /\ UNCHANGED <<tier, query, topK, lexical, semantic, results>>
  BY DEF Order, RankInv, inputs
<1>2. results = <<>> /\ Len(results) = 0
  BY <1>1 DEF RankTypeOK
<1>3. /\ ordered' \in Seq(Ids) /\ Named \subseteq ToSet(ordered')
      /\ ExactHits # <<>> => ordered' # <<>> /\ ordered'[1] = ExactHits[1]
  BY <1>1, OrdersCover
<1>4. RankTypeOK'
  BY <1>1, <1>3 DEF RankTypeOK
<1>5. ResultsDiffer' /\ ResultsAreCapped'
  BY <1>1, <1>2, RankingAssumption DEF ResultsDiffer, ResultsAreCapped, Cap, RankTypeOK
<1>6. NamedAreKept'
  <2>1. Named' = Named /\ Loaded' = Loaded
    BY <1>1 DEF Named, ToSet
  <2>2. ToSet(ordered)' = ToSet(ordered')
    BY DEF ToSet
  <2>3. Named' \intersect Loaded' \subseteq Answered' \union ToSet(ordered)'
    BY <1>3, <2>1, <2>2
  <2> QED  BY <1>1, <2>3 DEF NamedAreKept
<1>7. ExactHits' = ExactHits
  BY <1>1 DEF ExactHits
<1>8. ExactComesFirst'
  BY <1>1, <1>2, <1>3, <1>7 DEF ExactComesFirst
<1> QED  BY <1>4, <1>5, <1>6, <1>8 DEF RankInv

(* With nothing left in the order all that is named and loaded was taken.   *)
LEMMA TakeNoMoreKeepsInv ==
    ASSUME RankInv, TakeNoMore
    PROVE  RankInv'
<1>1. /\ RankTypeOK /\ ranking = "ordered" /\ ordered = <<>> /\ ranking' = "collected"
      /\ UNCHANGED <<tier, query, topK, lexical, semantic, results, ordered>>
  BY DEF TakeNoMore, RankInv, inputs
<1>2. ExactHits' = ExactHits /\ Answered' = Answered /\ Named' = Named
  BY <1>1 DEF ExactHits, Answered, Named, ToSet
<1>3. ToSet(ordered) = {}
  BY <1>1 DEF ToSet
<1>4. RankTypeOK' /\ ResultsDiffer' /\ ResultsAreCapped'
  BY <1>1 DEF RankTypeOK, ResultsDiffer, ResultsAreCapped, RankInv, Cap
<1>5. NamedAreKept'
  BY <1>1, <1>2, <1>3 DEF NamedAreKept, RankInv
<1>6. ASSUME ExactHits # <<>> PROVE ExactHits[1] \in Answered
  <2>1. results # <<>> /\ Chunks[results[1]].id = ExactHits[1]
    BY <1>1, <1>6 DEF RankInv, ExactComesFirst
  <2>2. 1 \in 1..Len(results)
    BY <1>1, <2>1, EmptySeq DEF RankTypeOK
  <2> QED  BY <2>1, <2>2, AnsweredOf
<1>7. ExactComesFirst'
  BY <1>1, <1>2, <1>6 DEF ExactComesFirst, RankInv
<1> QED  BY <1>4, <1>5, <1>7 DEF RankInv

(* Taking the next id keeps results different and within the cap, and       *)
(* leaves out only what was seen or is not loaded.                          *)
LEMMA TakeKeepsInv ==
    ASSUME RankInv, Take
    PROVE  RankInv'
<1> DEFINE h == Head(ordered)
           fresh == h \in Loaded /\ \A k \in 1..Len(results) : Chunks[results[k]].id # h
<1>1. /\ RankTypeOK /\ ranking = "ordered" /\ ordered # <<>> /\ ordered' = Tail(ordered)
      /\ UNCHANGED <<tier, query, topK, lexical, semantic>>
      /\ results' = IF fresh THEN Append(results, ChunkOf(h)) ELSE results
      /\ ranking' = IF Len(results') >= topK /\ results' # results THEN "collected"
                    ELSE ranking
  BY DEF Take, RankInv, inputs
<1>2. /\ ordered \in Seq(Ids) /\ results \in Seq(1..Len(Chunks)) /\ Len(results) \in Nat
      /\ topK \in Nat /\ Len(Chunks) \in Nat
  BY <1>1, RankingAssumption, ChunksType DEF RankTypeOK
<1>3. ExactHits' = ExactHits /\ Named' = Named /\ Cap' = Cap
  BY <1>1 DEF ExactHits, Named, ToSet, Cap
<1>4. /\ h \in Ids /\ h = ordered[1] /\ Tail(ordered) \in Seq(Ids)
      /\ ToSet(ordered) \subseteq ToSet(Tail(ordered)) \union {h}
  <2>1. /\ h \in Ids /\ h = ordered[1] /\ Tail(ordered) \in Seq(Ids)
        /\ Len(Tail(ordered)) = Len(ordered) - 1 /\ Len(ordered) \in Nat /\ Len(ordered) > 0
        /\ \A i \in 1..Len(Tail(ordered)) : Tail(ordered)[i] = ordered[i + 1]
    BY <1>1, <1>2, HeadTailProperties, EmptySeq
  <2>2. ASSUME NEW x \in ToSet(ordered), x # h PROVE x \in ToSet(Tail(ordered))
    <3>1. PICK i \in 1..Len(ordered) : ordered[i] = x
      BY <1>2, SeqValues
    <3>2. i # 1
      BY <2>1, <2>2, <3>1
    <3>3. i - 1 \in 1..Len(Tail(ordered)) /\ (i - 1) + 1 = i
      BY <2>1, <3>2
    <3>4. Tail(ordered)[i - 1] = x
      BY <2>1, <3>1, <3>3
    <3> QED  BY <2>1, <3>3, <3>4, SeqValues
  <2> QED  BY <2>1, <2>2
<1>5. CASE ~fresh
  <2>1. results' = results /\ ranking' = "ordered"
    BY <1>1, <1>5
  <2>2. Answered' = Answered
    BY <2>1 DEF Answered
  <2>3. RankTypeOK' /\ ResultsDiffer' /\ ResultsAreCapped'
    BY <1>1, <1>3, <1>4, <2>1 DEF RankTypeOK, ResultsDiffer, ResultsAreCapped, RankInv
  <2>4. h \in Loaded => h \in Answered
    BY <1>5 DEF Answered
  <2>5. Named \intersect Loaded \subseteq Answered \union ToSet(Tail(ordered))
    BY <1>1, <1>4, <2>4 DEF RankInv, NamedAreKept
  <2>6. NamedAreKept'
    BY <1>1, <1>3, <2>1, <2>2, <2>5 DEF NamedAreKept
  <2>7. ASSUME ExactHits # <<>>, results = <<>> PROVE FALSE
    <3>1. h = ExactHits[1] /\ h \in Loaded
      BY <1>1, <1>4, <2>7, ExactIsLoaded DEF RankInv, ExactComesFirst
    <3>2. Len(results) = 0
      BY <2>7
    <3> QED  BY <1>5, <3>1, <3>2
  <2>8. ExactComesFirst'
    BY <1>1, <1>3, <2>1, <2>7 DEF RankInv, ExactComesFirst
  <2> QED  BY <2>3, <2>6, <2>8 DEF RankInv
<1>6. CASE fresh
  <2>1. results' = Append(results, ChunkOf(h)) /\ h \in Loaded
    BY <1>1, <1>6
  <2>2. ChunkOf(h) \in 1..Len(Chunks) /\ Chunks[ChunkOf(h)].id = h
    BY <2>1, ChunkOfLoaded
  <2>3. /\ results' \in Seq(1..Len(Chunks)) /\ Len(results') = Len(results) + 1
        /\ \A i \in 1..Len(results) : results'[i] = results[i]
        /\ results'[Len(results) + 1] = ChunkOf(h)
    BY <1>2, <2>1, <2>2, AppendProperties
  <2>4. results' # results /\ results' # <<>>
    BY <1>2, <2>3
  <2>5. ranking' = IF Len(results) + 1 >= topK THEN "collected" ELSE "ordered"
    BY <1>1, <2>3, <2>4
  <2>6. RankTypeOK'
    BY <1>1, <1>4, <2>3, <2>5 DEF RankTypeOK
  <2>7. ResultsDiffer'
    <3> SUFFICES ASSUME NEW j \in 1..(Len(results) + 1), NEW k \in 1..(Len(results) + 1),
                        Chunks[results'[j]].id = Chunks[results'[k]].id
                 PROVE  j = k
      BY <2>3 DEF ResultsDiffer
    <3>1. \A i \in 1..(Len(results) + 1) : i \in 1..Len(results) \/ i = Len(results) + 1
      BY <1>2
    <3>2. CASE j \in 1..Len(results) /\ k \in 1..Len(results)
      BY <2>3, <3>2 DEF RankInv, ResultsDiffer
    <3>3. CASE j \in 1..Len(results) /\ k = Len(results) + 1
      BY <1>6, <2>2, <2>3, <3>3
    <3>4. CASE j = Len(results) + 1 /\ k \in 1..Len(results)
      BY <1>6, <2>2, <2>3, <3>4
    <3> QED  BY <3>1, <3>2, <3>3, <3>4
  <2>8. ResultsAreCapped'
    <3>1. Len(results) < Cap
      BY <1>1 DEF RankInv, ResultsAreCapped
    <3>2. Cap \in Nat /\ (topK # 0 => Cap = topK) /\ (topK = 0 => Cap = 1)
      BY <1>2 DEF Cap
    <3>3. Len(results) + 1 <= Cap /\ (ranking' = "ordered" => Len(results) + 1 < Cap)
      BY <1>2, <2>5, <3>1, <3>2
    <3> QED  BY <1>3, <2>3, <3>3 DEF ResultsAreCapped
  <2>9. Answered \union {h} \subseteq Answered'
    <3>1. \A k \in 1..Len(results) : k \in 1..Len(results') /\ results'[k] = results[k]
      BY <1>2, <2>3
    <3>2. Len(results) + 1 \in 1..Len(results')
      BY <1>2, <2>3
    <3>3. h \in Answered'
      BY <2>2, <2>3, <3>2 DEF Answered
    <3> QED  BY <3>1, <3>3 DEF Answered
  <2>10. NamedAreKept'
    <3>1. Named \intersect Loaded \subseteq Answered' \union ToSet(Tail(ordered))
      BY <1>1, <1>4, <2>9 DEF RankInv, NamedAreKept
    <3>2. ranking' # "ordered" => ~(Len(results') < topK)
      BY <1>2, <2>3, <2>5
    <3> QED  BY <1>1, <1>3, <2>5, <3>1, <3>2 DEF NamedAreKept
  <2>11. ASSUME ExactHits # <<>> PROVE Chunks[results'[1]].id = ExactHits[1]
    <3>1. CASE results = <<>>
      <4>1. h = ExactHits[1] /\ Len(results) = 0
        BY <1>1, <1>4, <2>11, <3>1 DEF RankInv, ExactComesFirst
      <4> QED  BY <2>2, <2>3, <4>1
    <3>2. CASE results # <<>>
      <4>1. Chunks[results[1]].id = ExactHits[1]
        BY <1>1, <2>11, <3>2 DEF RankInv, ExactComesFirst
      <4>2. 1 \in 1..Len(results)
        BY <1>2, <3>2, EmptySeq
      <4> QED  BY <2>3, <4>1, <4>2
    <3> QED  BY <3>1, <3>2
  <2>12. ExactComesFirst'
    <3>1. 1 \in 1..Len(results')
      BY <1>2, <2>3
    <3>2. Chunks[results'[1]].id \in Answered'
      BY <3>1 DEF Answered
    <3> QED  BY <1>3, <2>4, <2>11, <3>2 DEF ExactComesFirst
  <2> QED  BY <2>6, <2>7, <2>8, <2>10, <2>12 DEF RankInv
<1> QED  BY <1>5, <1>6

(* Ranking again permutes the results.                                      *)
LEMMA RerankKeepsInv ==
    ASSUME RankInv, Rerank
    PROVE  RankInv'
<1> DEFINE n == Len(results)
           head == {i \in 1..n : i <= RerankTopN}
<1>1. /\ RankTypeOK /\ ranking = "collected" /\ ranking' = "answered"
      /\ UNCHANGED <<tier, query, topK, lexical, semantic, ordered>>
  BY DEF Rerank, RankInv, inputs
<1>2. results \in Seq(1..Len(Chunks)) /\ n \in Nat /\ DOMAIN results = 1..n
  BY <1>1 DEF RankTypeOK
<1>3. ExactHits' = ExactHits /\ Named' = Named /\ Cap' = Cap
  BY <1>1 DEF ExactHits, Named, ToSet, Cap
<1>4. PICK g \in [1..n -> 1..n] :
        /\ \A j, k \in 1..n : g[j] = g[k] => j = k
        /\ \A j \in 1..n : \E i \in 1..n : g[i] = j
        /\ results' = [i \in 1..n |-> results[g[i]]]
        /\ tier # "rerank" => results' = results
  <2>1. CASE tier # "rerank"
    <3> DEFINE same == [i \in 1..n |-> i]
    <3>1. results' = results
      BY <2>1 DEF Rerank
    <3>2. results = [i \in 1..n |-> results[same[i]]]
      BY <1>2
    <3>3. /\ same \in [1..n -> 1..n] /\ \A j, k \in 1..n : same[j] = same[k] => j = k
          /\ \A j \in 1..n : \E i \in 1..n : same[i] = j
      OBVIOUS
    <3> HIDE DEF same
    <3> QED  BY <3>1, <3>2, <3>3
  <2>2. CASE tier = "rerank"
    <3>1. PICK place \in {f \in [head -> head] : IsInjective(f)} :
            results' = [i \in DOMAIN results |->
                           IF i \in head THEN results[place[i]] ELSE results[i]]
      BY <2>2 DEF Rerank
    <3> DEFINE g == [i \in 1..n |-> IF i \in head THEN place[i] ELSE i]
    <3>2. IsFiniteSet(head) /\ head \subseteq 1..n
      <4>1. IsFiniteSet(1..n)
        BY <1>2, FS_Interval
      <4> QED  BY <4>1, FS_Subset
    <3>3. place \in [head -> head] /\ \A j, k \in head : place[j] = place[k] => j = k
      BY <3>1 DEF IsInjective
    <3>4. \A j \in head : \E i \in head : place[i] = j
      <4>1. place \in Injection(head, head)
        BY <3>1 DEF Injection, IsInjective
      <4>2. place \in Surjection(head, head)
        BY <3>2, <4>1, FS_Injection
      <4> QED  BY <4>2 DEF Surjection
    <3> HIDE DEF head, n
    <3>5. g \in [1..n -> 1..n] /\ \A i \in 1..n : g[i] = IF i \in head THEN place[i] ELSE i
      BY <3>2, <3>3
    <3>6. \A j, k \in 1..n : g[j] = g[k] => j = k
      BY <3>3, <3>5
    <3>7. \A j \in 1..n : \E i \in 1..n : g[i] = j
      <4> TAKE j \in 1..n
      <4>1. CASE j \in head
        BY <3>2, <3>4, <3>5, <4>1
      <4>2. CASE j \notin head
        BY <3>5, <4>2
      <4> QED  BY <4>1, <4>2
    <3>8. results' = [i \in 1..n |-> results[g[i]]]
      <4>1. results' = [i \in 1..n |-> IF i \in head THEN results[place[i]] ELSE results[i]]
        BY <1>2, <3>1
      <4>2. \A i \in 1..n : results[g[i]] = IF i \in head THEN results[place[i]] ELSE results[i]
        BY <3>5
      <4> QED  BY <4>1, <4>2
    <3> HIDE DEF g
    <3> QED  BY <2>2, <3>5, <3>6, <3>7, <3>8
  <2> QED  BY <2>1, <2>2
<1>5. /\ results' \in Seq(1..Len(Chunks)) /\ Len(results') = n
      /\ \A i \in 1..n : results'[i] = results[g[i]] /\ g[i] \in 1..n
  <2>0. \A i \in 1..n : g[i] \in 1..n
    BY <1>4
  <2>3. \A i \in 1..n : results[i] \in 1..Len(Chunks)
    BY <1>2
  <2>4. \A i \in 1..n : results[g[i]] \in 1..Len(Chunks)
    BY <2>0, <2>3
  <2>1. results' \in [1..n -> 1..Len(Chunks)]
    BY <1>4, <2>4
  <2>2. results' \in Seq(1..Len(Chunks)) /\ Len(results') = n
    <3>1. n \in Nat
      BY <1>2
    <3> HIDE DEF n
    <3> QED  BY <2>1, <3>1, TupleIsSeq
  <2> QED  BY <1>4, <2>2
<1>6. Answered' = Answered
  <2>1. Answered' = {Chunks[results'[k]].id : k \in 1..n}
    BY <1>5 DEF Answered
  <2>2. ASSUME NEW k \in 1..n PROVE Chunks[results'[k]].id \in Answered
    BY <1>5 DEF Answered
  <2>3. ASSUME NEW k \in 1..n PROVE Chunks[results[k]].id \in {Chunks[results'[i]].id : i \in 1..n}
    <3>1. PICK i \in 1..n : g[i] = k
      BY <1>4
    <3> QED  BY <1>5, <3>1
  <2>4. Answered = {Chunks[results[k]].id : k \in 1..n}
    BY DEF Answered
  <2> QED  BY <2>1, <2>2, <2>3, <2>4
<1>7. RankTypeOK'
  BY <1>1, <1>5 DEF RankTypeOK
<1>8. ResultsDiffer'
  <2> SUFFICES ASSUME NEW j \in 1..n, NEW k \in 1..n,
                      Chunks[results'[j]].id = Chunks[results'[k]].id
               PROVE  j = k
    BY <1>5 DEF ResultsDiffer
  <2>1. /\ g[j] \in 1..n /\ g[k] \in 1..n
        /\ results'[j] = results[g[j]] /\ results'[k] = results[g[k]]
    BY <1>5
  <2>2. Chunks[results[g[j]]].id = Chunks[results[g[k]]].id
    BY <2>1
  <2>3. \A a, b \in 1..n : Chunks[results[a]].id = Chunks[results[b]].id => a = b
    BY DEF RankInv, ResultsDiffer
  <2>4. g[j] = g[k]
    BY <2>1, <2>2, <2>3
  <2> QED  BY <1>4, <2>4
<1>9. ResultsAreCapped'
  BY <1>1, <1>3, <1>5 DEF ResultsAreCapped, RankInv
<1>10. NamedAreKept'
  BY <1>1, <1>3, <1>5, <1>6 DEF NamedAreKept, RankInv
<1>11. ExactComesFirst'
  <2>1. tier # "rerank" => results' = results
    BY <1>4
  <2> QED  BY <1>1, <1>3, <1>6, <2>1 DEF ExactComesFirst, RankInv
<1> QED  BY <1>7, <1>8, <1>9, <1>10, <1>11 DEF RankInv

(* Nothing changes when no variable does.                                   *)
LEMMA RankStutters ==
    ASSUME RankInv, UNCHANGED rankVars
    PROVE  RankInv'
<1>1. UNCHANGED <<tier, query, topK, lexical, semantic, ordered, results, ranking>>
  BY DEF rankVars
<1>2. /\ Answered' = Answered /\ ExactHits' = ExactHits /\ Named' = Named /\ Cap' = Cap
      /\ ToSet(ordered)' = ToSet(ordered)
  BY <1>1 DEF Answered, ExactHits, Named, Cap, ToSet
<1>3. RankTypeOK'
  BY <1>1 DEF RankInv, RankTypeOK
<1>4. ResultsDiffer'
  BY <1>1 DEF RankInv, ResultsDiffer
<1>5. ResultsAreCapped'
  BY <1>1, <1>2 DEF RankInv, ResultsAreCapped
<1>6. NamedAreKept'
  BY <1>1, <1>2 DEF RankInv, NamedAreKept
<1>7. ExactComesFirst'
  BY <1>1, <1>2 DEF RankInv, ExactComesFirst
<1> QED  BY <1>3, <1>4, <1>5, <1>6, <1>7 DEF RankInv

(* The inductive invariant of a ranking: results differ and are capped,     *)
(* what is named and loaded is taken or still ordered, and the exact symbol *)
(* is first.                                                                *)
THEOREM RankInvariant == RankSpec => []RankInv
<1>1. RankInit => RankInv
  BY RankStarts
<1>2. RankInv /\ [RankNext]_rankVars => RankInv'
  BY OrderKeepsInv, TakeKeepsInv, TakeNoMoreKeepsInv, RerankKeepsInv, RankStutters DEF RankNext
<1> QED  BY <1>1, <1>2, PTL DEF RankSpec

(* scoped_project_results answers different chunks, as many as asked for or *)
(* all that the lists name, and the exact symbol first, for any chunks and  *)
(* lists.                                                                   *)
THEOREM ResultsNamed == RankSpec => []ResultsAreThoseNamed
<1>1. RankInv => ResultsAreThoseNamed
  <2> SUFFICES ASSUME RankInv, ranking = "answered"
               PROVE  /\ Cardinality(Answered) = Len(results)
                      /\ Len(results) <= Cap
                      /\ Len(results) < topK => Named \intersect Loaded \subseteq Answered
                      /\ ExactHits # <<>> =>
                            /\ ExactHits[1] \in Answered
                            /\ tier # "rerank" => Chunks[results[1]].id = ExactHits[1]
    BY DEF ResultsAreThoseNamed
  <2>1. results \in Seq(1..Len(Chunks)) /\ Len(results) \in Nat
    BY DEF RankInv, RankTypeOK
  <2>2. Cardinality(Answered) = Len(results)
    <3> DEFINE n == Len(results)
               f == [k \in 1..n |-> Chunks[results[k]].id]
    <3>1. /\ f \in [1..n -> Answered]
          /\ \A k \in 1..n : f[k] = Chunks[results[k]].id
      BY DEF Answered
    <3>2. \A j, k \in 1..n : f[j] = f[k] => j = k
      BY <3>1 DEF RankInv, ResultsDiffer
    <3>3. \A x \in Answered : \E k \in 1..n : f[k] = x
      BY <3>1 DEF Answered
    <3> HIDE DEF f
    <3>4. f \in Bijection(1..n, Answered)
      BY <3>1, <3>2, <3>3 DEF Bijection, Injection, Surjection, IsInjective
    <3>5. ExistsBijection(1..n, Answered)
      BY <3>4 DEF ExistsBijection
    <3> QED  BY <2>1, <3>5, FS_CountingElements
  <2>3. ASSUME ExactHits # <<>>, tier # "rerank" PROVE Chunks[results[1]].id = ExactHits[1]
    <3>1. results # <<>>
      <4>1. ExactHits[1] \in Answered
        BY <2>3 DEF RankInv, ExactComesFirst
      <4>2. \A k : k \in 1..0 => FALSE
        OBVIOUS
      <4> QED  BY <4>1, <4>2 DEF Answered
    <3> QED  BY <2>3, <3>1 DEF RankInv, ExactComesFirst
  <2> QED  BY <2>2, <2>3 DEF RankInv, ResultsAreCapped, NamedAreKept, ExactComesFirst
<1> QED  BY <1>1, RankInvariant, PTL

-----------------------------------------------------------------------------
(* The fusion of two lists *)

(* Facts about products that the fractions of rrf_fuse rest on.             *)
LEMMA Products ==
    ASSUME NEW a \in Nat, NEW b \in Nat, NEW c \in Nat
    PROVE  /\ a * b \in Nat /\ (a > 0 /\ b > 0 => a * b > 0)
           /\ (a * b) * c = (a * c) * b
           /\ a <= b => a * c <= b * c
           /\ a < b /\ c > 0 => c * a < c * b
           /\ b > 0 => (a * b) \div b = a
<1>1. a * b \in Nat /\ (a > 0 /\ b > 0 => a * b > 0)
  OBVIOUS
<1>2. (a * b) * c = (a * c) * b
  OBVIOUS
<1>3. a <= b => a * c <= b * c
  OBVIOUS
<1>4. a < b /\ c > 0 => c * a < c * b
  OBVIOUS
<1>5. b > 0 => (a * b) \div b = a
  OBVIOUS
<1> QED  BY <1>1, <1>2, <1>3, <1>4, <1>5

(* The function that a recursion over 0..n defines is the one that fits it. *)
ProductFits(f, n) ==
    f = [i \in 0..n |-> IF i = 0 THEN 1 ELSE f[i - 1] * (K + i)]
Product(f, n) ==
    /\ ProductFits(f, n)
    /\ f[n] \in Nat /\ f[n] > 0
    /\ \A r \in 1..n : \E q \in Nat : q > 0 /\ f[n] = q * (K + r)

(* The product goes on from n to n + 1, and each of its factors divides it. *)
LEMMA ProductGrows ==
    ASSUME NEW n \in Nat, NEW f, Product(f, n)
    PROVE  \E g : Product(g, n + 1)
<1> DEFINE g == [i \in 0..(n + 1) |-> IF i = n + 1 THEN f[n] * (K + i) ELSE f[i]]
<1>1. \A i \in 0..(n + 1) : g[i] = IF i = n + 1 THEN f[n] * (K + i) ELSE f[i]
  OBVIOUS
<1>2. \A i \in 0..n : f[i] = IF i = 0 THEN 1 ELSE f[i - 1] * (K + i)
  BY Zenon DEF Product, ProductFits
<1> HIDE DEF g
<1>3. ASSUME NEW i \in 0..(n + 1)
      PROVE  g[i] = IF i = 0 THEN 1 ELSE g[i - 1] * (K + i)
  <2>1. CASE i = n + 1
    <3>1. i # 0 /\ i - 1 = n /\ n \in 0..(n + 1) /\ n # n + 1
      BY <2>1
    <3>2. g[i - 1] = f[n]
      BY <1>1, <3>1
    <3> QED  BY <1>1, <2>1, <3>1, <3>2
  <2>2. CASE i = 0
    <3>1. 0 \in 0..n /\ 0 \in 0..(n + 1) /\ 0 # n + 1
      OBVIOUS
    <3> QED  BY <1>1, <1>2, <2>2, <3>1
  <2>3. CASE i # 0 /\ i # n + 1
    <3>1. i \in 0..n /\ i - 1 \in 0..(n + 1) /\ i - 1 # n + 1
      BY <2>3
    <3> QED  BY <1>1, <1>2, <2>3, <3>1
  <2> QED  BY <2>1, <2>2, <2>3
<1>4. ProductFits(g, n + 1)
  <2>1. g = [i \in 0..(n + 1) |-> g[i]]
    BY DEF g
  <2> QED  BY <1>3, <2>1 DEF ProductFits
<1>5. f[n] \in Nat /\ f[n] > 0 /\ K + (n + 1) \in Nat /\ K + (n + 1) > 0
  BY DEF Product, K
<1>6. g[n + 1] = f[n] * (K + (n + 1))
  BY <1>1
<1>7. ASSUME NEW r \in 1..(n + 1) PROVE \E q \in Nat : q > 0 /\ g[n + 1] = q * (K + r)
  <2>1. CASE r = n + 1
    BY <1>5, <1>6, <2>1
  <2>2. CASE r # n + 1
    <3>1. r \in 1..n
      BY <2>2
    <3>2. PICK q \in Nat : q > 0 /\ f[n] = q * (K + r)
      BY <3>1 DEF Product
    <3> DEFINE p == q * (K + (n + 1))
    <3>3. K + r \in Nat
      BY <3>1 DEF K
    <3>4. p \in Nat /\ p > 0
      BY <1>5, <3>2, Products
    <3>5. (q * (K + r)) * (K + (n + 1)) = p * (K + r)
      BY <1>5, <3>3, Products
    <3>6. g[n + 1] = p * (K + r)
      BY <1>6, <3>2, <3>5
    <3> HIDE DEF p
    <3> QED  BY <3>4, <3>6
  <2> QED  BY <2>1, <2>2
<1>8. g[n + 1] \in Nat /\ g[n + 1] > 0
  BY <1>5, <1>6, Products
<1> QED  BY <1>4, <1>7, <1>8 DEF Product

(* The product is defined for every n.                                      *)
LEMMA ProductExists ==
    ASSUME NEW n \in Nat
    PROVE  \E f : Product(f, n)
<1> DEFINE Bad == {m \in Nat : ~ \E f : Product(f, m)}
<1>1. ASSUME Bad # {} PROVE FALSE
  <2>1. PICK m \in Bad : \A k \in Bad : m <= k
    <3>1. Bad \in SUBSET Nat
      OBVIOUS
    <3> HIDE DEF Bad
    <3> QED  BY <1>1, <3>1, LeastNatural
  <2>2. m \in Nat /\ ~ \E f : Product(f, m)
    OBVIOUS
  <2>3. CASE m = 0
    <3> DEFINE one == [i \in 0..0 |-> 1]
    <3>1. \A i \in 0..0 : i = 0
      OBVIOUS
    <3>2. one = [i \in 0..0 |-> IF i = 0 THEN 1 ELSE one[i - 1] * (K + i)]
      BY <3>1
    <3>3. Product(one, 0)
      <4>1. ProductFits(one, 0)
        BY <3>2 DEF ProductFits
      <4>2. one[0] = 1
        OBVIOUS
      <4>3. \A r : r \notin 1..0
        OBVIOUS
      <4> HIDE DEF one
      <4> QED  BY <4>1, <4>2, <4>3 DEF Product
    <3> QED  BY <2>2, <2>3, <3>3
  <2>4. CASE m # 0
    <3>1. m - 1 \in Nat /\ ~(m <= m - 1) /\ (m - 1) + 1 = m
      BY <2>2, <2>4
    <3>2. m - 1 \notin Bad
      BY <2>1, <3>1
    <3>3. PICK f : Product(f, m - 1)
      BY <3>1, <3>2
    <3> HIDE DEF Bad
    <3>4. \E g : Product(g, (m - 1) + 1)
      BY <3>1, <3>3, ProductGrows
    <3> QED  BY <2>2, <3>1, <3>4
  <2> QED  BY <2>3, <2>4
<1> QED  BY <1>1

(* It is the only function that fits its equation.                          *)
LEMMA ProductUnique ==
    ASSUME NEW n \in Nat, NEW f, NEW g, ProductFits(f, n), ProductFits(g, n)
    PROVE  f[n] = g[n]
<1> DEFINE Bad == {i \in 0..n : f[i] # g[i]}
<1>1. /\ \A i \in 0..n : f[i] = IF i = 0 THEN 1 ELSE f[i - 1] * (K + i)
      /\ \A i \in 0..n : g[i] = IF i = 0 THEN 1 ELSE g[i - 1] * (K + i)
  BY Zenon DEF ProductFits
<1>2. ASSUME Bad # {} PROVE FALSE
  <2>1. PICK i \in Bad : \A k \in Bad : i <= k
    <3>1. Bad \in SUBSET Nat
      OBVIOUS
    <3> HIDE DEF Bad
    <3> QED  BY <1>2, <3>1, LeastNatural
  <2>2. i \in 0..n /\ f[i] # g[i]
    OBVIOUS
  <2>3. i # 0 => f[i - 1] = g[i - 1]
    <3> SUFFICES ASSUME i # 0 PROVE i - 1 \in 0..n /\ i - 1 \notin Bad
      OBVIOUS
    <3>1. i - 1 \in 0..n /\ ~(i <= i - 1)
      BY <2>2
    <3> QED  BY <2>1, <3>1
  <2> HIDE DEF Bad
  <2> QED  BY <1>1, <2>2, <2>3
<1>3. n \in 0..n
  OBVIOUS
<1> QED  BY <1>2, <1>3

(* The common denominator is a multiple of K plus any rank.                 *)
LEMMA DenominatorDivides ==
    ASSUME NEW r \in 1..MaxListed
    PROVE  \E q \in Nat : q > 0 /\ Denominator = q * (K + r) /\ Denominator \div (K + r) = q
<1>1. MaxListed \in Nat
  BY RankingAssumption
<1>2. PICK f : Product(f, MaxListed)
  BY <1>1, ProductExists
<1>3. ProductFits(CHOOSE g : ProductFits(g, MaxListed), MaxListed)
  BY <1>2 DEF Product
<1>4. Denominator = (CHOOSE g : ProductFits(g, MaxListed))[MaxListed]
  BY Zenon DEF Denominator, ProductFits
<1>5. Denominator = f[MaxListed]
  BY <1>1, <1>2, <1>3, <1>4, ProductUnique DEF Product
<1>6. PICK q \in Nat : q > 0 /\ Denominator = q * (K + r)
  BY <1>2, <1>5 DEF Product
<1>7. K + r \in Nat /\ K + r > 0
  BY <1>1 DEF K
<1>8. (q * (K + r)) \div (K + r) = q
  BY <1>7, Products
<1> QED  BY <1>6, <1>8

(* A higher rank weighs more.                                               *)
LEMMA HigherWeighsMore ==
    ASSUME NEW x \in 1..MaxListed, NEW y \in 1..MaxListed, x < y
    PROVE  /\ Denominator \div (K + x) \in Nat /\ Denominator \div (K + y) \in Nat
           /\ Denominator \div (K + x) > Denominator \div (K + y)
<1>1. PICK p \in Nat : p > 0 /\ Denominator = p * (K + x) /\ Denominator \div (K + x) = p
  BY DenominatorDivides
<1>2. PICK q \in Nat : q > 0 /\ Denominator = q * (K + y) /\ Denominator \div (K + y) = q
  BY DenominatorDivides
<1>3. K + x \in Nat /\ K + y \in Nat /\ K + x < K + y
  BY RankingAssumption DEF K
<1>4. ASSUME p <= q PROVE FALSE
  <2>1. p * (K + x) < p * (K + y)
    BY <1>1, <1>3, Products
  <2>2. p * (K + y) <= q * (K + y)
    BY <1>3, <1>4, Products
  <2>3. p * (K + x) \in Nat /\ p * (K + y) \in Nat /\ q * (K + y) \in Nat
    BY <1>3, Products
  <2>4. p * (K + x) = q * (K + y)
    BY <1>1, <1>2
  <2> QED  BY <2>1, <2>2, <2>3, <2>4
<1> QED  BY <1>1, <1>2, <1>4

(* A list that names an id once gives it the weight of its rank.            *)
LEMMA PartOfOnce ==
    ASSUME NEW list, Len(list) \in 0..MaxListed, NEW weight \in Nat, NEW id,
           Cardinality(Ranks(list, id)) = 1
    PROVE  /\ RankOf(list, id) \in 1..MaxListed
           /\ Part(list, weight, id) = weight * (Denominator \div (K + RankOf(list, id)))
<1> DEFINE r == RankOf(list, id)
           n == Len(list)
           given(i) == weight * (Denominator \div (K + i))
           Fits(f) == f = [i \in 0..n |->
                             IF i = 0 THEN 0
                             ELSE f[i - 1] + (IF list[i] = id THEN given(i) ELSE 0)]
           g == [i \in 0..n |-> IF i < r THEN 0 ELSE given(r)]
           sum == CHOOSE f : Fits(f)
<1>1. MaxListed \in Nat /\ n \in Nat /\ n <= MaxListed
  BY RankingAssumption
<1>2. r \in 1..n /\ list[r] = id /\ \A i \in 1..n : list[i] = id => i = r
  <2>1. IsFiniteSet(1..n)
    BY <1>1, FS_Interval
  <2>2. Ranks(list, id) \subseteq 1..n /\ IsFiniteSet(Ranks(list, id))
    BY <2>1, FS_Subset DEF Ranks
  <2>3. PICK m : Ranks(list, id) = {m}
    BY <2>2, FS_Singleton
  <2>4. r = m
    BY <2>3 DEF RankOf
  <2>5. \A i : i \in Ranks(list, id) <=> i = r
    BY <2>3, <2>4
  <2> HIDE DEF r
  <2> QED  BY <2>5 DEF Ranks
<1>3. r \in 1..MaxListed
  BY <1>1, <1>2
<1>4. given(r) \in Nat
  <2>1. Denominator \div (K + r) \in Nat
    BY <1>3, DenominatorDivides
  <2> QED  BY <2>1, Products
<1> HIDE DEF r, given
<1>5. \A i \in 0..n : g[i] = IF i < r THEN 0 ELSE given(r)
  OBVIOUS
<1>6. ASSUME NEW i \in 0..n
      PROVE  g[i] = IF i = 0 THEN 0 ELSE g[i - 1] + (IF list[i] = id THEN given(i) ELSE 0)
  <2> HIDE DEF g
  <2>1. i = 0 \/ (i # 0 /\ i \in 1..n /\ i - 1 \in 0..n)
    BY <1>1
  <2>2. CASE i = 0
    BY <1>2, <1>5, <2>2
  <2>3. CASE i # 0
    <3>1. i \in 1..n /\ i - 1 \in 0..n
      BY <2>1, <2>3
    <3>2. CASE i < r
      <4>1. g[i] = 0 /\ g[i - 1] = 0 /\ list[i] # id
        BY <1>2, <1>5, <3>1, <3>2
      <4> QED  BY <2>3, <4>1
    <3>3. CASE i = r
      <4>1. g[i] = given(i) /\ g[i - 1] = 0 /\ list[i] = id /\ given(i) \in Nat
        BY <1>2, <1>4, <1>5, <3>1, <3>3
      <4> QED  BY <2>3, <4>1
    <3>4. CASE i > r
      <4>1. g[i] = given(r) /\ g[i - 1] = given(r) /\ list[i] # id /\ given(r) \in Nat
        BY <1>2, <1>4, <1>5, <3>1, <3>4
      <4> QED  BY <2>3, <4>1
    <3> QED  BY <1>2, <3>1, <3>2, <3>3, <3>4
  <2> QED  BY <2>2, <2>3
<1>7. Fits(sum)
  <2>1. Fits(g)
    BY <1>6
  <2> HIDE DEF Fits, g
  <2> QED  BY <2>1
<1>8. \A i \in 0..n : sum[i] = IF i = 0 THEN 0
                               ELSE sum[i - 1] + (IF list[i] = id THEN given(i) ELSE 0)
  <2> HIDE DEF sum
  <2> QED  BY <1>7, Zenon
<1>9. \A i \in 0..n : sum[i] = g[i]
  <2> DEFINE Bad == {i \in 0..n : sum[i] # g[i]}
  <2> SUFFICES ASSUME Bad # {} PROVE FALSE
    OBVIOUS
  <2> HIDE DEF sum, g
  <2>1. PICK i \in Bad : \A k \in Bad : i <= k
    <3>1. Bad \in SUBSET Nat
      OBVIOUS
    <3> HIDE DEF Bad
    <3> QED  BY <3>1, LeastNatural
  <2>2. i \in 0..n /\ sum[i] # g[i]
    OBVIOUS
  <2>3. i # 0 => sum[i - 1] = g[i - 1]
    <3> SUFFICES ASSUME i # 0 PROVE i - 1 \in 0..n /\ i - 1 \notin Bad
      OBVIOUS
    <3>1. i - 1 \in 0..n /\ ~(i <= i - 1)
      BY <1>1, <2>2
    <3> QED  BY <2>1, <3>1
  <2> HIDE DEF Bad
  <2> QED  BY <1>6, <1>8, <2>2, <2>3
<1>10. Part(list, weight, id) = sum[n]
  BY Zenon DEF Part, given
<1>11. g[n] = given(r)
  BY <1>1, <1>2, <1>5
<1>12. Part(list, weight, id) = given(r)
  BY <1>1, <1>9, <1>10, <1>11
<1> QED  BY <1>3, <1>12 DEF r, given

(* An id that both lists rank higher, or the lexical list of two that       *)
(* exchange their ranks, has the higher score.                              *)
LEMMA HigherScoresMore ==
    ASSUME Len(lexical) \in 0..MaxListed, Len(semantic) \in 0..MaxListed,
           NEW x \in NamedOnceByBoth, NEW y \in NamedOnceByBoth, RanksHigher(x, y)
    PROVE  Score(x) \in Nat /\ Score(y) \in Nat /\ Score(y) < Score(x)
<1> DEFINE weight(r) == Denominator \div (K + r)
           lx == RankOf(lexical, x)  ly == RankOf(lexical, y)
           sx == RankOf(semantic, x)  sy == RankOf(semantic, y)
<1>1. /\ lx \in 1..MaxListed /\ ly \in 1..MaxListed /\ sx \in 1..MaxListed /\ sy \in 1..MaxListed
      /\ Part(lexical, 10, x) = 10 * weight(lx) /\ Part(semantic, 7, x) = 7 * weight(sx)
      /\ Part(lexical, 10, y) = 10 * weight(ly) /\ Part(semantic, 7, y) = 7 * weight(sy)
  BY PartOfOnce DEF NamedOnceByBoth
<1>2. /\ lx < ly
      /\ sx < sy \/ (lx = sy /\ ly = sx)
  BY DEF RanksHigher
<1> HIDE DEF lx, ly, sx, sy
<1>3. /\ weight(lx) \in Nat /\ weight(ly) \in Nat /\ weight(lx) > weight(ly)
  BY <1>1, <1>2, HigherWeighsMore
<1>4. /\ weight(sx) \in Nat /\ weight(sy) \in Nat
      /\ sx < sy => weight(sx) > weight(sy)
  <2>1. ASSUME NEW r \in 1..MaxListed PROVE weight(r) \in Nat
    BY DenominatorDivides
  <2> QED  BY <1>1, <2>1, HigherWeighsMore
<1>5. /\ Score(x) = 10 * weight(lx) + 7 * weight(sx)
      /\ Score(y) = 10 * weight(ly) + 7 * weight(sy)
  BY <1>1 DEF Score
<1>6. weight(sx) > weight(sy) \/ (weight(sx) = weight(ly) /\ weight(sy) = weight(lx))
  BY <1>2, <1>4
<1> HIDE DEF weight
<1> QED  BY <1>3, <1>4, <1>5, <1>6

(* An id with a higher score comes before one with a lower score.           *)
LEMMA FusionRespects ==
    ASSUME RankTypeOK
    PROVE  FusionRespectsBothLists
<1> SUFFICES ASSUME tier # "fast", ordered \in Orders,
                    NEW x \in NamedOnceByBoth, NEW y \in NamedOnceByBoth, RanksHigher(x, y),
                    NEW j \in (Len(ExactHits) + 1)..Len(ordered), ordered[j] = y
             PROVE  \E i \in (Len(ExactHits) + 1)..(j - 1) : ordered[i] = x
  BY DEF FusionRespectsBothLists
<1> DEFINE h == Len(ExactHits)
<1>1. PICK list \in Fusions : ordered = ExactHits \o list
  BY DEF Orders
<1>2. \A a, b \in DOMAIN list : a < b => Score(list[a]) >= Score(list[b])
  BY <1>1 DEF Fusions
<1>3. list \in Seq(Ids) /\ \A id \in Named : \E i \in 1..Len(list) : list[i] = id
  BY FusionsCover
<1> DEFINE c == Len(list)
<1>4. c \in Nat /\ DOMAIN list = 1..c
  BY <1>3
<1>5. /\ h \in Nat /\ Len(ordered) = h + c
      /\ \A i \in (h + 1)..(h + c) : ordered[i] = list[i - h]
  <2>1. ExactHits \in Seq(Ids) /\ h \in Nat
    BY ExactIsLoaded
  <2>2. /\ Len(ordered) = h + c
        /\ \A i \in 1..(h + c) : ordered[i] = IF i <= h THEN ExactHits[i] ELSE list[i - h]
    BY <1>1, <1>3, <2>1, ConcatProperties
  <2> QED  BY <1>4, <2>1, <2>2
<1> HIDE DEF h, c
<1>6. x \in Named /\ Score(y) < Score(x) /\ Score(x) \in Nat /\ Score(y) \in Nat
  <2>0. Cardinality(Ranks(lexical, x)) = 1
    BY DEF NamedOnceByBoth
  <2>1. Ranks(lexical, x) # {}
    <3>1. Len(lexical) \in Nat /\ Ranks(lexical, x) \subseteq 1..Len(lexical)
      BY DEF RankTypeOK, Ranks
    <3>2. IsFiniteSet(Ranks(lexical, x))
      <4>1. IsFiniteSet(1..Len(lexical))
        BY <3>1, FS_Interval
      <4> QED  BY <3>1, <4>1, FS_Subset
    <3>3. PICK m : Ranks(lexical, x) = {m}
      BY <2>0, <3>2, FS_Singleton
    <3> QED  BY <3>3
  <2>2. PICK r \in 1..Len(lexical) : lexical[r] = x
    BY <2>1 DEF Ranks
  <2>3. x \in ToSet(lexical)
    BY <2>2, SeqValues DEF RankTypeOK
  <2> QED  BY <2>3, HigherScoresMore DEF RankTypeOK, Named
<1>7. PICK i \in 1..c : list[i] = x
  BY <1>3, <1>6 DEF c
<1>8. j - h \in 1..c /\ list[j - h] = y
  BY <1>4, <1>5 DEF h
<1>9. i < j - h
  <2>1. i # j - h
    BY <1>6, <1>7, <1>8
  <2>2. ~(j - h < i)
    BY <1>2, <1>4, <1>6, <1>7, <1>8
  <2> QED  BY <1>4, <1>7, <1>8, <2>1, <2>2
<1>10. h + i \in (h + 1)..(j - 1) /\ h + i \in (h + 1)..(h + c) /\ (h + i) - h = i
  BY <1>4, <1>5, <1>7, <1>8, <1>9
<1>11. ordered[h + i] = x
  BY <1>5, <1>7, <1>10
<1> QED  BY <1>10, <1>11 DEF h

(* rrf_fuse puts an id that both lists rank higher before the other, for    *)
(* lists of any length and whatever ids the chunks have.                    *)
THEOREM FusionAlwaysRespects == RankSpec => []FusionRespectsBothLists
<1>1. RankInv => FusionRespectsBothLists
  BY FusionRespects DEF RankInv
<1> QED  BY <1>1, RankInvariant, PTL

=============================================================================
