--------------------------- MODULE LabelSetsProofs ---------------------------
(***************************************************************************)
(* The loops of LabelSet.java compute what they should for label sets of   *)
(* every length: the loop invariants, and the theorems that follow.        *)
(***************************************************************************)
EXTENDS LabelSets, TLAPS

\* The labels before a cursor.
Pre(s, n) == {s[i] : i \in 1..n}

\* Every label before a cursor is less than v.
Below(s, n, v) == \A e \in Pre(s, n) : e < v

-----------------------------------------------------------------------------
(* Label sets.                                                             *)

\* A label set is a sequence of integers in ascending order.
LEMMA LabelSetFacts ==
    ASSUME NEW s \in LabelSet
    PROVE  /\ s \in Seq(Labels) /\ Len(s) \in Nat /\ DOMAIN s = 1..Len(s)
           /\ \A i \in 1..Len(s) : s[i] \in Labels /\ s[i] \in Int
           /\ \A i, j \in 1..Len(s) : i < j => s[i] < s[j]
<1>1. s \in Seq(Labels) /\ Sorted(s)
  BY DEF LabelSet
<1>2. Len(s) \in Nat /\ DOMAIN s = 1..Len(s) /\ \A i \in 1..Len(s) : s[i] \in Labels
  BY <1>1
<1> QED
  BY <1>1, <1>2, LabelSetsAssumption DEF Sorted

\* EMPTY is a label set, and the only one without labels.
LEMMA EmptyFacts ==
    /\ EMPTY \in LabelSet /\ Len(EMPTY) = 0 /\ Elems(EMPTY) = {}
    /\ \A s : Pre(s, 0) = {}
<1>1. EMPTY \in Seq(Labels) /\ Len(EMPTY) = 0 /\ DOMAIN EMPTY = {}
  BY DEF EMPTY
<1> QED
  BY <1>1 DEF LabelSet, Sorted, Elems, Pre

\* What a cursor has passed when it moves, and when it is at the end.
LEMMA PreFacts ==
    ASSUME NEW s \in LabelSet, NEW n \in 0..Len(s)
    PROVE  /\ n < Len(s) => /\ n + 1 \in 1..Len(s)
                            /\ s[n + 1] \in Labels /\ s[n + 1] \in Int
                            /\ s[n + 1] \in Elems(s)
                            /\ Pre(s, n + 1) = Pre(s, n) \cup {s[n + 1]}
                            /\ Below(s, n, s[n + 1])
           /\ n + 1 < Len(s) => s[n + 1] < s[n + 2]
           /\ n = Len(s) => Pre(s, n) = Elems(s)
           /\ Pre(s, n) \subseteq Elems(s) /\ Elems(s) \subseteq Int
<1>1. /\ Len(s) \in Nat /\ DOMAIN s = 1..Len(s)
      /\ \A i \in 1..Len(s) : s[i] \in Labels /\ s[i] \in Int
      /\ \A i, j \in 1..Len(s) : i < j => s[i] < s[j]
  BY LabelSetFacts
<1>2. Pre(s, n) \subseteq Elems(s) /\ Elems(s) \subseteq Int
  BY <1>1 DEF Pre, Elems
<1>3. n = Len(s) => Pre(s, n) = Elems(s)
  BY <1>1 DEF Pre, Elems
<1>4. ASSUME n < Len(s)
      PROVE  /\ n + 1 \in 1..Len(s) /\ s[n + 1] \in Elems(s)
             /\ Pre(s, n + 1) = Pre(s, n) \cup {s[n + 1]}
             /\ Below(s, n, s[n + 1])
  <2>1. n + 1 \in 1..Len(s) /\ 1..(n + 1) = (1..n) \cup {n + 1}
    BY <1>1, <1>4
  <2>2. Pre(s, n + 1) = Pre(s, n) \cup {s[n + 1]}
    BY <2>1 DEF Pre
  <2>3. Below(s, n, s[n + 1])
    BY <1>1, <2>1 DEF Below, Pre
  <2> QED
    BY <1>1, <2>1, <2>2, <2>3 DEF Elems
<1>5. n + 1 < Len(s) => s[n + 1] < s[n + 2]
  BY <1>1
<1> QED
  BY <1>1, <1>2, <1>3, <1>4, <1>5

\* A label between those before the cursor and those from it on is not in the set.
LEMMA NotInSet ==
    ASSUME NEW s \in LabelSet, NEW n \in 0..Len(s), NEW v \in Int,
           Below(s, n, v), n < Len(s) => v < s[n + 1]
    PROVE  v \notin Elems(s)
<1>1. /\ Len(s) \in Nat /\ DOMAIN s = 1..Len(s)
      /\ \A i \in 1..Len(s) : s[i] \in Int
      /\ \A i, j \in 1..Len(s) : i < j => s[i] < s[j]
  BY LabelSetFacts
<1>2. SUFFICES ASSUME NEW i \in 1..Len(s), s[i] = v PROVE FALSE
  BY <1>1 DEF Elems
<1>3. CASE i <= n
  <2>1. s[i] \in Pre(s, n)
    BY <1>3 DEF Pre
  <2> QED
    BY <2>1, <1>2 DEF Below
<1>4. CASE i > n
  <2>1. n < Len(s) /\ n + 1 \in 1..Len(s) /\ (i = n + 1 \/ n + 1 < i)
    BY <1>1, <1>4
  <2>2. s[n + 1] <= s[i]
    BY <1>1, <2>1
  <2> QED
    BY <1>1, <1>2, <2>1, <2>2
<1> QED
  BY <1>1, <1>3, <1>4

\* Appending a greater label keeps a sequence sorted.
LEMMA AppendFacts ==
    ASSUME NEW s \in Seq(Labels), NEW v \in Labels
    PROVE  /\ Append(s, v) \in Seq(Labels) /\ Len(Append(s, v)) = Len(s) + 1
           /\ Elems(Append(s, v)) = Elems(s) \cup {v}
           /\ Sorted(s) /\ (\A e \in Elems(s) : e < v) => Sorted(Append(s, v))
<1> DEFINE a == Append(s, v)
<1>1. /\ Len(s) \in Nat /\ DOMAIN s = 1..Len(s)
      /\ a \in Seq(Labels) /\ Len(a) = Len(s) + 1 /\ DOMAIN a = 1..(Len(s) + 1)
      /\ \A i \in 1..Len(s) : a[i] = s[i]
      /\ a[Len(s) + 1] = v
  OBVIOUS
<1>2. 1..(Len(s) + 1) = (1..Len(s)) \cup {Len(s) + 1}
  BY <1>1
<1>3. Elems(a) = Elems(s) \cup {v}
  BY <1>1, <1>2 DEF Elems
<1>4. ASSUME Sorted(s), \A e \in Elems(s) : e < v PROVE Sorted(a)
  <2>1. SUFFICES ASSUME NEW i \in 1..(Len(s) + 1), NEW j \in 1..(Len(s) + 1), i < j
                 PROVE  a[i] < a[j]
    BY <1>1 DEF Sorted
  <2>2. i \in 1..Len(s) /\ a[i] = s[i] /\ s[i] \in Elems(s)
    BY <1>1, <2>1 DEF Elems
  <2>3. CASE j \in 1..Len(s)
    BY <1>1, <1>4, <2>1, <2>2, <2>3 DEF Sorted
  <2>4. CASE j = Len(s) + 1
    BY <1>1, <1>4, <2>2, <2>4
  <2> QED
    BY <1>2, <2>3, <2>4
<1> QED
  BY <1>1, <1>3, <1>4

-----------------------------------------------------------------------------
(* Loop invariants, as relations between the operands, the cursors and the *)
(* labels produced so far.                                                 *)

\* union: the labels passed, in order; and as many of them as were passed in one
\* operand only if the other one had nothing to add.
UnionOK(a, b, p1, p2, new) ==
    /\ new \in Seq(Labels) /\ Sorted(new)
    /\ Elems(new) = Pre(a, p1) \cup Pre(b, p2)
    /\ \A e \in Elems(new) : (p1 < Len(a) => e < a[p1 + 1]) /\ (p2 < Len(b) => e < b[p2 + 1])
    /\ p1 <= Len(new) /\ p2 <= Len(new) /\ Len(new) <= p1 + p2
    /\ Len(new) = p1 => Pre(b, p2) \subseteq Pre(a, p1)
    /\ Len(new) = p2 => Pre(a, p1) \subseteq Pre(b, p2)

\* minus: the labels passed in the first operand that the second lacks; the second
\* cursor has not overtaken the first.
MinusOK(a, b, p1, p2, new) ==
    /\ new \in Seq(Labels) /\ Sorted(new) /\ Len(new) <= p1
    /\ Elems(new) = Pre(a, p1) \ Elems(b)
    /\ p1 < Len(a) => Below(b, p2, a[p1 + 1])

\* isSubsetOf: what was passed in the first operand is in the second.
SubsetOK(a, b, p1, p2) ==
    /\ Pre(a, p1) \subseteq Elems(b)
    /\ p1 < Len(a) => Below(b, p2, a[p1 + 1])

\* checkInUnion: what was passed in this is in one of the operands.
InUnionOK(this, a, b, p, p1, p2) ==
    /\ Pre(this, p) \subseteq Elems(a) \cup Elems(b)
    /\ p < Len(this) => Below(a, p1, this[p + 1]) /\ Below(b, p2, this[p + 1])

\* Every loop invariant holds before its loop.
LEMMA AtStart ==
    ASSUME NEW this \in LabelSet, NEW a \in LabelSet, NEW b \in LabelSet
    PROVE  /\ UnionOK(a, b, 0, 0, <<>>) /\ MinusOK(a, b, 0, 0, <<>>)
           /\ SubsetOK(a, b, 0, 0) /\ InUnionOK(this, a, b, 0, 0, 0)
<1>1. <<>> \in Seq(Labels) /\ Sorted(<<>>) /\ Len(<<>>) = 0 /\ Elems(<<>>) = {}
  BY EmptyFacts DEF EMPTY, LabelSet
<1>2. Pre(this, 0) = {} /\ Pre(a, 0) = {} /\ Pre(b, 0) = {}
  BY EmptyFacts
<1> QED
  BY <1>1, <1>2 DEF UnionOK, MinusOK, SubsetOK, InUnionOK, Below

\* The invariant of union is symmetric in the operands.
LEMMA UnionSymmetric ==
    ASSUME NEW a, NEW b, NEW p1 \in Nat, NEW p2 \in Nat, NEW new, UnionOK(a, b, p1, p2, new)
    PROVE  UnionOK(b, a, p2, p1, new)
<1>1. p1 + p2 = p2 + p1 /\ Pre(a, p1) \cup Pre(b, p2) = Pre(b, p2) \cup Pre(a, p1)
  OBVIOUS
<1> QED
  BY <1>1 DEF UnionOK

\* union takes a label from one operand.
LEMMA UnionTakeOne ==
    ASSUME NEW a \in LabelSet, NEW b \in LabelSet,
           NEW p1 \in 0..Len(a), NEW p2 \in 0..Len(b), NEW new,
           UnionOK(a, b, p1, p2, new),
           p1 < Len(a), p2 < Len(b) => a[p1 + 1] < b[p2 + 1]
    PROVE  UnionOK(a, b, p1 + 1, p2, Append(new, a[p1 + 1]))
<1> DEFINE v == a[p1 + 1]
           next == Append(new, v)
<1>1. /\ v \in Labels /\ v \in Int /\ Pre(a, p1 + 1) = Pre(a, p1) \cup {v}
      /\ Below(a, p1, v)
      /\ p1 + 1 < Len(a) => v < a[p1 + 2] /\ a[p1 + 2] \in Int
  <2>1. p1 + 1 \in 0..Len(a) /\ (p1 + 1) + 1 = p1 + 2
    BY LabelSetFacts
  <2> QED
    BY PreFacts, <2>1
<1>2. p2 < Len(b) => b[p2 + 1] \in Int
  BY PreFacts
<1>3. Len(a) \in Nat /\ Len(b) \in Nat /\ (p1 + 1) + 1 = p1 + 2
  BY LabelSetFacts
<1>4. new \in Seq(Labels) /\ Sorted(new) /\ \A e \in Elems(new) : e < v
  BY DEF UnionOK
<1>5. /\ next \in Seq(Labels) /\ Len(next) = Len(new) + 1 /\ Len(new) \in Nat
      /\ Elems(next) = Elems(new) \cup {v} /\ Sorted(next)
  BY <1>1, <1>4, AppendFacts
<1>6. Elems(next) = Pre(a, p1 + 1) \cup Pre(b, p2)
  BY <1>1, <1>5 DEF UnionOK
<1>7. Elems(new) \subseteq Int
  BY <1>4, LabelSetsAssumption DEF Elems
<1>8. ASSUME NEW e \in Elems(next)
      PROVE  (p1 + 1 < Len(a) => e < a[p1 + 2]) /\ (p2 < Len(b) => e < b[p2 + 1])
  <2>1. CASE e = v
    BY <1>1, <2>1
  <2>2. CASE e \in Elems(new)
    BY <1>1, <1>2, <1>4, <1>7, <2>2 DEF UnionOK
  <2> QED
    BY <1>5, <2>1, <2>2
<1>9. p1 + 1 <= Len(next) /\ p2 <= Len(next) /\ Len(next) <= (p1 + 1) + p2
  BY <1>5 DEF UnionOK
<1>10. Len(next) = p1 + 1 => Pre(b, p2) \subseteq Pre(a, p1 + 1)
  BY <1>1, <1>5 DEF UnionOK
<1>11. Len(next) # p2
  BY <1>5 DEF UnionOK
<1> QED
  BY <1>3, <1>5, <1>6, <1>8, <1>9, <1>10, <1>11 DEF UnionOK

\* union takes a label that is in both operands.
LEMMA UnionTakeBoth ==
    ASSUME NEW a \in LabelSet, NEW b \in LabelSet,
           NEW p1 \in 0..Len(a), NEW p2 \in 0..Len(b), NEW new,
           UnionOK(a, b, p1, p2, new),
           p1 < Len(a), p2 < Len(b), a[p1 + 1] = b[p2 + 1]
    PROVE  UnionOK(a, b, p1 + 1, p2 + 1, Append(new, a[p1 + 1]))
<1> DEFINE v == a[p1 + 1]
           next == Append(new, v)
<1>1. /\ v \in Labels /\ v \in Int /\ Pre(a, p1 + 1) = Pre(a, p1) \cup {v}
      /\ p1 + 1 < Len(a) => v < a[p1 + 2] /\ a[p1 + 2] \in Int
  <2>1. p1 + 1 \in 0..Len(a) /\ (p1 + 1) + 1 = p1 + 2
    BY LabelSetFacts
  <2> QED
    BY PreFacts, <2>1
<1>2. /\ Pre(b, p2 + 1) = Pre(b, p2) \cup {v}
      /\ p2 + 1 < Len(b) => v < b[p2 + 2] /\ b[p2 + 2] \in Int
  <2>1. p2 + 1 \in 0..Len(b) /\ (p2 + 1) + 1 = p2 + 2
    BY LabelSetFacts
  <2> QED
    BY PreFacts, <2>1
<1>3. Len(a) \in Nat /\ Len(b) \in Nat /\ (p1 + 1) + 1 = p1 + 2 /\ (p2 + 1) + 1 = p2 + 2
  BY LabelSetFacts
<1>4. new \in Seq(Labels) /\ Sorted(new) /\ \A e \in Elems(new) : e < v
  BY DEF UnionOK
<1>5. /\ next \in Seq(Labels) /\ Len(next) = Len(new) + 1 /\ Len(new) \in Nat
      /\ Elems(next) = Elems(new) \cup {v} /\ Sorted(next)
  BY <1>1, <1>4, AppendFacts
<1>6. Elems(next) = Pre(a, p1 + 1) \cup Pre(b, p2 + 1)
  BY <1>1, <1>2, <1>5 DEF UnionOK
<1>7. Elems(new) \subseteq Int
  BY <1>4, LabelSetsAssumption DEF Elems
<1>8. ASSUME NEW e \in Elems(next)
      PROVE  (p1 + 1 < Len(a) => e < a[p1 + 2]) /\ (p2 + 1 < Len(b) => e < b[p2 + 2])
  <2>1. CASE e = v
    BY <1>1, <1>2, <2>1
  <2>2. CASE e \in Elems(new)
    BY <1>1, <1>2, <1>4, <1>7, <2>2
  <2> QED
    BY <1>5, <2>1, <2>2
<1>9. p1 + 1 <= Len(next) /\ p2 + 1 <= Len(next) /\ Len(next) <= (p1 + 1) + (p2 + 1)
  BY <1>5 DEF UnionOK
<1>10. Len(next) = p1 + 1 => Pre(b, p2 + 1) \subseteq Pre(a, p1 + 1)
  BY <1>1, <1>2, <1>5 DEF UnionOK
<1>11. Len(next) = p2 + 1 => Pre(a, p1 + 1) \subseteq Pre(b, p2 + 1)
  BY <1>1, <1>2, <1>5 DEF UnionOK
<1> QED
  BY <1>3, <1>5, <1>6, <1>8, <1>9, <1>10, <1>11 DEF UnionOK

-----------------------------------------------------------------------------
(* The steps of the other loops.                                           *)

\* A cursor moves past a label that is less than v; the bound moves up.
LEMMA BelowFacts ==
    ASSUME NEW s \in LabelSet, NEW n \in 0..Len(s), NEW v \in Int, Below(s, n, v)
    PROVE  /\ n < Len(s) /\ s[n + 1] < v => Below(s, n + 1, v)
           /\ \A w \in Int : v < w => Below(s, n, w)
           /\ \A w \in Int : n < Len(s) /\ s[n + 1] <= v /\ v < w => Below(s, n + 1, w)
<1>1. /\ n < Len(s) => Pre(s, n + 1) = Pre(s, n) \cup {s[n + 1]} /\ s[n + 1] \in Int
      /\ Pre(s, n) \subseteq Int
  BY PreFacts
<1>2. \A e \in Pre(s, n) : e \in Int /\ e < v
  BY <1>1 DEF Below
<1>3. n < Len(s) /\ s[n + 1] < v => Below(s, n + 1, v)
  BY <1>1, <1>2 DEF Below
<1>4. \A w \in Int : v < w => Below(s, n, w)
  BY <1>2 DEF Below
<1>5. \A w \in Int : n < Len(s) /\ s[n + 1] <= v /\ v < w => Below(s, n + 1, w)
  BY <1>1, <1>2 DEF Below
<1> QED
  BY <1>3, <1>4, <1>5

\* The next label and the one after it.
LEMMA NextFacts ==
    ASSUME NEW s \in LabelSet, NEW n \in 0..Len(s), n < Len(s)
    PROVE  /\ n + 1 \in 0..Len(s) /\ (n + 1) + 1 = n + 2
           /\ s[n + 1] \in Labels /\ s[n + 1] \in Int /\ s[n + 1] \in Elems(s)
           /\ Pre(s, n + 1) = Pre(s, n) \cup {s[n + 1]}
           /\ Below(s, n, s[n + 1])
           /\ n + 1 < Len(s) => s[n + 1] < s[n + 2] /\ s[n + 2] \in Int
<1>1. n + 1 \in 0..Len(s) /\ (n + 1) + 1 = n + 2
  BY LabelSetFacts
<1> QED
  BY <1>1, PreFacts

\* minus keeps a label that the second operand lacks.
LEMMA MinusKeep ==
    ASSUME NEW a \in LabelSet, NEW b \in LabelSet,
           NEW p1 \in 0..Len(a), NEW p2 \in 0..Len(b), NEW new,
           MinusOK(a, b, p1, p2, new),
           p1 < Len(a), p2 < Len(b) => a[p1 + 1] < b[p2 + 1]
    PROVE  MinusOK(a, b, p1 + 1, p2, Append(new, a[p1 + 1]))
<1> DEFINE v == a[p1 + 1]
           next == Append(new, v)
<1>1. /\ v \in Labels /\ v \in Int /\ Pre(a, p1 + 1) = Pre(a, p1) \cup {v}
      /\ Below(a, p1, v) /\ (p1 + 1) + 1 = p1 + 2
      /\ p1 + 1 < Len(a) => v < a[p1 + 2] /\ a[p1 + 2] \in Int
  BY NextFacts
<1>2. Below(b, p2, v)
  BY DEF MinusOK
<1>3. v \notin Elems(b)
  BY <1>1, <1>2, NotInSet
<1>4. new \in Seq(Labels) /\ Sorted(new) /\ \A e \in Elems(new) : e < v
  BY <1>1 DEF MinusOK, Below
<1>5. /\ next \in Seq(Labels) /\ Len(next) = Len(new) + 1 /\ Len(new) \in Nat
      /\ Elems(next) = Elems(new) \cup {v} /\ Sorted(next)
  BY <1>1, <1>4, AppendFacts
<1>6. Elems(next) = Pre(a, p1 + 1) \ Elems(b)
  BY <1>1, <1>3, <1>5 DEF MinusOK
<1>7. p1 + 1 < Len(a) => Below(b, p2, a[p1 + 2])
  BY <1>1, <1>2, BelowFacts
<1>8. Len(next) <= p1 + 1
  BY <1>5 DEF MinusOK
<1> QED
  BY <1>1, <1>5, <1>6, <1>7, <1>8 DEF MinusOK

\* minus passes a lesser label of the second operand, or one that is in both.
LEMMA MinusPass ==
    ASSUME NEW a \in LabelSet, NEW b \in LabelSet,
           NEW p1 \in 0..Len(a), NEW p2 \in 0..Len(b), NEW new,
           MinusOK(a, b, p1, p2, new), p1 < Len(a), p2 < Len(b)
    PROVE  /\ b[p2 + 1] < a[p1 + 1] => MinusOK(a, b, p1, p2 + 1, new)
           /\ b[p2 + 1] = a[p1 + 1] => MinusOK(a, b, p1 + 1, p2 + 1, new)
<1> DEFINE v == a[p1 + 1]
<1>1. /\ v \in Int /\ Pre(a, p1 + 1) = Pre(a, p1) \cup {v} /\ (p1 + 1) + 1 = p1 + 2
      /\ p1 + 1 < Len(a) => v < a[p1 + 2] /\ a[p1 + 2] \in Int
  BY NextFacts
<1>2. Below(b, p2, v) /\ b[p2 + 1] \in Elems(b)
  BY NextFacts DEF MinusOK
<1>3. b[p2 + 1] < v => Below(b, p2 + 1, v)
  BY <1>1, <1>2, BelowFacts
<1>4. b[p2 + 1] = v /\ p1 + 1 < Len(a) => Below(b, p2 + 1, a[p1 + 2])
  BY <1>1, <1>2, BelowFacts
<1>5. b[p2 + 1] = v => Pre(a, p1 + 1) \ Elems(b) = Pre(a, p1) \ Elems(b)
  BY <1>1, <1>2
<1>6. new \in Seq(Labels) /\ Len(new) \in Nat /\ (Len(new) <= p1 => Len(new) <= p1 + 1)
  BY DEF MinusOK
<1> QED
  BY <1>1, <1>3, <1>4, <1>5, <1>6 DEF MinusOK

\* isSubsetOf passes a lesser label of the second operand, or one that is in both;
\* and it answers no where the next label cannot be in the second operand.
LEMMA SubsetPass ==
    ASSUME NEW a \in LabelSet, NEW b \in LabelSet,
           NEW p1 \in 0..Len(a), NEW p2 \in 0..Len(b),
           SubsetOK(a, b, p1, p2), p1 < Len(a)
    PROVE  /\ p2 < Len(b) /\ b[p2 + 1] < a[p1 + 1] => SubsetOK(a, b, p1, p2 + 1)
           /\ p2 < Len(b) /\ b[p2 + 1] = a[p1 + 1] => SubsetOK(a, b, p1 + 1, p2 + 1)
           /\ (p2 < Len(b) => a[p1 + 1] < b[p2 + 1]) => ~(Elems(a) \subseteq Elems(b))
<1> DEFINE v == a[p1 + 1]
<1>1. /\ v \in Int /\ v \in Elems(a)
      /\ Pre(a, p1 + 1) = Pre(a, p1) \cup {v} /\ (p1 + 1) + 1 = p1 + 2
      /\ p1 + 1 < Len(a) => v < a[p1 + 2] /\ a[p1 + 2] \in Int
  BY NextFacts
<1>2. Below(b, p2, v) /\ (p2 < Len(b) => b[p2 + 1] \in Elems(b))
  BY NextFacts DEF SubsetOK
<1>3. p2 < Len(b) /\ b[p2 + 1] < v => Below(b, p2 + 1, v)
  BY <1>1, <1>2, BelowFacts
<1>4. p2 < Len(b) /\ b[p2 + 1] = v /\ p1 + 1 < Len(a) => Below(b, p2 + 1, a[p1 + 2])
  BY <1>1, <1>2, BelowFacts
<1>5. (p2 < Len(b) => v < b[p2 + 1]) => v \notin Elems(b)
  BY <1>1, <1>2, NotInSet
<1>6. p2 < Len(b) /\ b[p2 + 1] = v => Pre(a, p1 + 1) \subseteq Elems(b)
  BY <1>1, <1>2 DEF SubsetOK
<1> QED
  BY <1>1, <1>3, <1>4, <1>5, <1>6 DEF SubsetOK

\* checkInUnion passes, in either operand, a label that is not beyond the next label
\* of this, and that label too if it is found there.
LEMMA InUnionPass ==
    ASSUME NEW this \in LabelSet, NEW a \in LabelSet, NEW b \in LabelSet,
           NEW p \in 0..Len(this), NEW p1 \in 0..Len(a), NEW p2 \in 0..Len(b),
           InUnionOK(this, a, b, p, p1, p2), p < Len(this),
           NEW q, NEW q1, NEW q2,
           q1 = IF p1 < Len(a) /\ a[p1 + 1] <= this[p + 1] THEN p1 + 1 ELSE p1,
           q2 = IF p2 < Len(b) /\ b[p2 + 1] <= this[p + 1] THEN p2 + 1 ELSE p2,
           q = IF \/ p1 < Len(a) /\ a[p1 + 1] = this[p + 1]
                  \/ p2 < Len(b) /\ b[p2 + 1] = this[p + 1] THEN p + 1 ELSE p
    PROVE  InUnionOK(this, a, b, q, q1, q2)
<1> DEFINE v == this[p + 1]
<1>1. /\ v \in Int
      /\ Pre(this, p + 1) = Pre(this, p) \cup {v} /\ (p + 1) + 1 = p + 2
      /\ p + 1 < Len(this) => v < this[p + 2] /\ this[p + 2] \in Int
  BY NextFacts
<1>2. /\ Below(a, p1, v) /\ (p1 < Len(a) => a[p1 + 1] \in Elems(a) /\ a[p1 + 1] \in Int)
      /\ Below(b, p2, v) /\ (p2 < Len(b) => b[p2 + 1] \in Elems(b) /\ b[p2 + 1] \in Int)
  BY NextFacts DEF InUnionOK
<1>3. CASE (p1 < Len(a) /\ a[p1 + 1] = v) \/ (p2 < Len(b) /\ b[p2 + 1] = v)
  <2>1. p + 1 < Len(this) => Below(a, q1, this[p + 2]) /\ Below(b, q2, this[p + 2])
    BY <1>1, <1>2, BelowFacts
  <2>2. Pre(this, p + 1) \subseteq Elems(a) \cup Elems(b)
    BY <1>1, <1>2, <1>3 DEF InUnionOK
  <2> QED
    BY <1>1, <1>3, <2>1, <2>2 DEF InUnionOK
<1>4. CASE ~((p1 < Len(a) /\ a[p1 + 1] = v) \/ (p2 < Len(b) /\ b[p2 + 1] = v))
  <2>1. Below(a, q1, v) /\ Below(b, q2, v)
    BY <1>1, <1>2, <1>4, BelowFacts
  <2> QED
    BY <1>4, <2>1 DEF InUnionOK
<1> QED
  BY <1>3, <1>4

\* checkInUnion answers no where both operands are beyond the next label of this.
LEMMA InUnionNo ==
    ASSUME NEW this \in LabelSet, NEW a \in LabelSet, NEW b \in LabelSet,
           NEW p \in 0..Len(this), NEW p1 \in 0..Len(a), NEW p2 \in 0..Len(b),
           InUnionOK(this, a, b, p, p1, p2), p < Len(this),
           ~(p1 < Len(a) /\ a[p1 + 1] <= this[p + 1]),
           ~(p2 < Len(b) /\ b[p2 + 1] <= this[p + 1])
    PROVE  ~(Elems(this) \subseteq Elems(a) \cup Elems(b))
<1> DEFINE v == this[p + 1]
<1>1. v \in Int /\ v \in Elems(this)
  BY NextFacts
<1>2. /\ Below(a, p1, v) /\ (p1 < Len(a) => a[p1 + 1] \in Int)
      /\ Below(b, p2, v) /\ (p2 < Len(b) => b[p2 + 1] \in Int)
  BY NextFacts DEF InUnionOK
<1>3. (p1 < Len(a) => v < a[p1 + 1]) /\ (p2 < Len(b) => v < b[p2 + 1])
  BY <1>1, <1>2
<1>4. v \notin Elems(a) /\ v \notin Elems(b)
  BY <1>1, <1>2, <1>3, NotInSet
<1> QED
  BY <1>1, <1>4

-----------------------------------------------------------------------------
(* The inductive invariant.                                                *)

\* What a loop walks belongs to the operation that was called.
CallOK ==
    /\ pc = "idle" => pos = 0
    /\ pc \in {"union", "unionLabel", "minus", "checkInUnion"} =>
         call.op = pc /\ l1 = call.x /\ l2 = call.y
    /\ pc = "isSubsetOf" =>
         /\ l1 = call.this
         /\ \/ call.op = "isSubsetOf" /\ l2 = call.x
            \/ call.op = "checkInUnion" /\ call.x = EMPTY /\ l2 = call.y
            \/ call.op = "checkInUnion" /\ call.y = EMPTY /\ l2 = call.x

\* The loop invariant of the loop that runs.
LoopOK ==
    /\ pc \in {"union", "unionLabel"} => UnionOK(l1, l2, pos1, pos2, newLabels)
    /\ pc = "minus" => MinusOK(l1, l2, pos1, pos2, newLabels)
    /\ pc = "isSubsetOf" => SubsetOK(l1, l2, pos1, pos2)
    /\ pc = "checkInUnion" => InUnionOK(call.this, l1, l2, pos, pos1, pos2)

\* What was returned is right.
ResultOK == UnionCorrect /\ MinusCorrect /\ ChecksCorrect /\ NewNonempty

IInv == TypeOK /\ CallOK /\ LoopOK /\ ResultOK

\* Nothing was called at first.
LEMMA InitIInv == Init => IInv
<1> SUFFICES ASSUME Init PROVE IInv
  OBVIOUS
<1>1. TypeOK
  BY EmptyFacts DEF Init, TypeOK, NoCall, Ops, Loops, Result, Truth, EMPTY
<1>2. CallOK /\ LoopOK /\ ResultOK
  BY DEF Init, CallOK, LoopOK, ResultOK, UnionCorrect, MinusCorrect, ChecksCorrect,
         NewNonempty, Returned
<1> QED
  BY <1>1, <1>2 DEF IInv

\* A call that goes to a loop starts it in a state in which its invariant holds.
LEMMA WalkIInv ==
    ASSUME IInv, NEW op \in Ops, NEW this \in LabelSet, NEW x \in LabelSet, NEW y \in LabelSet,
           Called(op, this, x, y), NEW loop \in Loops, NEW a \in LabelSet, NEW b \in LabelSet,
           Walk(loop, a, b), CallOK'
    PROVE  IInv'
<1>1. TypeOK'
  BY LabelSetFacts DEF IInv, TypeOK, Called, Walk, Loops, Ops
<1>2. LoopOK'
  BY AtStart DEF Walk, Called, LoopOK
<1>3. ResultOK'
  BY DEF Walk, Loops, ResultOK, UnionCorrect, MinusCorrect, ChecksCorrect, NewNonempty, Returned
<1> QED
  BY <1>1, <1>2, <1>3 DEF IInv

\* A call that returns at once.
LEMMA AtOnceIInv ==
    ASSUME IInv, NEW op \in Ops, NEW this \in LabelSet, NEW x \in LabelSet, NEW y \in LabelSet,
           Called(op, this, x, y), NEW result \in Result, AtOnce(result), ResultOK'
    PROVE  IInv'
<1>1. TypeOK'
  BY LabelSetFacts DEF IInv, TypeOK, CallOK, Called, AtOnce, Loops, Ops
<1>2. CallOK' /\ LoopOK'
  BY DEF AtOnce, CallOK, LoopOK
<1> QED
  BY <1>1, <1>2 DEF IInv

\* A label set of one label.
LEMMA SingletonFacts == \A label \in Labels : <<label>> \in LabelSet
<1>1. SUFFICES ASSUME NEW label \in Labels PROVE <<label>> \in Seq(Labels) /\ Sorted(<<label>>)
  BY DEF LabelSet
<1>2. <<label>> \in Seq(Labels) /\ DOMAIN <<label>> = {1}
  OBVIOUS
<1> QED
  BY <1>2 DEF Sorted

\* The results that the calls and the loops return.
LEMMA ResultFacts ==
    /\ \A b \in BOOLEAN : /\ Truth(b) \in Result
                          /\ Truth(b).truth = b /\ Truth(b).new = FALSE
    /\ \A set \in Seq(Labels), new \in BOOLEAN :
          /\ SetResult(set, new) \in Result
          /\ SetResult(set, new).set = set /\ SetResult(set, new).new = new
  BY EmptyFacts DEF Result, Truth, SetResult, LabelSet

\* isSubsetOf: EMPTY, and the same object, are subsets without a loop.
LEMMA IsSubsetOfIInv ==
    ASSUME IInv, NEW a \in LabelSet, NEW b \in LabelSet, NEW same \in BOOLEAN, isSubsetOf(a, b, same)
    PROVE  IInv'
<1>1. Called("isSubsetOf", a, b, EMPTY) /\ "isSubsetOf" \in Ops /\ "isSubsetOf" \in Loops
  BY DEF isSubsetOf, Ops, Loops
<1>2. CASE a = EMPTY \/ same
  <2>1. AtOnce(Truth(TRUE)) /\ Elems(a) \subseteq Elems(b)
    BY <1>2, EmptyFacts DEF isSubsetOf, SubsetCheck
  <2>2. ResultOK'
    BY <1>1, <2>1, ResultFacts DEF ResultOK, UnionCorrect, MinusCorrect, ChecksCorrect,
       NewNonempty, Returned, AtOnce, Called
  <2> QED
    BY <1>1, <2>1, <2>2, AtOnceIInv, EmptyFacts, ResultFacts
<1>3. CASE ~(a = EMPTY \/ same)
  <2>1. Walk("isSubsetOf", a, b)
    BY <1>3 DEF isSubsetOf, SubsetCheck
  <2>2. CallOK'
    BY <1>1, <2>1 DEF CallOK, Walk, Called
  <2> QED
    BY <1>1, <2>1, <2>2, WalkIInv, EmptyFacts
<1> QED
  BY <1>2, <1>3

\* union of two sets: an empty operand, or the same object twice, needs no loop.
LEMMA UnionIInv ==
    ASSUME IInv, NEW a \in LabelSet, NEW b \in LabelSet, NEW same \in BOOLEAN, union(a, b, same)
    PROVE  IInv'
<1>1. Called("union", EMPTY, a, b) /\ "union" \in Ops /\ "union" \in Loops
  BY DEF union, Ops, Loops
<1>2. CASE a = EMPTY \/ b = EMPTY \/ same
  <2>1. PICK set \in LabelSet : AtOnce(SetResult(set, FALSE)) /\ Elems(set) = Elems(a) \cup Elems(b)
    BY <1>2, EmptyFacts DEF union
  <2>2. set \in Seq(Labels)
    BY DEF LabelSet
  <2>3. ResultOK'
    BY <1>1, <2>1, <2>2, ResultFacts DEF ResultOK, UnionCorrect, MinusCorrect, ChecksCorrect,
       NewNonempty, Returned, AtOnce, Called
  <2> QED
    BY <1>1, <2>1, <2>2, <2>3, AtOnceIInv, EmptyFacts, ResultFacts
<1>3. CASE ~(a = EMPTY \/ b = EMPTY \/ same)
  <2>1. Walk("union", a, b)
    BY <1>3 DEF union
  <2>2. CallOK'
    BY <1>1, <2>1 DEF CallOK, Walk, Called
  <2> QED
    BY <1>1, <2>1, <2>2, WalkIInv, EmptyFacts
<1> QED
  BY <1>2, <1>3

\* union with a single label always runs its loop.
LEMMA UnionLabelIInv ==
    ASSUME IInv, NEW a \in LabelSet, NEW label \in Labels, unionLabel(a, label)
    PROVE  IInv'
<1>1. /\ Called("unionLabel", EMPTY, a, <<label>>) /\ "unionLabel" \in Ops
      /\ Walk("unionLabel", a, <<label>>) /\ "unionLabel" \in Loops
  BY DEF unionLabel, Ops, Loops
<1>2. CallOK'
  BY <1>1 DEF CallOK, Walk, Called
<1> QED
  BY <1>1, <1>2, WalkIInv, EmptyFacts, SingletonFacts

\* minus: an empty operand, or the same object twice, needs no loop.
LEMMA MinusIInv ==
    ASSUME IInv, NEW a \in LabelSet, NEW b \in LabelSet, NEW same \in BOOLEAN, minus(a, b, same)
    PROVE  IInv'
<1>1. Called("minus", EMPTY, a, b) /\ "minus" \in Ops /\ "minus" \in Loops
  BY DEF minus, Ops, Loops
<1>2. CASE a = EMPTY \/ b = EMPTY \/ same
  <2>1. PICK set \in LabelSet : AtOnce(SetResult(set, FALSE)) /\ Elems(set) = Elems(a) \ Elems(b)
    BY <1>2, EmptyFacts DEF minus
  <2>2. set \in Seq(Labels)
    BY DEF LabelSet
  <2>3. ResultOK'
    BY <1>1, <2>1, <2>2, ResultFacts DEF ResultOK, UnionCorrect, MinusCorrect, ChecksCorrect,
       NewNonempty, Returned, AtOnce, Called
  <2> QED
    BY <1>1, <2>1, <2>2, <2>3, AtOnceIInv, EmptyFacts, ResultFacts
<1>3. CASE ~(a = EMPTY \/ b = EMPTY \/ same)
  <2>1. Walk("minus", a, b)
    BY <1>3 DEF minus
  <2>2. CallOK'
    BY <1>1, <2>1 DEF CallOK, Walk, Called
  <2> QED
    BY <1>1, <2>1, <2>2, WalkIInv, EmptyFacts
<1> QED
  BY <1>2, <1>3

\* checkInUnion: with an empty operand it is isSubsetOf of the other one.
LEMMA CheckInUnionIInv ==
    ASSUME IInv, NEW this \in LabelSet, NEW a \in LabelSet, NEW b \in LabelSet,
           NEW same \in BOOLEAN, checkInUnion(this, a, b, same)
    PROVE  IInv'
<1>1. /\ Called("checkInUnion", this, a, b) /\ "checkInUnion" \in Ops
      /\ "checkInUnion" \in Loops /\ "isSubsetOf" \in Loops
  BY DEF checkInUnion, Ops, Loops
<1>2. CASE this = EMPTY \/ (same /\ (a = EMPTY \/ b = EMPTY))
  <2>1. AtOnce(Truth(TRUE)) /\ Elems(this) \subseteq Elems(a) \cup Elems(b)
    BY <1>2, EmptyFacts DEF checkInUnion, SubsetCheck
  <2>2. ResultOK'
    BY <1>1, <2>1, ResultFacts DEF ResultOK, UnionCorrect, MinusCorrect, ChecksCorrect,
       NewNonempty, Returned, AtOnce, Called
  <2> QED
    BY <1>1, <2>1, <2>2, AtOnceIInv, ResultFacts
<1>3. CASE this # EMPTY /\ ~same /\ (a = EMPTY \/ b = EMPTY)
  <2>1. PICK c \in {a, b} : /\ Walk("isSubsetOf", this, c)
                            /\ (a = EMPTY /\ c = b) \/ (b = EMPTY /\ c = a)
    BY <1>3 DEF checkInUnion, SubsetCheck
  <2>2. CallOK'
    BY <1>1, <2>1 DEF CallOK, Walk, Called
  <2> QED
    BY <1>1, <2>1, <2>2, WalkIInv
<1>4. CASE this # EMPTY /\ a # EMPTY /\ b # EMPTY
  <2>1. Walk("checkInUnion", a, b)
    BY <1>4 DEF checkInUnion
  <2>2. CallOK'
    BY <1>1, <2>1 DEF CallOK, Walk, Called
  <2> QED
    BY <1>1, <2>1, <2>2, WalkIInv
<1> QED
  BY <1>2, <1>3, <1>4

-----------------------------------------------------------------------------
(* The loops preserve the invariant.                                       *)

\* The types of the state in a loop.
LEMMA LoopTypes ==
    ASSUME IInv
    PROVE  /\ l1 \in LabelSet /\ l2 \in LabelSet /\ call.this \in LabelSet
           /\ pos \in 0..Len(call.this) /\ pos1 \in 0..Len(l1) /\ pos2 \in 0..Len(l2)
           /\ Len(l1) \in Nat /\ Len(l2) \in Nat /\ Len(call.this) \in Nat
           /\ newLabels \in Seq(Labels) /\ Len(newLabels) \in Nat
  BY LabelSetFacts DEF IInv, TypeOK

\* An iteration that keeps the bounds and the invariant of its loop.
LEMMA AdvanceIInv ==
    ASSUME IInv, pc \in Loops, NEW by1, NEW by2, Advance(by1, by2), LoopOK',
           pos' \in 0..Len(call.this), pos1' \in 0..Len(l1), pos2' \in 0..Len(l2),
           newLabels' \in Seq(Labels),
           Len(newLabels') <= IF pc = "minus" THEN Len(l1) ELSE Len(l1) + Len(l2)
    PROVE  IInv'
<1>1. TypeOK'
  BY DEF IInv, TypeOK, Advance
<1>2. CallOK'
  BY DEF IInv, CallOK, Advance, Loops
<1>3. ResultOK'
  BY DEF Advance, Loops, ResultOK, UnionCorrect, MinusCorrect, ChecksCorrect, NewNonempty, Returned
<1> QED
  BY <1>1, <1>2, <1>3 DEF IInv

\* A loop ends and returns what is right.
LEMMA ReturnIInv ==
    ASSUME IInv, NEW result \in Result, Return(result), ResultOK'
    PROVE  IInv'
<1>1. TypeOK'
  BY LoopTypes DEF IInv, TypeOK, Return
<1>2. CallOK' /\ LoopOK'
  BY DEF Return, CallOK, LoopOK
<1> QED
  BY <1>1, <1>2 DEF IInv

\* One iteration of union takes the lesser label, or one that is in both.
LEMMA UnionStepIInv == ASSUME IInv, UnionStep PROVE IInv'
<1>1. pc \in {"union", "unionLabel"} /\ pc \in Loops /\ pos' = pos
      /\ UnionOK(l1, l2, pos1, pos2, newLabels)
  BY DEF UnionStep, IInv, LoopOK, Loops
<1>2. ASSUME NEW by1 \in 0..1, NEW by2 \in 0..1, Advance(by1, by2),
             pos1 + by1 <= Len(l1), pos2 + by2 <= Len(l2),
             UnionOK(l1, l2, pos1 + by1, pos2 + by2, newLabels')
      PROVE  IInv'
  <2>1. pos1' \in 0..Len(l1) /\ pos2' \in 0..Len(l2)
    BY <1>2, LoopTypes DEF Advance
  <2>2. newLabels' \in Seq(Labels) /\ Len(newLabels') <= pos1' + pos2' /\ Len(newLabels') \in Nat
    BY <1>2 DEF UnionOK, Advance
  <2>3. LoopOK'
    BY <1>1, <1>2 DEF LoopOK, Advance
  <2>4. Len(newLabels') <= Len(l1) + Len(l2)
    BY <2>1, <2>2, LoopTypes
  <2> QED
    BY <1>1, <1>2, <2>1, <2>2, <2>3, <2>4, LoopTypes, AdvanceIInv
<1>3. CASE /\ pos1 < Len(l1) /\ (pos2 < Len(l2) => At1 < At2)
           /\ newLabels' = Append(newLabels, At1) /\ Advance(1, 0)
  <2>1. UnionOK(l1, l2, pos1 + 1, pos2, newLabels')
    BY <1>1, <1>3, LoopTypes, UnionTakeOne DEF At1, At2
  <2>2. pos2 + 0 = pos2 /\ pos1 + 1 <= Len(l1) /\ pos2 <= Len(l2)
    BY <1>3, LoopTypes
  <2> QED
    BY <1>2, <1>3, <2>1, <2>2
<1>4. CASE /\ pos2 < Len(l2) /\ (pos1 < Len(l1) => At2 < At1)
           /\ newLabels' = Append(newLabels, At2) /\ Advance(0, 1)
  <2>1. UnionOK(l2, l1, pos2, pos1, newLabels)
    BY <1>1, LoopTypes, UnionSymmetric
  <2>2. UnionOK(l2, l1, pos2 + 1, pos1, newLabels')
    BY <2>1, <1>4, LoopTypes, UnionTakeOne DEF At1, At2
  <2>3. UnionOK(l1, l2, pos1, pos2 + 1, newLabels')
    BY <2>2, LoopTypes, UnionSymmetric
  <2>4. pos1 + 0 = pos1 /\ pos2 + 1 <= Len(l2) /\ pos1 <= Len(l1)
    BY <1>4, LoopTypes
  <2> QED
    BY <1>2, <1>4, <2>3, <2>4
<1>5. CASE /\ pos1 < Len(l1) /\ pos2 < Len(l2) /\ At1 = At2
           /\ newLabels' = Append(newLabels, At1) /\ Advance(1, 1)
  <2>1. UnionOK(l1, l2, pos1 + 1, pos2 + 1, newLabels')
    BY <1>1, <1>5, LoopTypes, UnionTakeBoth DEF At1, At2
  <2>2. pos1 + 1 <= Len(l1) /\ pos2 + 1 <= Len(l2)
    BY <1>5, LoopTypes
  <2> QED
    BY <1>2, <1>5, <2>1, <2>2
<1> QED
  BY <1>3, <1>4, <1>5, LoopTypes DEF UnionStep

\* union ends: an operand as long as the result is the result.
LEMMA UnionEndIInv == ASSUME IInv, UnionEnd PROVE IInv'
<1>1. /\ UnionOK(l1, l2, Len(l1), Len(l2), newLabels)
      /\ call.op \in {"union", "unionLabel"} /\ l1 = call.x /\ l2 = call.y
      /\ pos1 = Len(l1) /\ pos2 = Len(l2)
  BY DEF UnionEnd, IInv, LoopOK, CallOK
<1>2. Pre(l1, Len(l1)) = Elems(l1) /\ Pre(l2, Len(l2)) = Elems(l2)
  BY <1>1, LoopTypes, PreFacts
<1>3. newLabels \in LabelSet /\ Elems(newLabels) = Elems(l1) \cup Elems(l2)
  BY <1>1, <1>2 DEF UnionOK, LabelSet
<1>4. PICK set \in LabelSet, new \in BOOLEAN :
        /\ Return(SetResult(set, new))
        /\ Elems(set) = Elems(l1) \cup Elems(l2)
        /\ new => set # EMPTY
  <2>1. CASE Len(newLabels) = Len(l1)
    <3>1. Return(SetResult(l1, FALSE)) /\ Elems(l1) = Elems(l1) \cup Elems(l2)
      BY <1>1, <1>2, <2>1 DEF UnionEnd, UnionOK
    <3> QED
      BY <3>1, LoopTypes
  <2>2. CASE Len(newLabels) # Len(l1) /\ pc = "union" /\ Len(newLabels) = Len(l2)
    <3>1. Return(SetResult(l2, FALSE)) /\ Elems(l2) = Elems(l1) \cup Elems(l2)
      BY <1>1, <1>2, <2>2 DEF UnionEnd, UnionOK
    <3> QED
      BY <3>1, LoopTypes
  <2>3. CASE Len(newLabels) # Len(l1) /\ ~(pc = "union" /\ Len(newLabels) = Len(l2))
    <3>1. Return(SetResult(newLabels, TRUE))
      BY <2>3 DEF UnionEnd
    <3>2. newLabels # EMPTY
      BY <1>1, <2>3, LoopTypes, EmptyFacts DEF UnionOK
    <3> QED
      BY <1>3, <3>1, <3>2
  <2> QED
    BY <2>1, <2>2, <2>3
<1>5. set \in Seq(Labels)
  BY DEF LabelSet
<1>6. ResultOK'
  BY <1>1, <1>4, <1>5, ResultFacts DEF ResultOK, UnionCorrect, MinusCorrect, ChecksCorrect,
     NewNonempty, Returned, Return
<1> QED
  BY <1>4, <1>5, <1>6, ResultFacts, ReturnIInv

\* One iteration of minus keeps a label, or passes one of the second operand.
LEMMA MinusStepIInv == ASSUME IInv, MinusStep PROVE IInv'
<1>1. /\ pc = "minus" /\ pc \in Loops /\ pos' = pos /\ pos1 < Len(l1)
      /\ MinusOK(l1, l2, pos1, pos2, newLabels)
  BY DEF MinusStep, IInv, LoopOK, Loops
<1>2. ASSUME NEW by1 \in 0..1, NEW by2 \in 0..1, Advance(by1, by2),
             pos1 + by1 <= Len(l1), pos2 + by2 <= Len(l2),
             MinusOK(l1, l2, pos1 + by1, pos2 + by2, newLabels')
      PROVE  IInv'
  <2>1. pos1' \in 0..Len(l1) /\ pos2' \in 0..Len(l2)
    BY <1>2, LoopTypes DEF Advance
  <2>2. newLabels' \in Seq(Labels) /\ Len(newLabels') <= pos1' /\ Len(newLabels') \in Nat
    BY <1>2 DEF MinusOK, Advance
  <2>3. LoopOK'
    BY <1>1, <1>2 DEF LoopOK, Advance
  <2>4. Len(newLabels') <= Len(l1)
    BY <2>1, <2>2, LoopTypes
  <2> QED
    BY <1>1, <1>2, <2>1, <2>2, <2>3, <2>4, LoopTypes, AdvanceIInv
<1>3. CASE /\ pos2 < Len(l2) => At1 < At2
           /\ newLabels' = Append(newLabels, At1) /\ Advance(1, 0)
  <2>1. MinusOK(l1, l2, pos1 + 1, pos2, newLabels')
    BY <1>1, <1>3, LoopTypes, MinusKeep DEF At1, At2
  <2>2. pos2 + 0 = pos2 /\ pos1 + 1 <= Len(l1) /\ pos2 <= Len(l2)
    BY <1>1, LoopTypes
  <2> QED
    BY <1>2, <1>3, <2>1, <2>2
<1>4. CASE pos2 < Len(l2) /\ At2 < At1 /\ Advance(0, 1) /\ UNCHANGED newLabels
  <2>1. MinusOK(l1, l2, pos1, pos2 + 1, newLabels')
    BY <1>1, <1>4, LoopTypes, MinusPass DEF At1, At2
  <2>2. pos1 + 0 = pos1 /\ pos2 + 1 <= Len(l2) /\ pos1 <= Len(l1)
    BY <1>4, LoopTypes
  <2> QED
    BY <1>2, <1>4, <2>1, <2>2
<1>5. CASE pos2 < Len(l2) /\ At1 = At2 /\ Advance(1, 1) /\ UNCHANGED newLabels
  <2>1. MinusOK(l1, l2, pos1 + 1, pos2 + 1, newLabels')
    BY <1>1, <1>5, LoopTypes, MinusPass DEF At1, At2
  <2>2. pos1 + 1 <= Len(l1) /\ pos2 + 1 <= Len(l2)
    BY <1>1, <1>5, LoopTypes
  <2> QED
    BY <1>2, <1>5, <2>1, <2>2
<1> QED
  BY <1>3, <1>4, <1>5, LoopTypes DEF MinusStep

\* minus ends: with the labels that were kept, or EMPTY for none.
LEMMA MinusEndIInv == ASSUME IInv, MinusEnd PROVE IInv'
<1>1. /\ MinusOK(l1, l2, Len(l1), pos2, newLabels)
      /\ call.op = "minus" /\ l1 = call.x /\ l2 = call.y /\ pos1 = Len(l1)
  BY DEF MinusEnd, IInv, LoopOK, CallOK
<1>2. Pre(l1, Len(l1)) = Elems(l1)
  BY <1>1, LoopTypes, PreFacts
<1>3. newLabels \in LabelSet /\ Elems(newLabels) = Elems(l1) \ Elems(l2)
  BY <1>1, <1>2 DEF MinusOK, LabelSet
<1>4. PICK new \in BOOLEAN : Return(SetResult(newLabels, new)) /\ (new => newLabels # EMPTY)
  BY DEF MinusEnd, EMPTY
<1>5. newLabels \in Seq(Labels)
  BY LoopTypes
<1>6. ResultOK'
  BY <1>1, <1>3, <1>4, <1>5, ResultFacts DEF ResultOK, UnionCorrect, MinusCorrect, ChecksCorrect,
     NewNonempty, Returned, Return
<1> QED
  BY <1>4, <1>5, <1>6, ResultFacts, ReturnIInv

\* One iteration of isSubsetOf.
LEMMA SubsetStepIInv == ASSUME IInv, SubsetStep PROVE IInv'
<1>1. /\ pc = "isSubsetOf" /\ pc \in Loops /\ pos' = pos /\ newLabels' = newLabels
      /\ pos1 < Len(l1) /\ pos2 < Len(l2)
      /\ SubsetOK(l1, l2, pos1, pos2) /\ Len(newLabels) <= Len(l1) + Len(l2)
  BY DEF SubsetStep, IInv, LoopOK, Loops, TypeOK
<1>2. PICK by1 \in 0..1 : /\ Advance(by1, 1)
                          /\ SubsetOK(l1, l2, pos1 + by1, pos2 + 1)
  <2>1. CASE At2 < At1 /\ Advance(0, 1)
    <3>1. SubsetOK(l1, l2, pos1, pos2 + 1) /\ pos1 + 0 = pos1
      BY <1>1, <2>1, LoopTypes, SubsetPass DEF At1, At2
    <3> QED
      BY <2>1, <3>1
  <2>2. CASE At2 = At1 /\ Advance(1, 1)
    BY <1>1, <2>2, LoopTypes, SubsetPass DEF At1, At2
  <2> QED
    BY <2>1, <2>2 DEF SubsetStep
<1>3. pos1' \in 0..Len(l1) /\ pos2' \in 0..Len(l2)
  BY <1>1, <1>2, LoopTypes DEF Advance
<1>4. LoopOK'
  BY <1>1, <1>2 DEF LoopOK, Advance
<1> QED
  BY <1>1, <1>2, <1>3, <1>4, LoopTypes, AdvanceIInv

\* isSubsetOf ends, called by the program or by checkInUnion.
LEMMA SubsetEndIInv == ASSUME IInv, SubsetEnd PROVE IInv'
<1>1. SubsetOK(l1, l2, pos1, pos2) /\ l1 = call.this
  BY DEF SubsetEnd, IInv, LoopOK, CallOK
<1>2. PICK b \in BOOLEAN : Return(Truth(b)) /\ (b <=> Elems(l1) \subseteq Elems(l2))
  <2>1. CASE pos1 = Len(l1) /\ Return(Truth(TRUE))
    BY <1>1, <2>1, LoopTypes, PreFacts DEF SubsetOK
  <2>2. CASE /\ pos1 < Len(l1) /\ Return(Truth(FALSE))
             /\ pos2 = Len(l2) \/ (pos2 < Len(l2) /\ At2 > At1)
    <3>1. pos2 < Len(l2) => l1[pos1 + 1] < l2[pos2 + 1]
      BY <2>2, LoopTypes, PreFacts DEF At1, At2
    <3>2. ~(Elems(l1) \subseteq Elems(l2))
      BY <1>1, <2>2, <3>1, LoopTypes, SubsetPass
    <3> QED
      BY <2>2, <3>2
  <2> QED
    BY <2>1, <2>2 DEF SubsetEnd
<1>3. /\ call.op = "isSubsetOf" => l2 = call.x
      /\ call.op = "checkInUnion" => Elems(l2) = Elems(call.x) \cup Elems(call.y)
      /\ call.op \in {"isSubsetOf", "checkInUnion"}
  BY EmptyFacts DEF SubsetEnd, IInv, CallOK
<1>4. ResultOK'
  BY <1>1, <1>2, <1>3, ResultFacts DEF ResultOK, UnionCorrect, MinusCorrect, ChecksCorrect,
     NewNonempty, Returned, Return
<1> QED
  BY <1>2, <1>4, ResultFacts, ReturnIInv

\* One iteration of checkInUnion, in which up to three cursors move.
LEMMA InUnionStepIInv == ASSUME IInv, InUnionStep PROVE IInv'
<1>1. /\ pc = "checkInUnion" /\ pc \in Loops /\ newLabels' = newLabels
      /\ pos < Len(call.this) /\ InUnionOK(call.this, l1, l2, pos, pos1, pos2)
      /\ Len(newLabels) <= Len(l1) + Len(l2)
  BY DEF InUnionStep, IInv, LoopOK, Loops, TypeOK
<1>2. /\ pos1' = IF Passed1 THEN pos1 + 1 ELSE pos1
      /\ pos2' = IF Passed2 THEN pos2 + 1 ELSE pos2
      /\ pos' = IF Found THEN pos + 1 ELSE pos
      /\ call' = call /\ l1' = l1 /\ l2' = l2 /\ pc' = pc
  BY LoopTypes DEF InUnionStep, Advance
<1>3. /\ Passed1 <=> pos1 < Len(l1) /\ l1[pos1 + 1] <= call.this[pos + 1]
      /\ Passed2 <=> pos2 < Len(l2) /\ l2[pos2 + 1] <= call.this[pos + 1]
      /\ Found <=> \/ pos1 < Len(l1) /\ l1[pos1 + 1] = call.this[pos + 1]
                   \/ pos2 < Len(l2) /\ l2[pos2 + 1] = call.this[pos + 1]
  <2>1. call.this[pos + 1] \in Int
    BY <1>1, LoopTypes, NextFacts
  <2> QED
    BY <2>1 DEF Passed1, Passed2, Found, At1, At2, AtThis
<1>4. InUnionOK(call.this, l1, l2, pos', pos1', pos2')
  BY <1>1, <1>2, <1>3, LoopTypes, InUnionPass
<1>5. pos' \in 0..Len(call.this) /\ pos1' \in 0..Len(l1) /\ pos2' \in 0..Len(l2)
  BY <1>1, <1>2, LoopTypes DEF Passed1, Passed2
<1>6. LoopOK'
  BY <1>1, <1>2, <1>4 DEF LoopOK
<1> QED
  BY <1>1, <1>2, <1>5, <1>6, LoopTypes, AdvanceIInv DEF InUnionStep

\* checkInUnion ends: every label was found, or one is in neither operand.
LEMMA InUnionEndIInv == ASSUME IInv, InUnionEnd PROVE IInv'
<1>1. /\ InUnionOK(call.this, l1, l2, pos, pos1, pos2)
      /\ call.op = "checkInUnion" /\ l1 = call.x /\ l2 = call.y
  BY DEF InUnionEnd, IInv, LoopOK, CallOK
<1>2. PICK b \in BOOLEAN : /\ Return(Truth(b))
                           /\ b <=> Elems(call.this) \subseteq Elems(l1) \cup Elems(l2)
  <2>1. CASE pos = Len(call.this) /\ Return(Truth(TRUE))
    BY <1>1, <2>1, LoopTypes, PreFacts DEF InUnionOK
  <2>2. CASE pos < Len(call.this) /\ ~Passed1 /\ ~Passed2 /\ Return(Truth(FALSE))
    <3>1. ~(Elems(call.this) \subseteq Elems(l1) \cup Elems(l2))
      BY <1>1, <2>2, LoopTypes, InUnionNo DEF Passed1, Passed2, At1, At2, AtThis
    <3> QED
      BY <2>2, <3>1
  <2> QED
    BY <2>1, <2>2 DEF InUnionEnd
<1>3. ResultOK'
  BY <1>1, <1>2, ResultFacts DEF ResultOK, UnionCorrect, MinusCorrect, ChecksCorrect,
     NewNonempty, Returned, Return
<1> QED
  BY <1>2, <1>3, ResultFacts, ReturnIInv

\* The caller takes the result.
LEMMA FinishIInv == ASSUME IInv, Finish PROVE IInv'
<1>1. TypeOK'
  BY EmptyFacts DEF Finish, TypeOK, NoCall, Ops, Loops, Result, Truth, EMPTY
<1>2. CallOK' /\ LoopOK' /\ ResultOK'
  BY DEF Finish, CallOK, LoopOK, ResultOK, UnionCorrect, MinusCorrect, ChecksCorrect,
         NewNonempty, Returned
<1> QED
  BY <1>1, <1>2 DEF IInv

\* The invariant is inductive.
LEMMA StepIInv == IInv /\ [Next]_vars => IInv'
<1> SUFFICES ASSUME IInv, [Next]_vars PROVE IInv'
  OBVIOUS
<1>1. CASE LoopStep
  BY <1>1, UnionStepIInv, UnionEndIInv, MinusStepIInv, MinusEndIInv, SubsetStepIInv,
     SubsetEndIInv, InUnionStepIInv, InUnionEndIInv DEF LoopStep
<1>2. CASE CallStep
  <2>1. Operands \subseteq LabelSet
    BY LabelSetsAssumption
  <2>2. CASE \E a, b \in Operands, same \in BOOLEAN :
               isSubsetOf(a, b, same) \/ union(a, b, same) \/ minus(a, b, same)
    BY <2>1, <2>2, IsSubsetOfIInv, UnionIInv, MinusIInv
  <2>3. CASE \E a \in Operands, label \in Labels : unionLabel(a, label)
    BY <2>1, <2>3, UnionLabelIInv
  <2>4. CASE \E this, a, b \in Operands, same \in BOOLEAN : checkInUnion(this, a, b, same)
    BY <2>1, <2>4, CheckInUnionIInv
  <2> QED
    BY <1>2, <2>2, <2>3, <2>4 DEF CallStep
<1>3. CASE Finish
  BY <1>3, FinishIInv
<1>4. CASE UNCHANGED vars
  BY <1>4 DEF vars, IInv, TypeOK, CallOK, LoopOK, ResultOK, UnionCorrect, MinusCorrect,
              ChecksCorrect, NewNonempty, Returned
<1> QED
  BY <1>1, <1>2, <1>3, <1>4 DEF Next

-----------------------------------------------------------------------------
(* The theorems.                                                           *)

\* The invariant, from which the others follow.
THEOREM Invariance == Spec => []IInv
  BY InitIInv, StepIInv, PTL DEF Spec

\* The cursors of the loops stay within the arrays, and the labels produced within
\* what was allocated, for label sets of every length.
THEOREM LabelSetsTypeCorrect == Spec => []TypeOK
<1>1. IInv => TypeOK
  BY DEF IInv
<1> QED
  BY <1>1, Invariance, PTL

\* union returns a sorted set that holds exactly the labels of both operands.
THEOREM UnionIsCorrect == Spec => []UnionCorrect
<1>1. IInv => UnionCorrect
  BY DEF IInv, ResultOK
<1> QED
  BY <1>1, Invariance, PTL

\* minus returns a sorted set that holds exactly the labels it should.
THEOREM MinusIsCorrect == Spec => []MinusCorrect
<1>1. IInv => MinusCorrect
  BY DEF IInv, ResultOK
<1> QED
  BY <1>1, Invariance, PTL

\* isSubsetOf and checkInUnion decide inclusion.
THEOREM ChecksAreCorrect == Spec => []ChecksCorrect
<1>1. IInv => ChecksCorrect
  BY DEF IInv, ResultOK
<1> QED
  BY <1>1, Invariance, PTL

\* No operation creates a second empty label set.
THEOREM EmptyIsUnique == Spec => []NewNonempty
<1>1. IInv => NewNonempty
  BY DEF IInv, ResultOK
<1> QED
  BY <1>1, Invariance, PTL

==============================================================================
