-------------------------- MODULE DifcTasksProofs --------------------------
(* Theorems about DifcTasks, for every number of tasks, labels and entries.  *)
EXTENDS DifcTasks, SequenceTheorems, WellFoundedInduction, TLAPS

-----------------------------------------------------------------------------
(* Facts about the list operators.                                         *)

\* A set of indices has a least member, so a loop that breaks at the first
\* match stops at a match.
LEMMA FirstMember ==
    ASSUME NEW S, S \subseteq Nat, S # {}
    PROVE  First(S) \in S /\ \A j \in S : First(S) <= j
<1>1. \E x \in S : \A y \in S : ~(<<y, x>> \in OpToRel(<, Nat))
  BY NatLessThanWellFounded, WFMin, Zenon
<1>2. PICK x \in S : \A y \in S : ~(<<y, x>> \in OpToRel(<, Nat))
  BY <1>1
<1>3. ASSUME NEW y \in S
      PROVE  x <= y
  <2>1. x \in Nat /\ y \in Nat
    OBVIOUS
  <2>2. ASSUME y < x PROVE <<y, x>> \in OpToRel(<, Nat)
    <3>1. <<y, x>> \in Nat \X Nat /\ <<y, x>>[1] < <<y, x>>[2]
      BY <2>1, <2>2
    <3> QED
      BY <3>1, Zenon DEF OpToRel
  <2>3. ~(y < x)
    BY <2>2, <1>2, Zenon
  <2> QED
    BY <2>1, <2>3
<1> QED
  BY <1>3 DEF First

\* Removing one entry keeps the others and nothing else.
LEMMA ShiftDownFacts ==
    ASSUME NEW X, NEW s \in Seq(X), NEW k \in 1..Len(s)
    PROVE  /\ ShiftDown(s, k) \in Seq(X)
           /\ Len(ShiftDown(s, k)) = Len(s) - 1
           /\ Elems(ShiftDown(s, k)) \subseteq Elems(s)
           /\ Elems(s) \ {s[k]} \subseteq Elems(ShiftDown(s, k))
<1> DEFINE n == Len(s) - 1
           e(i) == IF i < k THEN s[i] ELSE s[i + 1]
           r == [i \in 1..n |-> e(i)]
<1>0. n \in Nat /\ Len(s) \in Nat /\ DOMAIN s = 1..Len(s)
  OBVIOUS
<1>1. \A i \in 1..n : e(i) \in X
  BY <1>0
<1>2. r \in Seq(X) /\ Len(r) = n /\ DOMAIN r = 1..n
  BY <1>0, <1>1
<1>3. \A i \in 1..n : r[i] \in Elems(s)
  BY <1>0 DEF Elems
<1>4. ASSUME NEW j \in 1..Len(s), s[j] # s[k]
      PROVE  \E i \in 1..n : r[i] = s[j]
  <2>1. CASE j < k
    BY <2>1, <1>0
  <2>2. CASE j > k
    <3>1. j - 1 \in 1..n /\ ~(j - 1 < k) /\ (j - 1) + 1 = j
      BY <2>2, <1>0
    <3>2. r[j - 1] = s[j]
      BY <3>1
    <3> QED
      BY <3>1, <3>2
  <2> QED
    BY <2>1, <2>2, <1>4
<1>5. ShiftDown(s, k) = r
  BY DEF ShiftDown
<1> HIDE DEF r
<1>6. Elems(r) \subseteq Elems(s)
  BY <1>2, <1>3 DEF Elems
<1>7. Elems(s) \ {s[k]} \subseteq Elems(r)
  BY <1>0, <1>2, <1>4 DEF Elems
<1> QED
  BY <1>2, <1>5, <1>6, <1>7

\* The first capability of a segment for a label is in the segment.
LEMMA MatchInFacts ==
    ASSUME NEW seg \in Seq(Cap), NEW tag, Matches(seg, tag) # {}
    PROVE  /\ First(Matches(seg, tag)) \in 1..Len(seg)
           /\ MatchIn(seg, tag) = seg[First(Matches(seg, tag))]
           /\ MatchIn(seg, tag) \in Elems(seg)
           /\ MatchIn(seg, tag) \in Cap
           /\ MatchIn(seg, tag).tag = tag
<1>1. Matches(seg, tag) \subseteq Nat /\ Matches(seg, tag) \subseteq 1..Len(seg)
  BY DEF Matches
<1>2. First(Matches(seg, tag)) \in Matches(seg, tag)
  BY <1>1, FirstMember
<1>3. MatchIn(seg, tag) = seg[First(Matches(seg, tag))]
  BY DEF MatchIn
<1>4. /\ First(Matches(seg, tag)) \in 1..Len(seg)
      /\ seg[First(Matches(seg, tag))].tag = tag
  BY <1>1, <1>2 DEF Matches
<1>5. seg[First(Matches(seg, tag))] \in Cap
  BY <1>4
<1>6. seg[First(Matches(seg, tag))] \in Elems(seg)
  BY <1>4 DEF Elems
<1> QED
  BY <1>3, <1>4, <1>5, <1>6

\* The segments and the entries of a capability list are well-typed.
LEMMA EntriesOf ==
    ASSUME NEW list \in CapLists
    PROVE  /\ Len(list) \in Nat /\ DOMAIN list = 1..Len(list)
           /\ \A n \in DOMAIN list : list[n] \in Segments /\ list[n] \in Seq(Cap)
           /\ \A n \in DOMAIN list : Elems(list[n]) \subseteq Entries(list)
           /\ Entries(list) \subseteq Cap
<1>1. list \in Seq(Segments)
  BY DEF CapLists
<1>2. Len(list) \in Nat /\ DOMAIN list = 1..Len(list)
  BY <1>1
<1>3. \A n \in DOMAIN list : list[n] \in Segments
  BY <1>1, <1>2
<1>4. \A n \in DOMAIN list : list[n] \in Seq(Cap)
  BY <1>3 DEF Segments
<1>5. \A n \in DOMAIN list : Elems(list[n]) \subseteq Entries(list)
  BY DEF Entries
<1>6. Entries(list) \subseteq Cap
  BY <1>4 DEF Entries, Elems
<1> QED
  BY <1>2, <1>3, <1>4, <1>5, <1>6

\* Appending a capability adds it, and no segment outgrows its array.
LEMMA AppendCapFacts ==
    ASSUME NEW list \in CapLists, NEW cap \in Cap
    PROVE  /\ AppendCap(list, cap) \in CapLists
           /\ Entries(AppendCap(list, cap)) = Entries(list) \cup {cap}
<1> DEFINE roomy == {n \in DOMAIN list : Len(list[n]) < SegCaps}
<1>1. CASE roomy = {}
  <2>1. AppendCap(list, cap) = Append(list, <<cap>>)
    BY <1>1 DEF AppendCap
  <2>2. <<cap>> \in Segments
    BY ConstantsAssumption DEF Segments
  <2>3. AppendCap(list, cap) \in CapLists
    BY <2>1, <2>2 DEF CapLists
  <2> DEFINE r == Append(list, <<cap>>)
  <2>4. /\ DOMAIN r = 1..(Len(list) + 1)
        /\ \A n \in 1..Len(list) : r[n] = list[n]
        /\ r[Len(list) + 1] = <<cap>>
    BY <2>2 DEF CapLists
  <2>5. Elems(<<cap>>) = {cap}
    BY DEF Elems
  <2>6. Len(list) \in Nat /\ DOMAIN list = 1..Len(list)
    BY EntriesOf
  <2>7. Entries(r) \subseteq Entries(list) \cup {cap}
    <3> SUFFICES ASSUME NEW n \in DOMAIN r, NEW c \in Elems(r[n])
                 PROVE  c \in Entries(list) \cup {cap}
      BY DEF Entries
    <3>1. CASE n = Len(list) + 1
      BY <3>1, <2>4, <2>5
    <3>2. CASE n \in 1..Len(list)
      BY <3>2, <2>4, <2>6 DEF Entries
    <3> QED
      BY <3>1, <3>2, <2>4, <2>6
  <2>8. Entries(list) \cup {cap} \subseteq Entries(r)
    <3>1. ASSUME NEW n \in DOMAIN list, NEW c \in Elems(list[n])
          PROVE  c \in Entries(r)
      BY <3>1, <2>4, <2>6 DEF Entries
    <3>2. cap \in Entries(r)
      <4>1. Len(list) + 1 \in DOMAIN r /\ cap \in Elems(r[Len(list) + 1])
        BY <2>4, <2>5, <2>6
      <4> QED
        BY <4>1 DEF Entries
    <3> QED
      BY <3>1, <3>2 DEF Entries
  <2> QED
    BY <2>1, <2>3, <2>7, <2>8
<1>2. CASE roomy # {}
  <2> DEFINE k == First(roomy)
             seg == Append(list[k], cap)
             r == [list EXCEPT ![k] = seg]
  <2>1. k \in roomy
    <3>1. roomy \subseteq Nat
      BY EntriesOf
    <3> QED
      BY <3>1, <1>2, FirstMember
  <2>2. k \in DOMAIN list /\ list[k] \in Seq(Cap) /\ Len(list[k]) < SegCaps
    BY <2>1, EntriesOf
  <2>3. seg \in Seq(Cap) /\ Len(seg) = Len(list[k]) + 1 /\ seg \in Segments
    BY <2>2, ConstantsAssumption DEF Segments
  <2>4. Elems(seg) = Elems(list[k]) \cup {cap}
    <3>1. /\ DOMAIN seg = 1..(Len(list[k]) + 1)
          /\ \A i \in 1..Len(list[k]) : seg[i] = list[k][i]
          /\ seg[Len(list[k]) + 1] = cap
      BY <2>2
    <3>2. Len(list[k]) \in Nat /\ DOMAIN list[k] = 1..Len(list[k])
      BY <2>2
    <3> HIDE DEF k, seg
    <3>3. ASSUME NEW i \in DOMAIN seg PROVE seg[i] \in Elems(list[k]) \cup {cap}
      BY <3>1, <3>2 DEF Elems
    <3>4. ASSUME NEW i \in DOMAIN list[k] PROVE list[k][i] \in Elems(seg)
      BY <3>1, <3>2 DEF Elems
    <3>5. cap \in Elems(seg)
      BY <3>1, <3>2 DEF Elems
    <3> QED
      BY <3>3, <3>4, <3>5 DEF Elems
  <2>5. AppendCap(list, cap) = r
    BY <1>2 DEF AppendCap
  <2> HIDE DEF k, seg
  <2>6. r \in CapLists /\ DOMAIN r = DOMAIN list /\ r[k] = seg
        /\ \A n \in DOMAIN list \ {k} : r[n] = list[n]
    BY <2>2, <2>3, EntriesOf DEF CapLists
  <2> HIDE DEF r
  <2>7. Entries(r) = Entries(list) \cup {cap}
    BY <2>2, <2>4, <2>6 DEF Entries
  <2> QED
    BY <2>5, <2>6, <2>7
<1> QED
  BY <1>1, <1>2

\* A lookup returns rights of an entry for that label, or none.
LEMMA FindFacts ==
    ASSUME NEW list \in CapLists, NEW tag, NEW r \in task_find_capability(list, tag)
    PROVE  \E c \in Entries(list) : c.tag = tag /\ r \in c.rights
<1>1. MatchSegs(list, tag) # {}
  BY DEF task_find_capability
<1> DEFINE n == First(MatchSegs(list, tag))
<1>2. n \in MatchSegs(list, tag)
  <2>1. MatchSegs(list, tag) \subseteq Nat
    BY EntriesOf DEF MatchSegs
  <2> QED
    BY <2>1, <1>1, FirstMember
<1>3. n \in DOMAIN list /\ Matches(list[n], tag) # {}
  BY <1>2 DEF MatchSegs
<1>4. r \in MatchIn(list[n], tag).rights
  BY <1>1 DEF task_find_capability
<1> HIDE DEF n
<1>5. MatchIn(list[n], tag) \in Entries(list) /\ MatchIn(list[n], tag).tag = tag
  BY <1>3, EntriesOf, MatchInFacts
<1> QED
  BY <1>4, <1>5

\* The walk moves only rights that one entry for the label has ...
LEMMA TakenFacts ==
    ASSUME NEW list \in CapLists, NEW tag, NEW T \in SUBSET Rights
    PROVE  /\ Taken(list, tag, T) \in SUBSET Rights
           /\ \A r \in Taken(list, tag, T) :
                r \in T /\ \E c \in Entries(list) : c.tag = tag /\ r \in c.rights
<1>1. CASE TakingSegs(list, tag, T) = {}
  BY <1>1 DEF Taken
<1>2. CASE TakingSegs(list, tag, T) # {}
  <2> DEFINE n == First(TakingSegs(list, tag, T))
  <2>1. n \in TakingSegs(list, tag, T)
    <3>1. TakingSegs(list, tag, T) \subseteq Nat
      BY EntriesOf DEF TakingSegs, MatchSegs
    <3> QED
      BY <3>1, <1>2, FirstMember
  <2>2. n \in DOMAIN list /\ Matches(list[n], tag) # {}
    BY <2>1 DEF TakingSegs, MatchSegs
  <2>3. Taken(list, tag, T) = T \cap MatchIn(list[n], tag).rights
    BY <1>2 DEF Taken
  <2> HIDE DEF n
  <2>4. MatchIn(list[n], tag) \in Entries(list) /\ MatchIn(list[n], tag).tag = tag
    BY <2>2, EntriesOf, MatchInFacts
  <2> QED
    BY <2>3, <2>4
<1> QED
  BY <1>1, <1>2

\* ... and leaves a list of some of the entries, without those rights it moved
\* only if it moved them all.
LEMMA AfterTakeFacts ==
    ASSUME NEW list \in CapLists, NEW tag, NEW T \in SUBSET Rights
    PROVE  /\ AfterTake(list, tag, T) \in CapLists
           /\ Entries(AfterTake(list, tag, T)) \subseteq Entries(list)
           /\ \A c \in Entries(list) \ Entries(AfterTake(list, tag, T)) :
                c.tag = tag /\ c.rights = Taken(list, tag, T)
<1> DEFINE n == First(TakingSegs(list, tag, T))
           removes == /\ TakingSegs(list, tag, T) # {}
                      /\ MatchIn(list[n], tag).rights \subseteq T
<1>1. CASE ~removes
  <2>1. AfterTake(list, tag, T) = list
    BY <1>1 DEF AfterTake
  <2> QED
    BY <2>1
<1>2. CASE removes
  <2> DEFINE k == First(Matches(list[n], tag))
             seg == ShiftDown(list[n], k)
             r == [list EXCEPT ![n] = seg]
  <2>1. n \in TakingSegs(list, tag, T)
    <3>1. TakingSegs(list, tag, T) \subseteq Nat
      BY EntriesOf DEF TakingSegs, MatchSegs
    <3> QED
      BY <3>1, <1>2, FirstMember
  <2>2. n \in DOMAIN list /\ Matches(list[n], tag) # {}
    BY <2>1 DEF TakingSegs, MatchSegs
  <2>3. AfterTake(list, tag, T) = r
    BY <1>2, <2>2 DEF AfterTake
  <2>4. Taken(list, tag, T) = MatchIn(list[n], tag).rights
    BY <1>2 DEF Taken
  <2>5. list[n] \in Seq(Cap) /\ list[n] \in Segments
    BY <2>2, EntriesOf
  <2>6. /\ k \in 1..Len(list[n])
        /\ MatchIn(list[n], tag) = list[n][k]
        /\ MatchIn(list[n], tag).tag = tag
    BY <2>2, <2>5, MatchInFacts
  <2> HIDE DEF n, k
  <2>7. /\ seg \in Seq(Cap) /\ Len(seg) = Len(list[n]) - 1
        /\ Elems(seg) \subseteq Elems(list[n])
        /\ Elems(list[n]) \ {list[n][k]} \subseteq Elems(seg)
    BY <2>5, <2>6, ShiftDownFacts
  <2> HIDE DEF seg
  <2>8. seg \in Segments
    BY <2>5, <2>7, ConstantsAssumption DEF Segments
  <2>9. r \in CapLists /\ DOMAIN r = DOMAIN list /\ r[n] = seg
        /\ \A m \in DOMAIN list \ {n} : r[m] = list[m]
    BY <2>2, <2>8, EntriesOf DEF CapLists
  <2> HIDE DEF r
  <2>10. Entries(r) \subseteq Entries(list)
    BY <2>2, <2>7, <2>9 DEF Entries
  <2>11. Entries(list) \ {list[n][k]} \subseteq Entries(r)
    BY <2>2, <2>7, <2>9 DEF Entries
  <2> QED
    BY <2>3, <2>4, <2>6, <2>9, <2>10, <2>11
<1> QED
  BY <1>1, <1>2

-----------------------------------------------------------------------------
(* The inductive invariant.                                                *)

\* A call in progress belongs to a live task and has a live receiver; its loop
\* index is inside the buffer, and only a send has another task's list.
CallsOK ==
    \A t \in Tasks :
        /\ call[t].pc # "idle" => t \in live /\ call[t].dest \in live
        /\ call[t].pc = "grant" => Len(call[t].buf) = 1 /\ call[t].todo \subseteq live
        /\ call[t].pc \in {"lock1", "lock2", "walk"} => call[t].i \in 1..Len(call[t].buf)
        /\ call[t].pc \in {"lock1", "lock2"} => SelfSend \/ call[t].dest # t
        /\ call[t].op \in {"drop", "resume"} => call[t].dest = t

\* A task owns exactly the cap_locks its progress in a call says.
Owns(t, u) == \/ call[t].pc = "lock2" /\ u = FirstLock(t)
              \/ call[t].pc = "walk" /\ u \in {t, call[t].dest}
LocksOK == \A t, u \in Tasks : cap_lock[u] = t <=> Owns(t, u)

\* What an allocation has yet to hand out has been conveyed, and labels not
\* allocated yet have been conveyed to nobody.
PendingBacked ==
    \A t \in Tasks : call[t].pc = "grant" =>
        \A u \in call[t].todo : call[t].buf[1].rights \subseteq grant[u][call[t].buf[1].tag]
FreshUngranted ==
    \A t \in Tasks, l \in Tags : l > cur_max_capability => grant[t][l] = {}

IInv == TypeOK /\ CallsOK /\ LocksOK /\ OnlyWordsForge /\ PendingBacked /\ FreshUngranted

\* An idle call record is well-typed.
LEMMA NoCallType == \A t \in Tasks : NoCall(t) \in Call
  BY DEF NoCall, CallOf, Call, Ops, Stages

\* So is a call record with a new index and result.
LEMMA CallExceptType ==
    ASSUME NEW c \in Call, NEW i \in Nat, NEW rv \in {"0", "ENOENT"}
    PROVE  [c EXCEPT !.i = i, !.rv = rv] \in Call
<1>1. [c EXCEPT !.i = i] \in Call
  BY DEF Call
<1>2. ASSUME NEW d \in Call PROVE [d EXCEPT !.rv = rv] \in Call
  BY DEF Call
<1>3. [c EXCEPT !.i = i, !.rv = rv] = [[c EXCEPT !.i = i] EXCEPT !.rv = rv]
  BY DEF Call
<1> QED
  BY <1>1, <1>2, <1>3

\* The empty label.
LEMMA UnlabeledType == Unlabeled \in Labels
  BY DEF Unlabeled, Labels

\* The initial state: no label, no capability, no lock.
LEMMA InitInv == Init => IInv
<1> SUFFICES ASSUME Init PROVE IInv
  OBVIOUS
<1>1. <<>> \in CapLists /\ Entries(<<>>) = {}
  BY DEF CapLists, Entries
<1>2. TypeOK
  BY <1>1, ConstantsAssumption, NoCallType, UnlabeledType
  DEF Init, TypeOK, Tags, CAP_START_VAL
<1>3. CallsOK /\ LocksOK /\ PendingBacked
  BY ConstantsAssumption DEF Init, CallsOK, LocksOK, Owns, PendingBacked, NoCall, CallOf
<1>4. OnlyWordsForge /\ FreshUngranted
  BY <1>1 DEF Init, OnlyWordsForge, Holding, FreshUngranted
<1> QED
  BY <1>2, <1>3, <1>4 DEF IInv

\* A step that only moves a task's own label.
LEMMA LabelStepInv ==
    ASSUME IInv, NEW t \in Tasks, LabelStep(t)
    PROVE  IInv'
<1>1. UNCHANGED <<live, capList, capSuspendList, cap_lock, tcb, cur_max_capability,
                  call, grant, claimed>>
  BY DEF LabelStep, __difc_set_label_add, __difc_set_label_remove,
         set_task_label_replace, difc_replace_label_tcb
<1>2. label' \in [Tasks -> Labels]
  <2>0. label \in [Tasks -> Labels] /\ label[t] \in Labels
    BY DEF IInv, TypeOK
  <2>1. CASE \E tag \in Tags, ty \in SetTypes : __difc_set_label_add(t, tag, ty)
    <3>1. PICK tag \in Tags, ty \in LabelTypes : __difc_set_label_add(t, tag, ty)
      BY <2>1, ConstantsAssumption
    <3>2. label[t][ty] \in Seq(Tags)
      BY <2>0 DEF Labels, LabelTypes
    <3>3. Append(label[t][ty], tag) \in Seq(Tags)
      BY <3>2
    <3>4. label' = [label EXCEPT ![t][ty] = Append(label[t][ty], tag)]
      BY <3>1 DEF __difc_set_label_add
    <3> QED
      BY <2>0, <3>3, <3>4 DEF Labels, LabelTypes
  <2>2. CASE \E tag \in Tags, ty \in SetTypes : __difc_set_label_remove(t, tag, ty)
    <3>1. PICK tag \in Tags, ty \in LabelTypes : __difc_set_label_remove(t, tag, ty)
      BY <2>2, ConstantsAssumption
    <3> DEFINE list == label[t][ty]
               where == {i \in DOMAIN list : list[i] = tag}
    <3>2. list \in Seq(Tags)
      BY <2>0 DEF Labels, LabelTypes
    <3>3. First(where) \in 1..Len(list)
      <4>1. where \subseteq Nat /\ where \subseteq 1..Len(list)
        BY <3>2
      <4>2. where # {}
        BY <3>1 DEF __difc_set_label_remove, Elems
      <4> QED
        BY <4>1, <4>2, FirstMember
    <3>4. label' = [label EXCEPT ![t][ty] = ShiftDown(list, First(where))]
      BY <3>1 DEF __difc_set_label_remove
    <3>5. ShiftDown(list, First(where)) \in Seq(Tags)
      BY <3>2, <3>3, ShiftDownFacts
    <3> QED
      BY <2>0, <3>4, <3>5 DEF Labels, LabelTypes
  <2>3. CASE \E new \in UserLabels : \/ set_task_label_replace(t, new)
                                     \/ difc_replace_label_tcb(t, new)
    <3>1. UserLabels \subseteq Labels
      BY ConstantsAssumption
    <3> QED
      BY <2>0, <2>3, <3>1 DEF set_task_label_replace, difc_replace_label_tcb
  <2> QED
    BY <2>1, <2>2, <2>3 DEF LabelStep
<1>3. TypeOK'
  BY <1>1, <1>2 DEF IInv, TypeOK
<1>4. (CallsOK /\ LocksOK /\ PendingBacked /\ FreshUngranted /\ OnlyWordsForge)'
  BY <1>1 DEF IInv, CallsOK, LocksOK, Owns, FirstLock, LockOrder, PendingBacked,
              FreshUngranted, OnlyWordsForge, Holding
<1> QED
  BY <1>3, <1>4 DEF IInv

\* Fork: a slot that is not live is nobody's receiver and owns no lock.
LEMMA ForkInv ==
    ASSUME IInv, NEW p \in Tasks, NEW c \in Tasks, difc_task_alloc_security(p, c)
    PROVE  IInv'
<1> USE DEF difc_task_alloc_security
<1>1. c \notin live /\ call' = call /\ live' = live \cup {c}
  OBVIOUS
<1>2. TypeOK'
  <2>1. <<>> \in CapLists
    BY DEF CapLists
  <2> QED
    BY <2>1, UnlabeledType DEF IInv, TypeOK
<1>3. cap_lock[c] = NoTask
  <2>1. \A t \in Tasks : ~Owns(t, c)
    <3> SUFFICES ASSUME NEW t \in Tasks, Owns(t, c) PROVE FALSE
      OBVIOUS
    <3>1. call[t].pc # "idle" /\ t \in live /\ call[t].dest \in live
      BY DEF IInv, CallsOK, Owns
    <3>2. c = t \/ c = call[t].dest
      BY DEF Owns, FirstLock, LockOrder
    <3> QED
      BY <3>1, <3>2, <1>1
  <2> QED
    BY <2>1 DEF IInv, LocksOK, TypeOK
<1>4. CallsOK'
  BY <1>1 DEF IInv, CallsOK
<1>5. LocksOK'
  <2>1. cap_lock' = cap_lock
    BY <1>3 DEF IInv, TypeOK
  <2> QED
    BY <2>1, <1>1 DEF IInv, LocksOK, Owns, FirstLock, LockOrder
<1>6. OnlyWordsForge'
  <2> SUFFICES ASSUME NEW t \in Tasks,
                      NEW e \in Entries(capList'[t]) \cup Entries(capSuspendList'[t])
               PROVE  e.rights \subseteq grant'[t][e.tag] \cup claimed'[t][e.tag]
    BY DEF OnlyWordsForge, Holding
  <2>1. CASE t = c
    <3>1. Entries(<<>>) = {}
      BY DEF Entries
    <3>2. e \in Entries(capList[p]) /\ grant'[t] = grant[p] /\ claimed'[t] = claimed[p]
      BY <2>1, <3>1 DEF IInv, TypeOK
    <3> QED
      BY <3>2 DEF IInv, OnlyWordsForge, Holding
  <2>2. CASE t # c
    BY <2>2 DEF IInv, TypeOK, OnlyWordsForge, Holding
  <2> QED
    BY <2>1, <2>2
<1>7. PendingBacked'
  <2> SUFFICES ASSUME NEW t \in Tasks, call[t].pc = "grant", NEW u \in call[t].todo
               PROVE  call[t].buf[1].rights \subseteq grant'[u][call[t].buf[1].tag]
    BY <1>1 DEF PendingBacked
  <2>1. u \in live /\ u # c /\ u \in Tasks
    BY <1>1 DEF IInv, CallsOK, TypeOK
  <2>2. grant'[u] = grant[u]
    BY <2>1 DEF IInv, TypeOK
  <2> QED
    BY <2>2 DEF IInv, PendingBacked
<1>8. FreshUngranted'
  BY DEF IInv, TypeOK, FreshUngranted
<1> QED
  BY <1>2, <1>4, <1>5, <1>6, <1>7, <1>8 DEF IInv

\* Exec changes only the tcb bit.
LEMMA ExecInv ==
    ASSUME IInv, NEW t \in Tasks, NEW intList, difc_bprm_apply_creds(t, intList)
    PROVE  IInv'
<1>1. TypeOK'
  BY DEF IInv, TypeOK, difc_bprm_apply_creds
<1>2. (CallsOK /\ LocksOK /\ PendingBacked /\ FreshUngranted /\ OnlyWordsForge)'
  BY DEF IInv, difc_bprm_apply_creds, CallsOK, LocksOK, Owns, FirstLock, LockOrder,
         PendingBacked, FreshUngranted, OnlyWordsForge, Holding
<1> QED
  BY <1>1, <1>2 DEF IInv

\* A step that changes only calls and locks keeps the facts about grants, if
\* it starts no group allocation.
LEMMA GrantFactsKept ==
    ASSUME IInv, NEW t \in Tasks,
           UNCHANGED <<capList, capSuspendList, cur_max_capability, grant, claimed>>,
           call' \in [Tasks -> Call],
           \A u \in Tasks : u # t => call'[u] = call[u],
           call'[t].pc # "grant"
    PROVE  (OnlyWordsForge /\ PendingBacked /\ FreshUngranted)'
<1>1. OnlyWordsForge' /\ FreshUngranted'
  BY DEF IInv, OnlyWordsForge, Holding, FreshUngranted
<1>2. PendingBacked'
  BY DEF IInv, PendingBacked
<1> QED
  BY <1>1, <1>2

\* A call starts (and, for drop and resume, takes the caller's own lock).
LEMMA BeginInv ==
    ASSUME IInv, NEW t \in Tasks, NEW buf \in UserBufs, NEW T \in Types,
           NEW temp \in BOOLEAN, NEW dest \in Tasks,
           \/ difc_drop_capabilities(t, buf, T, temp)
           \/ difc_resume_capabilities(t, buf, T)
           \/ difc_send_capabilities(t, dest, buf, T)
    PROVE  IInv'
<1> DEFINE new == call'[t]
<1>1. PICK op \in {"drop", "resume", "send"}, tmp \in BOOLEAN, d \in Tasks :
        /\ Begin(t, op, IF op = "send" THEN "lock1" ELSE "walk", buf, T, tmp, d)
        /\ op # "send" => d = t /\ cap_lock[t] = NoTask
                          /\ cap_lock' = [cap_lock EXCEPT ![t] = t]
        /\ op = "send" => d \in live /\ (SelfSend \/ d # t) /\ cap_lock' = cap_lock
  <2>1. CASE difc_drop_capabilities(t, buf, T, temp)
    BY <2>1 DEF difc_drop_capabilities
  <2>2. CASE difc_resume_capabilities(t, buf, T)
    BY <2>2 DEF difc_resume_capabilities
  <2>3. CASE difc_send_capabilities(t, dest, buf, T)
    BY <2>3 DEF difc_send_capabilities
  <2> QED
    BY <2>1, <2>2, <2>3
<1>2. /\ Ready(t)
      /\ UNCHANGED <<live, label, capList, capSuspendList, tcb, cur_max_capability,
                    grant, claimed>>
  BY DEF difc_drop_capabilities, difc_resume_capabilities, difc_send_capabilities
<1>3. buf \in Seq(Cap) /\ buf # <<>> /\ Len(buf) >= 1 /\ T \in SUBSET Rights
  BY ConstantsAssumption
<1>4. /\ new = [op |-> op, pc |-> IF op = "send" THEN "lock1" ELSE "walk", buf |-> buf,
                type |-> T, temp |-> tmp, dest |-> d, i |-> 1, rv |-> "0", todo |-> {}]
      /\ \A u \in Tasks : u # t => call'[u] = call[u]
      /\ call' \in [Tasks -> Call]
  BY <1>1, <1>3, NoCallType DEF IInv, TypeOK, Begin, CallOf, Call, Ops, Stages
<1> HIDE DEF new
<1>5. TypeOK'
  BY <1>1, <1>2, <1>4 DEF IInv, TypeOK
<1>6. CallsOK'
  <2> SUFFICES ASSUME NEW u \in Tasks
               PROVE  /\ call'[u].pc # "idle" => u \in live' /\ call'[u].dest \in live'
                      /\ call'[u].pc = "grant" =>
                            Len(call'[u].buf) = 1 /\ call'[u].todo \subseteq live'
                      /\ call'[u].pc \in {"lock1", "lock2", "walk"} =>
                            call'[u].i \in 1..Len(call'[u].buf)
                      /\ call'[u].pc \in {"lock1", "lock2"} =>
                            SelfSend \/ call'[u].dest # u
                      /\ call'[u].op \in {"drop", "resume"} => call'[u].dest = u
    BY DEF CallsOK
  <2>1. CASE u = t
    BY <2>1, <1>1, <1>2, <1>3, <1>4 DEF Ready, new
  <2>2. CASE u # t
    BY <2>2, <1>2, <1>4 DEF IInv, CallsOK
  <2> QED
    BY <2>1, <2>2
<1>7. LocksOK'
  <2> SUFFICES ASSUME NEW v \in Tasks, NEW u \in Tasks
               PROVE  cap_lock'[u] = v <=> Owns(v, u)'
    BY DEF LocksOK
  <2>0. /\ cap_lock[u] = v <=> Owns(v, u)
        /\ cap_lock[u] = t <=> Owns(t, u)
        /\ cap_lock \in [Tasks -> Tasks \cup {NoTask}]
        /\ ~Owns(t, u)
    BY <1>2 DEF IInv, LocksOK, TypeOK, Ready, Owns
  <2>1. CASE v # t
    <3>1. Owns(v, u)' <=> Owns(v, u)
      BY <2>1, <1>4 DEF Owns, FirstLock, LockOrder
    <3> QED
      BY <3>1, <2>0, <2>1, <1>1, ConstantsAssumption
  <2>2. CASE v = t
    <3>1. CASE op = "send"
      BY <3>1, <2>0, <2>2, <1>1, <1>4 DEF Owns, new
    <3>2. CASE op # "send"
      BY <3>2, <2>0, <2>2, <1>1, <1>4 DEF Owns, new
    <3> QED
      BY <3>1, <3>2
  <2> QED
    BY <2>1, <2>2
<1>8. (OnlyWordsForge /\ PendingBacked /\ FreshUngranted)'
  BY <1>2, <1>4, GrantFactsKept DEF new
<1> QED
  BY <1>5, <1>6, <1>7, <1>8 DEF IInv

\* A fresh label is conveyed to the members of its region, and to nobody else.
LEMMA AllocInv ==
    ASSUME IInv, NEW t \in Tasks, NEW T \in Types, NEW region \in Regions,
           difc_alloc_label(t, T, region)
    PROVE  IInv'
<1> DEFINE l == cur_max_capability + 1
           M == Members(t, region)
<1> USE DEF difc_alloc_label
<1>0. /\ cur_max_capability \in Nat /\ l \in Tags /\ l > cur_max_capability
      /\ cur_max_capability' = l /\ T \in SUBSET Rights /\ Ready(t)
  BY ConstantsAssumption DEF IInv, TypeOK, Tags
<1>1. M \subseteq live /\ M \subseteq Tasks /\ (region # "REGION_NONE" => M # {})
  BY <1>0, ConstantsAssumption DEF Members, Regions, IInv, TypeOK, Ready
<1> HIDE DEF M
<1>2. grant' = [u \in Tasks |-> IF u \in M THEN [grant[u] EXCEPT ![l] = T] ELSE grant[u]]
  BY DEF M
<1>3. /\ grant' \in [Tasks -> [Tags -> SUBSET Rights]]
      /\ \A u \in Tasks, k \in Tags : k # l => grant'[u][k] = grant[u][k]
      /\ \A u \in Tasks : grant[u][l] = {}
      /\ \A u \in M : grant'[u][l] = T
      /\ \A u \in Tasks, k \in Tags : grant[u][k] \subseteq grant'[u][k]
  BY <1>0, <1>1, <1>2 DEF IInv, TypeOK, FreshUngranted
<1> DEFINE cap == [tag |-> l, rights |-> T]
           start == CallOf("alloc", "grant", <<cap>>, T, FALSE, t, M)
           new == IF region = "REGION_NONE" THEN NoCall(t) ELSE start
<1>a. call' = [call EXCEPT ![t] = new]
  BY Zenon DEF M
<1>b. cap \in Cap /\ cap.tag = l /\ cap.rights = T
  BY <1>0 DEF Cap
<1> HIDE DEF cap
<1>c. start \in Call
  BY <1>0, <1>1, <1>b DEF Call, Ops, Stages, CallOf
<1>d. /\ start.op = "alloc" /\ start.pc = "grant" /\ start.buf = <<cap>>
      /\ start.type = T /\ start.dest = t /\ start.todo = M
  BY DEF CallOf
<1>e. /\ NoCall(t) \in Call /\ NoCall(t).op = "none" /\ NoCall(t).pc = "idle"
      /\ NoCall(t).dest = t
  BY NoCallType DEF NoCall, CallOf
<1> HIDE DEF start
<1>f. new \in Call /\ (new = NoCall(t) \/ new = start)
  BY <1>c, <1>e
<1> HIDE DEF new
<1>4. /\ \A u \in Tasks : u # t => call'[u] = call[u]
      /\ call'[t] = NoCall(t) \/ call'[t] = start
  BY <1>a, <1>f DEF IInv, TypeOK
<1>5. call' \in [Tasks -> Call]
  BY <1>a, <1>f DEF IInv, TypeOK
<1>6. TypeOK'
  BY <1>0, <1>3, <1>5 DEF IInv, TypeOK
<1>7. CallsOK'
  <2>1. t \in live /\ live' = live
    BY <1>0 DEF Ready
  <2> SUFFICES ASSUME NEW u \in Tasks
               PROVE  /\ call'[u].pc # "idle" => u \in live /\ call'[u].dest \in live
                      /\ call'[u].pc = "grant" =>
                            Len(call'[u].buf) = 1 /\ call'[u].todo \subseteq live
                      /\ call'[u].pc \in {"lock1", "lock2", "walk"} =>
                            call'[u].i \in 1..Len(call'[u].buf)
                      /\ call'[u].pc \in {"lock1", "lock2"} =>
                            SelfSend \/ call'[u].dest # u
                      /\ call'[u].op \in {"drop", "resume"} => call'[u].dest = u
    BY <2>1 DEF CallsOK
  <2>2. CASE u = t
    <3>1. Len(<<cap>>) = 1
      OBVIOUS
    <3>2. CASE call'[t] = NoCall(t)
      BY <3>2, <2>2, <1>e
    <3>3. CASE call'[t] = start
      BY <3>1, <3>3, <2>1, <2>2, <1>1, <1>d
    <3> QED
      BY <3>2, <3>3, <1>4
  <2>3. CASE u # t
    BY <2>3, <1>4 DEF IInv, CallsOK
  <2> QED
    BY <2>2, <2>3
<1>8. LocksOK'
  <2>1. ASSUME NEW v \in Tasks, NEW u \in Tasks
        PROVE  Owns(v, u)' <=> Owns(v, u)
    <3>1. CASE v = t
      BY <3>1, <1>0, <1>4, <1>d, <1>e DEF Owns, Ready
    <3>2. CASE v # t
      BY <3>2, <1>4 DEF Owns, FirstLock, LockOrder
    <3> QED
      BY <3>1, <3>2
  <2> QED
    BY <2>1 DEF IInv, LocksOK
<1>9. OnlyWordsForge'
  <2> SUFFICES ASSUME NEW u \in Tasks,
                      NEW e \in Entries(capList[u]) \cup Entries(capSuspendList[u])
               PROVE  e.rights \subseteq grant'[u][e.tag] \cup claimed[u][e.tag]
    BY DEF OnlyWordsForge, Holding
  <2>1. e.tag \in Tags
    BY EntriesOf DEF IInv, TypeOK, Cap
  <2> QED
    BY <2>1, <1>3 DEF IInv, OnlyWordsForge, Holding
<1>10. PendingBacked'
  <2> SUFFICES ASSUME NEW v \in Tasks, call'[v].pc = "grant", NEW u \in call'[v].todo
               PROVE  call'[v].buf[1].rights \subseteq grant'[u][call'[v].buf[1].tag]
    BY DEF PendingBacked
  <2>1. CASE v = t
    <3>0. call'[t] = start /\ <<cap>>[1] = cap
      BY <2>1, <1>4, <1>e
    <3>1. call'[t].buf[1] = cap /\ call'[t].todo = M
      BY <3>0, <1>d
    <3>2. grant'[u][l] = T
      BY <2>1, <3>1, <1>3
    <3> QED
      BY <2>1, <3>1, <3>2, <1>b
  <2>2. CASE v # t
    <3>1. call'[v] = call[v] /\ call[v] \in Call
      BY <2>2, <1>4 DEF IInv, TypeOK
    <3>2. u \in Tasks /\ Len(call[v].buf) = 1 /\ call[v].buf \in Seq(Cap)
      BY <3>1 DEF IInv, CallsOK, Call
    <3>a. call[v].buf[1] \in Cap
      BY <3>2
    <3>3. call[v].buf[1].tag \in Tags
      BY <3>a DEF Cap
    <3>4. call[v].buf[1].rights \subseteq grant[u][call[v].buf[1].tag]
      BY <3>1, Zenon DEF IInv, PendingBacked
    <3>5. grant[u][call[v].buf[1].tag] \subseteq grant'[u][call[v].buf[1].tag]
      BY <3>2, <3>3, <1>3
    <3> QED
      BY <3>1, <3>4, <3>5
  <2> QED
    BY <2>1, <2>2
<1>11. FreshUngranted'
  BY <1>0, <1>3 DEF IInv, FreshUngranted, Tags
<1> QED
  BY <1>6, <1>7, <1>8, <1>9, <1>10, <1>11 DEF IInv

\* One thread of the region gets the capability conveyed to it.
LEMMA GrantStepInv ==
    ASSUME IInv, NEW t \in Tasks, NEW w \in Tasks, __difc_alloc_label(t, w)
    PROVE  IInv'
<1> DEFINE cap == call[t].buf[1]
<1> USE DEF __difc_alloc_label
<1>1. /\ call[t].pc = "grant" /\ w \in call[t].todo /\ call[t] \in Call
      /\ Len(call[t].buf) = 1 /\ call[t].buf \in Seq(Cap)
      /\ call[t].todo \subseteq live
  BY DEF IInv, TypeOK, CallsOK, Call
<1>2. cap \in Cap /\ cap.rights \subseteq grant[w][cap.tag]
  BY <1>1 DEF IInv, PendingBacked
<1>3. capList' = [capList EXCEPT ![w] = AppendCap(capList[w], cap)]
  OBVIOUS
<1>4. capList[w] \in CapLists
  BY DEF IInv, TypeOK
<1> HIDE DEF cap
<1>5. /\ AppendCap(capList[w], cap) \in CapLists
      /\ Entries(AppendCap(capList[w], cap)) = Entries(capList[w]) \cup {cap}
  BY <1>2, <1>4, AppendCapFacts
<1> DEFINE rest == [call[t] EXCEPT !.todo = call[t].todo \ {w}]
           new == IF call[t].todo = {w} THEN NoCall(t) ELSE rest
<1>a. call' = [call EXCEPT ![t] = new]
  BY Zenon
<1>b. call \in [Tasks -> Call]
  BY DEF IInv, TypeOK
<1>c. call' = [call EXCEPT ![t] = call'[t]] /\ call'[t] = new
      /\ \A u \in Tasks : u # t => call'[u] = call[u]
  BY <1>a, <1>b
<1>6. /\ \A u \in Tasks : u # t => call'[u] = call[u]
      /\ call'[t] = NoCall(t) \/ call'[t] = [call[t] EXCEPT !.todo = call[t].todo \ {w}]
      /\ call' = [call EXCEPT ![t] = call'[t]]
  BY <1>c
<1>7. call' \in [Tasks -> Call]
  <2>1. call'[t] \in Call
    BY <1>1, <1>6, NoCallType DEF Call
  <2> QED
    BY <2>1, <1>6 DEF IInv, TypeOK
<1>8. TypeOK'
  BY <1>3, <1>5, <1>7 DEF IInv, TypeOK
<1>9. \/ call'[t] = NoCall(t)
      \/ /\ call'[t].pc = "grant" /\ call'[t].op = call[t].op
         /\ call'[t].buf = call[t].buf /\ call'[t].type = call[t].type
         /\ call'[t].dest = call[t].dest /\ call'[t].todo \subseteq call[t].todo
  BY <1>1, <1>6 DEF Call
<1>10. CallsOK'
  <2> SUFFICES ASSUME NEW u \in Tasks
               PROVE  /\ call'[u].pc # "idle" => u \in live /\ call'[u].dest \in live
                      /\ call'[u].pc = "grant" =>
                            Len(call'[u].buf) = 1 /\ call'[u].todo \subseteq live
                      /\ call'[u].pc \in {"lock1", "lock2", "walk"} =>
                            call'[u].i \in 1..Len(call'[u].buf)
                      /\ call'[u].pc \in {"lock1", "lock2"} =>
                            SelfSend \/ call'[u].dest # u
                      /\ call'[u].op \in {"drop", "resume"} => call'[u].dest = u
    BY DEF CallsOK
  <2>1. CASE u = t
    BY <2>1, <1>1, <1>9 DEF IInv, CallsOK, NoCall, CallOf
  <2>2. CASE u # t
    BY <2>2, <1>6 DEF IInv, CallsOK
  <2> QED
    BY <2>1, <2>2
<1>11. LocksOK'
  <2>1. ASSUME NEW v \in Tasks, NEW u \in Tasks
        PROVE  Owns(v, u)' <=> Owns(v, u)
    <3>1. CASE v = t
      BY <3>1, <1>1, <1>9 DEF Owns, NoCall, CallOf
    <3>2. CASE v # t
      BY <3>2, <1>6 DEF Owns, FirstLock, LockOrder
    <3> QED
      BY <3>1, <3>2
  <2> QED
    BY <2>1 DEF IInv, LocksOK
<1>12. OnlyWordsForge'
  <2> SUFFICES ASSUME NEW u \in Tasks,
                      NEW e \in Entries(capList'[u]) \cup Entries(capSuspendList[u])
               PROVE  e.rights \subseteq grant[u][e.tag] \cup claimed[u][e.tag]
    BY DEF OnlyWordsForge, Holding
  <2>1. CASE u = w /\ e = cap
    BY <2>1, <1>2
  <2>2. CASE u # w \/ e # cap
    <3>1. e \in Entries(capList[u]) \cup Entries(capSuspendList[u])
      BY <2>2, <1>3, <1>5 DEF IInv, TypeOK
    <3> QED
      BY <3>1 DEF IInv, OnlyWordsForge, Holding
  <2> QED
    BY <2>1, <2>2
<1>13. PendingBacked'
  <2> SUFFICES ASSUME NEW v \in Tasks, call'[v].pc = "grant", NEW u \in call'[v].todo
               PROVE  call'[v].buf[1].rights \subseteq grant[u][call'[v].buf[1].tag]
    BY DEF PendingBacked
  <2>1. CASE v = t
    BY <2>1, <1>1, <1>9 DEF IInv, PendingBacked, NoCall, CallOf
  <2>2. CASE v # t
    BY <2>2, <1>6 DEF IInv, PendingBacked
  <2> QED
    BY <2>1, <2>2
<1>14. FreshUngranted'
  BY DEF IInv, FreshUngranted
<1> QED
  BY <1>8, <1>10, <1>11, <1>12, <1>13, <1>14 DEF IInv

\* Pending allocations stay backed while grants only grow.
LEMMA PendingKept ==
    ASSUME IInv,
           \A u \in Tasks, l \in Tags : grant[u][l] \subseteq grant'[u][l],
           \A u \in Tasks : call'[u].pc = "grant" => call'[u] = call[u]
    PROVE  PendingBacked'
<1> SUFFICES ASSUME NEW v \in Tasks, call'[v].pc = "grant", NEW u \in call'[v].todo
             PROVE  call'[v].buf[1].rights \subseteq grant'[u][call'[v].buf[1].tag]
  BY DEF PendingBacked
<1>1. call'[v] = call[v] /\ call[v] \in Call
  BY DEF IInv, TypeOK
<1>2. u \in Tasks /\ Len(call[v].buf) = 1 /\ call[v].buf \in Seq(Cap)
  BY <1>1 DEF IInv, CallsOK, Call
<1>a. call[v].buf[1] \in Cap
  BY <1>2
<1>3. call[v].buf[1].tag \in Tags
  BY <1>a DEF Cap
<1> QED
  BY <1>1, <1>2, <1>3 DEF IInv, PendingBacked

\* spin_lock of the first cap_lock of a send, and of the second.
LEMMA AcquireInv ==
    ASSUME IInv, NEW t \in Tasks, AcquireFirst(t) \/ AcquireSecond(t)
    PROVE  IInv'
<1>1. PICK pc \in {"lock2", "walk"}, k \in Tasks :
        /\ call' = [call EXCEPT ![t].pc = pc]
        /\ cap_lock' = [cap_lock EXCEPT ![k] = t]
        /\ cap_lock[k] = NoTask
        /\ pc = "lock2" => call[t].pc = "lock1" /\ k = FirstLock(t)
        /\ pc = "walk" => call[t].pc = "lock2" /\ k = SecondLock(t)
  <2>0. call[t].dest \in Tasks
    BY DEF IInv, TypeOK, Call
  <2>1. FirstLock(t) \in Tasks /\ SecondLock(t) \in Tasks
    BY <2>0 DEF FirstLock, SecondLock, LockOrder
  <2>2. CASE AcquireFirst(t)
    BY <2>1, <2>2 DEF AcquireFirst
  <2>3. CASE AcquireSecond(t)
    BY <2>1, <2>3 DEF AcquireSecond
  <2> QED
    BY <2>2, <2>3
<1>2. UNCHANGED <<live, label, capList, capSuspendList, tcb, cur_max_capability,
                 grant, claimed>>
  BY DEF AcquireFirst, AcquireSecond
<1>3. /\ call \in [Tasks -> Call] /\ call[t] \in Call
      /\ cap_lock \in [Tasks -> Tasks \cup {NoTask}]
  BY DEF IInv, TypeOK
<1>4. /\ \A u \in Tasks : u # t => call'[u] = call[u]
      /\ call'[t] = [call[t] EXCEPT !.pc = pc]
      /\ call'[t].pc = pc /\ call'[t].op = call[t].op /\ call'[t].buf = call[t].buf
      /\ call'[t].dest = call[t].dest /\ call'[t].i = call[t].i
  BY <1>1, <1>3 DEF Call
<1>5. call' \in [Tasks -> Call]
  BY <1>1, <1>3 DEF Call, Stages
<1>6. TypeOK'
  BY <1>1, <1>2, <1>5 DEF IInv, TypeOK
<1>7. CallsOK'
  BY <1>1, <1>2, <1>4 DEF IInv, CallsOK
<1>8. LocksOK'
  <2> SUFFICES ASSUME NEW v \in Tasks, NEW u \in Tasks
               PROVE  cap_lock'[u] = v <=> Owns(v, u)'
    BY DEF LocksOK
  <2>0. /\ cap_lock[u] = v <=> Owns(v, u)
        /\ cap_lock[k] = v <=> Owns(v, k)
    BY DEF IInv, LocksOK
  <2>1. cap_lock'[u] = IF u = k THEN t ELSE cap_lock[u]
    BY <1>1, <1>3
  <2>2. CASE v # t
    <3>1. Owns(v, u)' <=> Owns(v, u)
      BY <2>2, <1>4 DEF Owns, FirstLock, LockOrder
    <3> QED
      BY <3>1, <2>0, <2>1, <2>2, <1>1, ConstantsAssumption
  <2>3. CASE v = t
    <3>1. FirstLock(t)' = FirstLock(t)
      BY <1>4 DEF FirstLock, LockOrder
    <3>2. {FirstLock(t), SecondLock(t)} = {t, call[t].dest}
      BY DEF FirstLock, SecondLock, LockOrder
    <3>3. CASE pc = "lock2"
      BY <3>1, <3>3, <2>0, <2>1, <2>3, <1>1, <1>4 DEF Owns
    <3>4. CASE pc = "walk"
      BY <3>2, <3>4, <2>0, <2>1, <2>3, <1>1, <1>4 DEF Owns
    <3> QED
      BY <3>3, <3>4
  <2> QED
    BY <2>2, <2>3
<1>9. (OnlyWordsForge /\ PendingBacked /\ FreshUngranted)'
  <2>1. call'[t].pc # "grant"
    BY <1>1, <1>4
  <2> QED
    BY <2>1, <1>2, <1>4, <1>5, GrantFactsKept
<1> QED
  BY <1>6, <1>7, <1>8, <1>9 DEF IInv

\* What every iteration of a buffer walk keeps, whatever it moves: the loop
\* index stays inside the buffer, and the locks are released together with the
\* end of the call.
LEMMA EntryKeeps ==
    ASSUME IInv, NEW t \in Tasks, NEW source, call[t].pc = "walk",
           EndEntry(t, source),
           UNCHANGED <<live, label, tcb, cur_max_capability>>,
           capList' \in [Tasks -> CapLists],
           capSuspendList' \in [Tasks -> CapLists],
           grant' \in [Tasks -> [Tags -> SUBSET Rights]],
           claimed' \in [Tasks -> [Tags -> SUBSET Rights]],
           \A u \in Tasks, l \in Tags : grant[u][l] \subseteq grant'[u][l],
           FreshUngranted'
    PROVE  (TypeOK /\ CallsOK /\ LocksOK /\ PendingBacked /\ FreshUngranted)'
<1>1. /\ call \in [Tasks -> Call] /\ call[t] \in Call
      /\ call[t].i \in 1..Len(call[t].buf) /\ call[t].buf \in Seq(Cap)
      /\ cap_lock \in [Tasks -> Tasks \cup {NoTask}]
      /\ Len(call[t].buf) \in Nat
  BY DEF IInv, TypeOK, CallsOK, Call
<1>2. ResultOf(t, source) \in {"0", "ENOENT"}
  BY <1>1 DEF ResultOf, Call
<1> DEFINE more == call[t].i < Len(call[t].buf)
<1>3. CASE more
  <2> DEFINE next == [call[t] EXCEPT !.i = call[t].i + 1, !.rv = ResultOf(t, source)]
  <2>1. call' = [call EXCEPT ![t] = next] /\ cap_lock' = cap_lock
    BY <1>3 DEF EndEntry
  <2>a. /\ next.pc = "walk" /\ next.op = call[t].op /\ next.buf = call[t].buf
        /\ next.dest = call[t].dest /\ next.i = call[t].i + 1
    BY <1>1 DEF Call
  <2>b. next \in Call
    <3>1. call[t].i + 1 \in Nat
      BY <1>1
    <3> QED
      BY <3>1, <1>1, <1>2, CallExceptType
  <2> HIDE DEF next
  <2>2. /\ \A u \in Tasks : u # t => call'[u] = call[u]
        /\ call'[t].pc = "walk" /\ call'[t].op = call[t].op /\ call'[t].buf = call[t].buf
        /\ call'[t].dest = call[t].dest /\ call'[t].i = call[t].i + 1
        /\ call' \in [Tasks -> Call]
    BY <2>1, <2>a, <2>b, <1>1
  <2>3. TypeOK'
    BY <2>1, <2>2 DEF IInv, TypeOK
  <2>4. CallsOK'
    <3>1. call[t].i + 1 \in 1..Len(call[t].buf)
      BY <1>1, <1>3
    <3> QED
      BY <2>2, <3>1 DEF IInv, CallsOK
  <2>5. LocksOK'
    <3>1. ASSUME NEW v \in Tasks, NEW u \in Tasks
          PROVE  Owns(v, u)' <=> Owns(v, u)
      BY <2>2 DEF Owns, FirstLock, LockOrder
    <3> QED
      BY <3>1, <2>1 DEF IInv, LocksOK
  <2>6. \A u \in Tasks : call'[u].pc = "grant" => call'[u] = call[u]
    BY <2>2
  <2> QED
    BY <2>3, <2>4, <2>5, <2>6, PendingKept
<1>4. CASE ~more
  <2>1. /\ call' = [call EXCEPT ![t] = NoCall(t)]
        /\ cap_lock' = [u \in Tasks |->
                          IF u \in {t, call[t].dest} THEN NoTask ELSE cap_lock[u]]
    BY <1>4 DEF EndEntry
  <2>2. /\ \A u \in Tasks : u # t => call'[u] = call[u]
        /\ call'[t].pc = "idle" /\ call'[t].op = "none"
        /\ call' \in [Tasks -> Call]
    BY <2>1, <1>1, NoCallType DEF NoCall, CallOf
  <2>3. TypeOK'
    BY <2>1, <2>2, <1>1 DEF IInv, TypeOK
  <2>4. CallsOK'
    BY <2>2 DEF IInv, CallsOK
  <2>5. LocksOK'
    <3> SUFFICES ASSUME NEW v \in Tasks, NEW u \in Tasks
                 PROVE  cap_lock'[u] = v <=> Owns(v, u)'
      BY DEF LocksOK
    <3>0. /\ cap_lock[u] = v <=> Owns(v, u)
          /\ cap_lock[u] = t <=> Owns(t, u)
          /\ Owns(t, u) <=> u \in {t, call[t].dest}
      BY DEF IInv, LocksOK, Owns
    <3>1. cap_lock'[u] = IF u \in {t, call[t].dest} THEN NoTask ELSE cap_lock[u]
      BY <2>1
    <3>2. CASE v # t
      <4>1. Owns(v, u)' <=> Owns(v, u)
        BY <3>2, <2>2 DEF Owns, FirstLock, LockOrder
      <4> QED
        BY <4>1, <3>0, <3>1, <3>2, ConstantsAssumption
    <3>3. CASE v = t
      <4>1. ~Owns(t, u)'
        BY <2>2 DEF Owns
      <4> QED
        BY <4>1, <3>0, <3>1, <3>3, ConstantsAssumption
    <3> QED
      BY <3>2, <3>3
  <2>6. \A u \in Tasks : call'[u].pc = "grant" => call'[u] = call[u]
    BY <2>2
  <2> QED
    BY <2>3, <2>4, <2>5, <2>6, PendingKept
<1> QED
  BY <1>3, <1>4

\* A word that matches a label is that label.
LEMMA KeyFacts ==
    ASSUME NEW word \in Cap, Key(word) \in Tags
    PROVE  Key(word) = word.tag
  BY ConstantsAssumption DEF Key, NoTag, Tags

\* One iteration moves only rights that the word has itself, or rights of the call
\* that an entry of the source for the word's label has.
LEMMA MovedFacts ==
    ASSUME IInv, NEW t \in Tasks, NEW source \in CapLists, call[t].pc = "walk",
           \A c \in Entries(source) : c.rights \subseteq grant[t][c.tag] \cup claimed[t][c.tag]
    PROVE  /\ Entry(t) \in Cap /\ Entry(t).tag \in Tags /\ call[t].type \in SUBSET Rights
           /\ Moved(t, source) \in Cap
           /\ Moved(t, source).tag = Entry(t).tag
           /\ \A r \in Moved(t, source).rights \ Entry(t).rights :
                r \in call[t].type /\ r \in grant[t][Entry(t).tag] \cup claimed[t][Entry(t).tag]
           /\ AfterTake(source, Key(Entry(t)), call[t].type) \in CapLists
           /\ Entries(AfterTake(source, Key(Entry(t)), call[t].type)) \subseteq Entries(source)
<1> DEFINE key == Key(Entry(t))
           T == call[t].type
<1>1. call[t].i \in 1..Len(call[t].buf) /\ call[t].buf \in Seq(Cap)
  BY DEF IInv, TypeOK, CallsOK, Call
<1>2. Entry(t) \in Cap
  BY <1>1 DEF Entry
<1>3. T \in SUBSET Rights
  BY DEF IInv, TypeOK, Call
<1>k. key \in Tags => key = Entry(t).tag
  BY <1>2, KeyFacts
<1>m. Moved(t, source) = [tag |-> Entry(t).tag,
                          rights |-> Entry(t).rights \cup Taken(source, key, T)]
  BY DEF Moved
<1> HIDE DEF key, T
<1>4. /\ Taken(source, key, T) \in SUBSET Rights
      /\ \A r \in Taken(source, key, T) :
           r \in T /\ \E c \in Entries(source) : c.tag = key /\ r \in c.rights
  BY <1>3, TakenFacts
<1>5. ASSUME NEW r \in Taken(source, key, T)
      PROVE  r \in T /\ r \in grant[t][Entry(t).tag] \cup claimed[t][Entry(t).tag]
  <2>1. PICK c \in Entries(source) : c.tag = key /\ r \in c.rights
    BY <1>4
  <2>2. key = Entry(t).tag
    BY <2>1, <1>k, EntriesOf DEF Cap
  <2> QED
    BY <2>1, <2>2, <1>4
<1>6. /\ AfterTake(source, key, T) \in CapLists
      /\ Entries(AfterTake(source, key, T)) \subseteq Entries(source)
  BY <1>3, AfterTakeFacts
<1>7. Moved(t, source) \in Cap /\ Entry(t).tag \in Tags
  BY <1>2, <1>4, <1>m DEF Cap
<1> QED
  BY <1>2, <1>3, <1>m, <1>5, <1>6, <1>7 DEF key, T

\* What the word of an iteration claims is recorded.
LEMMA ClaimFacts ==
    ASSUME NEW t \in Tasks, NEW u \in Tasks, Entry(t) \in Cap, Entry(t).tag \in Tags,
           claimed \in [Tasks -> [Tags -> SUBSET Rights]], Claim(t, u)
    PROVE  /\ claimed' \in [Tasks -> [Tags -> SUBSET Rights]]
           /\ \A v \in Tasks, l \in Tags : claimed[v][l] \subseteq claimed'[v][l]
           /\ Entry(t).rights \subseteq claimed'[u][Entry(t).tag]
<1> DEFINE word == Entry(t)
<1>1. claimed' = [claimed EXCEPT ![u][word.tag] = claimed[u][word.tag] \cup word.rights]
  BY DEF Claim
<1>2. word.tag \in Tags /\ word.rights \in SUBSET Rights
  BY DEF Cap
<1> HIDE DEF word
<1>3. /\ claimed' \in [Tasks -> [Tags -> SUBSET Rights]]
      /\ \A v \in Tasks, l \in Tags : claimed[v][l] \subseteq claimed'[v][l]
      /\ word.rights \subseteq claimed'[u][word.tag]
  BY <1>1, <1>2
<1> QED
  BY <1>3 DEF word

\* One iteration of difc_drop_capabilities.
LEMMA DropEntryInv ==
    ASSUME IInv, NEW t \in Tasks, DropEntry(t)
    PROVE  IInv'
<1> DEFINE word == Entry(t)
           moved == Moved(t, capList[t])
           left == AfterTake(capList[t], Key(Entry(t)), call[t].type)
           more == AppendCap(capSuspendList[t], moved)
<1>1. /\ call[t].pc = "walk" /\ EndEntry(t, capList[t])
      /\ capList' = [capList EXCEPT ![t] = left]
      /\ \/ capSuspendList' = [capSuspendList EXCEPT ![t] = more] /\ Claim(t, t)
         \/ capSuspendList' = capSuspendList /\ claimed' = claimed
      /\ UNCHANGED <<live, label, tcb, cur_max_capability, grant>>
  BY DEF DropEntry, InWalk
<1>2. /\ capList \in [Tasks -> CapLists] /\ capSuspendList \in [Tasks -> CapLists]
      /\ grant \in [Tasks -> [Tags -> SUBSET Rights]]
      /\ claimed \in [Tasks -> [Tags -> SUBSET Rights]]
      /\ \A c \in Entries(capList[t]) : c.rights \subseteq grant[t][c.tag] \cup claimed[t][c.tag]
  BY DEF IInv, TypeOK, OnlyWordsForge, Holding
<1>3. /\ word \in Cap /\ word.tag \in Tags
      /\ moved \in Cap /\ moved.tag = word.tag
      /\ \A r \in moved.rights \ word.rights : r \in grant[t][word.tag] \cup claimed[t][word.tag]
      /\ left \in CapLists /\ Entries(left) \subseteq Entries(capList[t])
  BY <1>1, <1>2, MovedFacts
<1>a. /\ claimed' \in [Tasks -> [Tags -> SUBSET Rights]]
      /\ \A v \in Tasks, l \in Tags : claimed[v][l] \subseteq claimed'[v][l]
      /\ capSuspendList' # capSuspendList => word.rights \subseteq claimed'[t][word.tag]
  BY <1>1, <1>2, <1>3, ClaimFacts
<1> HIDE DEF moved, left, word
<1>4. more \in CapLists /\ Entries(more) = Entries(capSuspendList[t]) \cup {moved}
  BY <1>2, <1>3, AppendCapFacts
<1> HIDE DEF more
<1>5. capList' \in [Tasks -> CapLists] /\ capSuspendList' \in [Tasks -> CapLists]
  BY <1>1, <1>2, <1>3, <1>4
<1>6. FreshUngranted'
  BY <1>1 DEF IInv, FreshUngranted
<1>7. (TypeOK /\ CallsOK /\ LocksOK /\ PendingBacked /\ FreshUngranted)'
  BY <1>1, <1>2, <1>5, <1>6, <1>a, EntryKeeps
<1>8. OnlyWordsForge'
  <2> SUFFICES ASSUME NEW u \in Tasks,
                      NEW e \in Entries(capList'[u]) \cup Entries(capSuspendList'[u])
               PROVE  e.rights \subseteq grant[u][e.tag] \cup claimed'[u][e.tag]
    BY <1>1 DEF OnlyWordsForge, Holding
  <2>1. \/ e \in Entries(capList[u]) \cup Entries(capSuspendList[u])
        \/ u = t /\ e = moved /\ capSuspendList' # capSuspendList
    BY <1>1, <1>2, <1>3, <1>4
  <2>2. CASE e \in Entries(capList[u]) \cup Entries(capSuspendList[u])
    <3>1. e.tag \in Tags
      BY <2>2, <1>2, EntriesOf DEF Cap
    <3>2. e.rights \subseteq grant[u][e.tag] \cup claimed[u][e.tag]
      BY <2>2 DEF IInv, OnlyWordsForge, Holding
    <3> QED
      BY <3>1, <3>2, <1>a
  <2> QED
    BY <2>1, <2>2, <1>3, <1>a
<1> QED
  BY <1>7, <1>8 DEF IInv

\* One iteration of difc_resume_capabilities.
LEMMA ResumeEntryInv ==
    ASSUME IInv, NEW t \in Tasks, ResumeEntry(t)
    PROVE  IInv'
<1> DEFINE word == Entry(t)
           moved == Moved(t, capSuspendList[t])
           left == AfterTake(capSuspendList[t], Key(Entry(t)), call[t].type)
           more == AppendCap(capList[t], moved)
<1>1. /\ call[t].pc = "walk" /\ EndEntry(t, capSuspendList[t])
      /\ capSuspendList' = [capSuspendList EXCEPT ![t] = left]
      /\ capList' = [capList EXCEPT ![t] = more]
      /\ Claim(t, t)
      /\ UNCHANGED <<live, label, tcb, cur_max_capability, grant>>
  BY DEF ResumeEntry, InWalk
<1>2. /\ capList \in [Tasks -> CapLists] /\ capSuspendList \in [Tasks -> CapLists]
      /\ grant \in [Tasks -> [Tags -> SUBSET Rights]]
      /\ claimed \in [Tasks -> [Tags -> SUBSET Rights]]
      /\ \A c \in Entries(capSuspendList[t]) :
           c.rights \subseteq grant[t][c.tag] \cup claimed[t][c.tag]
  BY DEF IInv, TypeOK, OnlyWordsForge, Holding
<1>3. /\ word \in Cap /\ word.tag \in Tags
      /\ moved \in Cap /\ moved.tag = word.tag
      /\ \A r \in moved.rights \ word.rights : r \in grant[t][word.tag] \cup claimed[t][word.tag]
      /\ left \in CapLists /\ Entries(left) \subseteq Entries(capSuspendList[t])
  BY <1>1, <1>2, MovedFacts
<1>a. /\ claimed' \in [Tasks -> [Tags -> SUBSET Rights]]
      /\ \A v \in Tasks, l \in Tags : claimed[v][l] \subseteq claimed'[v][l]
      /\ word.rights \subseteq claimed'[t][word.tag]
  BY <1>1, <1>2, <1>3, ClaimFacts
<1> HIDE DEF moved, left, word
<1>4. more \in CapLists /\ Entries(more) = Entries(capList[t]) \cup {moved}
  BY <1>2, <1>3, AppendCapFacts
<1> HIDE DEF more
<1>5. capList' \in [Tasks -> CapLists] /\ capSuspendList' \in [Tasks -> CapLists]
  BY <1>1, <1>2, <1>3, <1>4
<1>6. FreshUngranted'
  BY <1>1 DEF IInv, FreshUngranted
<1>7. (TypeOK /\ CallsOK /\ LocksOK /\ PendingBacked /\ FreshUngranted)'
  BY <1>1, <1>2, <1>5, <1>6, <1>a, EntryKeeps
<1>8. OnlyWordsForge'
  <2> SUFFICES ASSUME NEW u \in Tasks,
                      NEW e \in Entries(capList'[u]) \cup Entries(capSuspendList'[u])
               PROVE  e.rights \subseteq grant[u][e.tag] \cup claimed'[u][e.tag]
    BY <1>1 DEF OnlyWordsForge, Holding
  <2>1. \/ e \in Entries(capList[u]) \cup Entries(capSuspendList[u])
        \/ u = t /\ e = moved
    BY <1>1, <1>2, <1>3, <1>4
  <2>2. CASE e \in Entries(capList[u]) \cup Entries(capSuspendList[u])
    <3>1. e.tag \in Tags
      BY <2>2, <1>2, EntriesOf DEF Cap
    <3>2. e.rights \subseteq grant[u][e.tag] \cup claimed[u][e.tag]
      BY <2>2 DEF IInv, OnlyWordsForge, Holding
    <3> QED
      BY <3>1, <3>2, <1>a
  <2> QED
    BY <2>1, <2>2, <1>3, <1>a
<1> QED
  BY <1>7, <1>8 DEF IInv

\* One iteration of difc_send_capabilities, the only one that conveys rights.
LEMMA SendEntryInv ==
    ASSUME IInv, NEW t \in Tasks, SendEntry(t)
    PROVE  IInv'
<1> DEFINE d == call[t].dest
           word == Entry(t)
           tag == Entry(t).tag
           T == call[t].type
           moved == Moved(t, capList[t])
           left == AfterTake(capList[t], Key(Entry(t)), T)
           more == AppendCap(capSuspendList[d], moved)
<1>1. /\ call[t].pc = "walk" /\ EndEntry(t, capList[t])
      /\ capList' = [capList EXCEPT ![t] = left]
      /\ capSuspendList' = [capSuspendList EXCEPT ![d] = more]
      /\ grant' = [grant EXCEPT ![d][tag] = grant[d][tag] \cup (T \cap grant[t][tag])]
      /\ claimed' = [claimed EXCEPT ![d][tag] =
                       claimed[d][tag] \cup word.rights \cup (T \cap claimed[t][tag])]
      /\ UNCHANGED <<live, label, tcb, cur_max_capability>>
  BY DEF SendEntry, InWalk
<1>2. /\ capList \in [Tasks -> CapLists] /\ capSuspendList \in [Tasks -> CapLists]
      /\ grant \in [Tasks -> [Tags -> SUBSET Rights]] /\ d \in Tasks
      /\ claimed \in [Tasks -> [Tags -> SUBSET Rights]]
      /\ \A c \in Entries(capList[t]) : c.rights \subseteq grant[t][c.tag] \cup claimed[t][c.tag]
  BY DEF IInv, TypeOK, OnlyWordsForge, Holding, Call
<1>3. /\ tag \in Tags /\ T \in SUBSET Rights /\ word.rights \in SUBSET Rights
      /\ moved \in Cap /\ moved.tag = tag
      /\ \A r \in moved.rights \ word.rights : r \in T /\ r \in grant[t][tag] \cup claimed[t][tag]
      /\ left \in CapLists /\ Entries(left) \subseteq Entries(capList[t])
  BY <1>1, <1>2, MovedFacts DEF Cap
<1> HIDE DEF moved, left, d, tag, T, word
<1>4. more \in CapLists /\ Entries(more) = Entries(capSuspendList[d]) \cup {moved}
  BY <1>2, <1>3, AppendCapFacts
<1> HIDE DEF more
<1>5. capList' \in [Tasks -> CapLists] /\ capSuspendList' \in [Tasks -> CapLists]
  BY <1>1, <1>2, <1>3, <1>4
<1>6. /\ grant' \in [Tasks -> [Tags -> SUBSET Rights]]
      /\ \A u \in Tasks, l \in Tags : grant[u][l] \subseteq grant'[u][l]
      /\ T \cap grant[t][tag] \subseteq grant'[d][tag]
  BY <1>1, <1>2, <1>3
<1>a. /\ claimed' \in [Tasks -> [Tags -> SUBSET Rights]]
      /\ \A u \in Tasks, l \in Tags : claimed[u][l] \subseteq claimed'[u][l]
      /\ word.rights \cup (T \cap claimed[t][tag]) \subseteq claimed'[d][tag]
  BY <1>1, <1>2, <1>3
<1>7. FreshUngranted'
  <2> SUFFICES ASSUME NEW u \in Tasks, NEW l \in Tags, l > cur_max_capability
               PROVE  grant'[u][l] = {}
    BY <1>1 DEF FreshUngranted
  <2>1. grant[u][l] = {} /\ grant[t][l] = {}
    BY DEF IInv, FreshUngranted
  <2> QED
    BY <2>1, <1>1, <1>2, <1>3
<1>8. (TypeOK /\ CallsOK /\ LocksOK /\ PendingBacked /\ FreshUngranted)'
  BY <1>1, <1>5, <1>6, <1>7, <1>a, EntryKeeps
<1>9. OnlyWordsForge'
  <2> SUFFICES ASSUME NEW u \in Tasks,
                      NEW e \in Entries(capList'[u]) \cup Entries(capSuspendList'[u])
               PROVE  e.rights \subseteq grant'[u][e.tag] \cup claimed'[u][e.tag]
    BY DEF OnlyWordsForge, Holding
  <2>1. \/ e \in Entries(capList[u]) \cup Entries(capSuspendList[u])
        \/ u = d /\ e = moved
    BY <1>1, <1>2, <1>3, <1>4
  <2>2. CASE e \in Entries(capList[u]) \cup Entries(capSuspendList[u])
    <3>1. e.tag \in Tags
      BY <2>2, <1>2, EntriesOf DEF Cap
    <3>2. e.rights \subseteq grant[u][e.tag] \cup claimed[u][e.tag]
      BY <2>2 DEF IInv, OnlyWordsForge, Holding
    <3> QED
      BY <3>1, <3>2, <1>6, <1>a
  <2>3. CASE u = d /\ e = moved
    <3>1. ASSUME NEW r \in moved.rights
          PROVE  r \in grant'[d][tag] \cup claimed'[d][tag]
      BY <1>3, <1>6, <1>a
    <3> QED
      BY <2>3, <3>1, <1>3
  <2> QED
    BY <2>1, <2>2, <2>3
<1> QED
  BY <1>8, <1>9 DEF IInv

\* Every step, stuttering included, keeps the invariant.
LEMMA NextInv == IInv /\ [Next]_vars => IInv'
<1> SUFFICES ASSUME IInv, [Next]_vars PROVE IInv'
  OBVIOUS
<1>1. CASE UNCHANGED vars
  BY <1>1 DEF vars, IInv, TypeOK, CallsOK, LocksOK, Owns, FirstLock, LockOrder,
              OnlyWordsForge, Holding, PendingBacked, FreshUngranted
<1>2. CASE Next
  <2>1. PICK t \in Tasks : AllocStep(t) \/ LabelStep(t) \/ ProcessStep(t) \/ WalkStep(t)
    BY <1>2 DEF Next
  <2>2. CASE AllocStep(t)
    BY <2>2, AllocInv, GrantStepInv DEF AllocStep
  <2>3. CASE LabelStep(t)
    BY <2>3, LabelStepInv
  <2>4. CASE ProcessStep(t)
    BY <2>4, ForkInv, ExecInv DEF ProcessStep
  <2>5. CASE WalkStep(t)
    <3>1. ASSUME NEW buf \in UserBufs, NEW T \in Types, NEW temp \in BOOLEAN,
                 difc_drop_capabilities(t, buf, T, temp)
          PROVE  IInv'
      BY <3>1, BeginInv
    <3>2. ASSUME NEW buf \in UserBufs, NEW T \in Types,
                 difc_resume_capabilities(t, buf, T)
          PROVE  IInv'
      BY <3>2, TRUE \in BOOLEAN, BeginInv
    <3>3. ASSUME NEW dest \in Tasks, NEW buf \in UserBufs, NEW T \in Types,
                 difc_send_capabilities(t, dest, buf, T)
          PROVE  IInv'
      BY <3>3, TRUE \in BOOLEAN, BeginInv
    <3>4. CASE AcquireFirst(t) \/ AcquireSecond(t)
      BY <3>4, AcquireInv
    <3>5. CASE DropEntry(t) \/ ResumeEntry(t) \/ SendEntry(t)
      BY <3>5, DropEntryInv, ResumeEntryInv, SendEntryInv
    <3> QED
      BY <2>5, <3>1, <3>2, <3>3, <3>4, <3>5 DEF WalkStep
  <2> QED
    BY <2>1, <2>2, <2>3, <2>4, <2>5
<1> QED
  BY <1>1, <1>2

\* The inductive invariant holds in every reachable state.
LEMMA Invariance == Spec => []IInv
  BY InitInv, NextInv, PTL DEF Spec

-----------------------------------------------------------------------------
(* The theorems.                                                           *)

\* The types of the state; no capability segment ever holds more entries than
\* its array (AppendCap).
THEOREM TypeCorrect == Spec => []TypeOK
<1>1. IInv => TypeOK
  BY DEF IInv
<1> QED
  BY <1>1, Invariance, PTL

\* Whatever tasks allocate, fork, drop, resume and send, and however these calls
\* interleave or fail half-way, a task holds only rights that were conveyed to it
\* or that a word of a buffer claimed.
THEOREM OnlyWordsForgeHolds == Spec => []OnlyWordsForge
<1>1. IInv => OnlyWordsForge
  BY DEF IInv
<1> QED
  BY <1>1, Invariance, PTL

\* A call that walks a buffer walks one that a program passed in.
BufsPassed ==
    \A t \in Tasks : call[t].pc \in {"lock1", "lock2", "walk"} => call[t].buf \in UserBufs

LEMMA BufsStep ==
    ASSUME IInv, BufsPassed, [Next]_vars
    PROVE  BufsPassed'
<1>0. call \in [Tasks -> Call]
  BY DEF IInv, TypeOK
<1> DEFINE ok(c) == c.pc \in {"lock1", "lock2", "walk"} => c.buf \in UserBufs
<1>1. \A t \in Tasks : ok(call[t]) /\ ok(NoCall(t))
  BY DEF BufsPassed, NoCall, CallOf
<1>2. CASE UNCHANGED vars
  BY <1>1, <1>2 DEF vars, BufsPassed
<1>3. ASSUME NEW t \in Tasks, \A u \in Tasks : u # t => call'[u] = call[u], ok(call'[t])
      PROVE  BufsPassed'
  BY <1>1, <1>3 DEF BufsPassed
<1>4. ASSUME NEW t \in Tasks, AllocStep(t)
      PROVE  BufsPassed'
  <2>1. \A u \in Tasks : u # t => call'[u] = call[u]
    BY <1>0, <1>4 DEF AllocStep, difc_alloc_label, __difc_alloc_label
  <2>2. call'[t].pc \in {"idle", "grant"}
    <3>1. ASSUME NEW T, NEW region, difc_alloc_label(t, T, region)
          PROVE  call'[t].pc \in {"idle", "grant"}
      BY <1>0, <3>1 DEF difc_alloc_label, NoCall, CallOf
    <3>2. ASSUME NEW u, __difc_alloc_label(t, u)
          PROVE  call'[t].pc \in {"idle", "grant"}
      <4>1. call[t].pc = "grant" /\ call[t] \in Call
        BY <1>0, <3>2 DEF __difc_alloc_label
      <4>2. \/ call'[t] = NoCall(t)
            \/ call'[t] = [call[t] EXCEPT !.todo = call[t].todo \ {u}]
        BY <1>0, <3>2 DEF __difc_alloc_label
      <4>3. [call[t] EXCEPT !.todo = call[t].todo \ {u}].pc = "grant"
        BY <4>1 DEF Call
      <4>4. NoCall(t).pc = "idle"
        BY DEF NoCall, CallOf
      <4> QED
        BY <4>2, <4>3, <4>4
    <3> QED
      BY <1>4, <3>1, <3>2 DEF AllocStep
  <2> QED
    BY <2>1, <2>2, <1>3
<1>5. ASSUME NEW t \in Tasks, LabelStep(t) \/ ProcessStep(t)
      PROVE  BufsPassed'
  <2>1. call' = call
    BY <1>5 DEF LabelStep, __difc_set_label_add, __difc_set_label_remove,
                set_task_label_replace, difc_replace_label_tcb, ProcessStep,
                difc_task_alloc_security, difc_bprm_apply_creds
  <2> QED
    BY <2>1 DEF BufsPassed
<1>6. ASSUME NEW t \in Tasks, NEW buf \in UserBufs, NEW op, NEW pc, NEW T, NEW temp, NEW d,
             Begin(t, op, pc, buf, T, temp, d)
      PROVE  BufsPassed'
  <2>1. call'[t].buf = buf /\ \A u \in Tasks : u # t => call'[u] = call[u]
    BY <1>0, <1>6 DEF Begin, CallOf
  <2> QED
    BY <2>1, <1>3
<1>7. ASSUME NEW t \in Tasks, AcquireFirst(t) \/ AcquireSecond(t)
      PROVE  BufsPassed'
  <2>1. PICK pc : call' = [call EXCEPT ![t].pc = pc]
    BY <1>7 DEF AcquireFirst, AcquireSecond
  <2>2. /\ call'[t].buf = call[t].buf /\ call[t].pc \in {"lock1", "lock2"}
        /\ \A u \in Tasks : u # t => call'[u] = call[u]
    BY <1>0, <1>7, <2>1 DEF Call, AcquireFirst, AcquireSecond
  <2> QED
    BY <1>1, <1>3, <2>2
<1>8. ASSUME NEW t \in Tasks, DropEntry(t) \/ ResumeEntry(t) \/ SendEntry(t)
      PROVE  BufsPassed'
  <2>1. call[t].pc = "walk"
    BY <1>8 DEF DropEntry, ResumeEntry, SendEntry, InWalk
  <2>2. PICK source : EndEntry(t, source)
    BY <1>8 DEF DropEntry, ResumeEntry, SendEntry
  <2> DEFINE next == [call[t] EXCEPT !.i = call[t].i + 1, !.rv = ResultOf(t, source)]
  <2>3. call' = [call EXCEPT ![t] = next] \/ call' = [call EXCEPT ![t] = NoCall(t)]
    BY <2>2 DEF EndEntry
  <2>4. next.buf = call[t].buf
    BY <1>0 DEF Call
  <2> HIDE DEF next
  <2>5. /\ \A u \in Tasks : u # t => call'[u] = call[u]
        /\ call'[t].buf = call[t].buf \/ call'[t] = NoCall(t)
    BY <1>0, <2>3, <2>4
  <2> QED
    BY <1>1, <1>3, <2>1, <2>5
<1>9. ASSUME NEW t \in Tasks, WalkStep(t)
      PROVE  BufsPassed'
  BY <1>6, <1>7, <1>8, <1>9 DEF WalkStep, difc_drop_capabilities,
       difc_resume_capabilities, difc_send_capabilities
<1> QED
  BY <1>2, <1>4, <1>5, <1>9 DEF Next

\* Nothing has been claimed.
BareInv == IInv /\ BufsPassed /\ \A t \in Tasks, l \in Tags : claimed[t][l] = {}

\* A step of programs that pass label numbers only, as sys.C does.
LEMMA BareStep ==
    ASSUME \A buf \in UserBufs : \A i \in 1..Len(buf) : buf[i].rights = {},
           BareInv, [Next]_vars
    PROVE  BareInv'
<1>1. IInv /\ IInv' /\ BufsPassed'
  BY NextInv, BufsStep DEF BareInv
<1>2. claimed \in [Tasks -> [Tags -> SUBSET Rights]]
  BY <1>1 DEF IInv, TypeOK
<1>3. \A t \in Tasks, l \in Tags : claimed[t][l] = {}
  BY DEF BareInv
<1>4. SUFFICES \A u \in Tasks, l \in Tags : claimed'[u][l] = {}
  BY <1>1 DEF BareInv
<1>5. CASE claimed' = claimed
  BY <1>3, <1>5
<1>6. ASSUME NEW p \in Tasks, NEW c \in Tasks, difc_task_alloc_security(p, c)
      PROVE  \A u \in Tasks, l \in Tags : claimed'[u][l] = {}
  BY <1>2, <1>3, <1>6 DEF difc_task_alloc_security
<1>7. ASSUME NEW t \in Tasks, DropEntry(t) \/ ResumeEntry(t) \/ SendEntry(t)
      PROVE  \A u \in Tasks, l \in Tags : claimed'[u][l] = {}
  <2>1. call[t].pc = "walk"
    BY <1>7 DEF DropEntry, ResumeEntry, SendEntry, InWalk
  <2>2. /\ call[t].i \in 1..Len(call[t].buf) /\ call[t].buf \in Seq(Cap)
        /\ call[t].dest \in Tasks /\ call[t].buf \in UserBufs
    BY <1>1, <2>1 DEF IInv, TypeOK, CallsOK, Call, BareInv, BufsPassed
  <2>3. Entry(t) \in Cap /\ Entry(t).rights = {}
    BY <2>2 DEF Entry
  <2>4. Entry(t).tag \in Tags
    BY <2>3 DEF Cap
  <2>5. CASE Claim(t, t)
    BY <2>5, <1>2, <1>3, <2>3, <2>4 DEF Claim
  <2>6. CASE SendEntry(t)
    <3> DEFINE d == call[t].dest
               tag == Entry(t).tag
    <3>1. claimed' = [claimed EXCEPT ![d][tag] =
                        claimed[d][tag] \cup Entry(t).rights
                          \cup (call[t].type \cap claimed[t][tag])]
      BY <2>6 DEF SendEntry
    <3>2. claimed[d][tag] = {} /\ claimed[t][tag] = {}
      BY <1>3, <2>2, <2>4
    <3> HIDE DEF d, tag
    <3>3. claimed' = [claimed EXCEPT ![d][tag] = {}]
      BY <3>1, <3>2, <2>3
    <3> QED
      BY <3>3, <1>2, <1>3
  <2> QED
    BY <1>5, <1>7, <2>5, <2>6 DEF DropEntry, ResumeEntry
<1>8. ASSUME NEW t \in Tasks, AllocStep(t) \/ LabelStep(t) \/ ProcessStep(t) \/ WalkStep(t)
      PROVE  \A u \in Tasks, l \in Tags : claimed'[u][l] = {}
  <2>1. CASE AllocStep(t)
    BY <1>5, <2>1 DEF AllocStep, difc_alloc_label, __difc_alloc_label
  <2>2. CASE LabelStep(t)
    BY <1>5, <2>2 DEF LabelStep, __difc_set_label_add, __difc_set_label_remove,
                      set_task_label_replace, difc_replace_label_tcb
  <2>3. CASE ProcessStep(t)
    BY <1>5, <1>6, <2>3 DEF ProcessStep, difc_bprm_apply_creds
  <2>4. CASE WalkStep(t)
    BY <1>5, <1>7, <2>4 DEF WalkStep, difc_drop_capabilities, difc_resume_capabilities,
         difc_send_capabilities, AcquireFirst, AcquireSecond
  <2> QED
    BY <1>8, <2>1, <2>2, <2>3, <2>4
<1> QED
  BY <1>5, <1>8 DEF Next, vars

\* As long as programs pass label numbers only (as sys.C does), no right is forged
\* at all: allocation, fork and send are the only origins of what a task holds.
THEOREM BareWordsForgeNothing ==
    ASSUME \A buf \in UserBufs : \A i \in 1..Len(buf) : buf[i].rights = {}
    PROVE  Spec => []NoForgery
<1>1. Init => BareInv
  <2> SUFFICES ASSUME Init PROVE BareInv
    OBVIOUS
  <2>1. IInv
    BY InitInv
  <2> QED
    BY <2>1 DEF Init, BareInv, BufsPassed, NoCall, CallOf
<1>2. BareInv /\ [Next]_vars => BareInv'
  BY BareStep
<1>3. BareInv => NoForgery
  <2> SUFFICES ASSUME BareInv, NEW t \in Tasks, NEW c \in Holding(t)
               PROVE  c.rights \subseteq grant[t][c.tag]
    BY DEF NoForgery
  <2>1. c.tag \in Tags
    BY EntriesOf DEF BareInv, IInv, TypeOK, Holding, Cap
  <2>2. c.rights \subseteq grant[t][c.tag] \cup claimed[t][c.tag]
    BY DEF BareInv, IInv, OnlyWordsForge
  <2> QED
    BY <2>1, <2>2 DEF BareInv
<1> QED
  BY <1>1, <1>2, <1>3, PTL DEF Spec

\* A call that edits capability lists owns the cap_lock of each of them.
THEOREM WalkHoldsLocksHolds == Spec => []WalkHoldsLocks
<1>1. IInv => WalkHoldsLocks
  BY DEF IInv, LocksOK, Owns, WalkHoldsLocks, TypeOK, Call
<1> QED
  BY <1>1, Invariance, PTL

\* A lookup finds only rights that were conveyed or claimed.
LEMMA LookupBacked ==
    ASSUME IInv, NEW t \in Tasks, NEW l
    PROVE  /\ MayAdd(t, l) => "plus" \in grant[t][l] \cup claimed[t][l]
           /\ MayRemove(t, l) => "minus" \in grant[t][l] \cup claimed[t][l]
<1>1. capList[t] \in CapLists
  BY DEF IInv, TypeOK
<1>2. ASSUME NEW r \in task_find_capability(capList[t], l)
      PROVE  r \in grant[t][l] \cup claimed[t][l]
  <2>1. PICK c \in Entries(capList[t]) : c.tag = l /\ r \in c.rights
    BY <1>1, FindFacts
  <2> QED
    BY <2>1 DEF IInv, OnlyWordsForge, Holding
<1> QED
  BY <1>2 DEF MayAdd, MayRemove

\* The change of one task's label that LabelChangesBacked allows.
Backed(t, ty) ==
    LET was == Elems(label[t][ty])
        now == Elems(label'[t][ty])
    IN  \/ tcb[t]
        \/ /\ \A l \in now \ was :
                \/ "plus" \in grant[t][l] \cup claimed[t][l]
                \/ t \in Root /\ LABEL_TCB \in Elems(label'[t].int)
           /\ \A l \in was \ now : "minus" \in grant[t][l] \cup claimed[t][l]

\* The four ways to change a label (add, remove, replace, the trusted replace)
\* stay within the rights conveyed to the task or claimed by it.
LEMMA LabelStepBacked ==
    ASSUME IInv, NEW t \in Tasks, LabelStep(t), NEW ty \in LabelTypes
    PROVE  Backed(t, ty)
<1>0. label \in [Tasks -> Labels] /\ label[t] \in Labels
  BY DEF IInv, TypeOK
<1>1. ASSUME NEW tag \in Tags, NEW y \in LabelTypes, __difc_set_label_add(t, tag, y)
      PROVE  Backed(t, ty)
  <2>1. /\ MayAdd(t, tag)
        /\ label' = [label EXCEPT ![t][y] = Append(label[t][y], tag)]
    BY <1>1 DEF __difc_set_label_add
  <2>2. label[t][y] \in Seq(Tags)
    BY <1>0 DEF Labels, LabelTypes
  <2>3. CASE ty = y
    <3>1. label'[t][ty] = Append(label[t][ty], tag)
      BY <2>1, <2>3, <1>0 DEF Labels, LabelTypes
    <3>2. Elems(label'[t][ty]) = Elems(label[t][ty]) \cup {tag}
      <4> DEFINE s == label[t][ty]
      <4>1. /\ s \in Seq(Tags) /\ Len(s) \in Nat /\ DOMAIN s = 1..Len(s)
            /\ DOMAIN Append(s, tag) = 1..(Len(s) + 1)
            /\ \A i \in 1..Len(s) : Append(s, tag)[i] = s[i]
            /\ Append(s, tag)[Len(s) + 1] = tag
        BY <2>2, <2>3
      <4> HIDE DEF s
      <4>2. Elems(Append(s, tag)) \subseteq Elems(s) \cup {tag}
        BY <4>1 DEF Elems
      <4>3. Elems(s) \cup {tag} \subseteq Elems(Append(s, tag))
        BY <4>1 DEF Elems
      <4> QED
        BY <3>1, <4>2, <4>3 DEF s
    <3>3. "plus" \in grant[t][tag] \cup claimed[t][tag]
      BY <2>1, LookupBacked
    <3> QED
      BY <3>2, <3>3 DEF Backed
  <2>4. CASE ty # y
    <3>1. label'[t][ty] = label[t][ty]
      BY <2>1, <2>4, <1>0 DEF Labels, LabelTypes
    <3> QED
      BY <3>1 DEF Backed
  <2> QED
    BY <2>3, <2>4
<1>2. ASSUME NEW tag \in Tags, NEW y \in LabelTypes, __difc_set_label_remove(t, tag, y)
      PROVE  Backed(t, ty)
  <2> DEFINE s == label[t][y]
             where == {i \in DOMAIN s : s[i] = tag}
             k == First(where)
  <2>1. /\ MayRemove(t, tag) /\ tag \in Elems(s)
        /\ label' = [label EXCEPT ![t][y] = ShiftDown(s, k)]
    BY <1>2 DEF __difc_set_label_remove
  <2>2. s \in Seq(Tags)
    BY <1>0 DEF Labels, LabelTypes
  <2>3. CASE ty = y
    <3>1. label'[t][ty] = ShiftDown(s, k) /\ label[t][ty] = s
      BY <2>1, <2>3, <1>0 DEF Labels, LabelTypes
    <3>2. k \in where
      <4>1. where # {} /\ where \subseteq Nat
        BY <2>1, <2>2 DEF Elems
      <4> QED
        BY <4>1, FirstMember
    <3>3. k \in 1..Len(s) /\ s[k] = tag
      BY <2>2, <3>2
    <3> HIDE DEF s, k
    <3>4. /\ Elems(ShiftDown(s, k)) \subseteq Elems(s)
          /\ Elems(s) \ {tag} \subseteq Elems(ShiftDown(s, k))
      BY <2>2, <3>3, ShiftDownFacts
    <3>5. "minus" \in grant[t][tag] \cup claimed[t][tag]
      BY <2>1, LookupBacked
    <3> QED
      BY <3>1, <3>4, <3>5 DEF Backed
  <2>4. CASE ty # y
    <3>1. label'[t][ty] = label[t][ty]
      BY <2>1, <2>4, <1>0 DEF Labels, LabelTypes
    <3> QED
      BY <3>1 DEF Backed
  <2> QED
    BY <2>3, <2>4
<1>3. ASSUME NEW new \in UserLabels, set_task_label_replace(t, new)
      PROVE  Backed(t, ty)
  <2>1. label'[t] = new /\ check_label_replace(t, label[t], new)
    BY <1>0, <1>3 DEF set_task_label_replace
  <2>2. new.int \in Seq(Tags)
    BY ConstantsAssumption DEF Labels
  <2>3. CASE ty = "sec"
    BY <2>1, <2>3, LookupBacked DEF check_label_replace, Backed
  <2>4. CASE ty = "int"
    <3>1. ASSUME NEW l \in Elems(new.int) \ Elems(label[t].int)
          PROVE  \/ "plus" \in grant[t][l] \cup claimed[t][l]
                 \/ t \in Root /\ LABEL_TCB \in Elems(new.int)
      <4>1. CASE l \in CheckedInts(new.int)
        BY <4>1, <2>1, LookupBacked DEF check_label_replace
      <4>2. CASE l \notin CheckedInts(new.int)
        <5>1. PICK j \in DOMAIN new.int : new.int[j] = l
          BY DEF Elems
        <5>2. PICK k \in 1..j : new.int[k] = LABEL_TCB
          BY <4>2, <5>1 DEF CheckedInts
        <5>3. k \in DOMAIN new.int
          BY <2>2, <5>2
        <5>4. LABEL_TCB \in Elems(new.int)
          BY <5>2, <5>3 DEF Elems
        <5> QED
          BY <5>4, <2>1 DEF check_label_replace
      <4> QED
        BY <4>1, <4>2
    <3>2. ASSUME NEW l \in Elems(label[t].int) \ Elems(new.int)
          PROVE  "minus" \in grant[t][l] \cup claimed[t][l]
      BY <2>1, LookupBacked DEF check_label_replace
    <3> QED
      BY <2>1, <2>4, <3>1, <3>2 DEF Backed
  <2> QED
    BY <2>3, <2>4 DEF LabelTypes
<1>4. ASSUME NEW new \in UserLabels, difc_replace_label_tcb(t, new)
      PROVE  Backed(t, ty)
  BY <1>4 DEF difc_replace_label_tcb, Backed
<1> QED
  BY <1>1, <1>2, <1>3, <1>4, ConstantsAssumption DEF LabelStep

\* Outside the trusted base a task's label gains a tag only by a conveyed
\* or claimed + right and loses one only by such a - right (add_label, remove_label,
\* check_label_replace); a root task may also install the TCB integrity label.
THEOREM LabelChangesBackedHolds == Spec => LabelChangesBacked
<1>1. ASSUME IInv, [Next]_vars
      PROVE  [\A t \in live, ty \in LabelTypes : Backed(t, ty)]_vars
  <2>1. CASE UNCHANGED vars
    BY <2>1
  <2>2. CASE Next
    <3>1. PICK t \in Tasks : AllocStep(t) \/ LabelStep(t) \/ ProcessStep(t) \/ WalkStep(t)
      BY <2>2 DEF Next
    <3>2. ASSUME NEW u \in live, NEW ty \in LabelTypes, label'[u] = label[u]
          PROVE  Backed(u, ty)
      BY <3>2 DEF Backed
    <3>3. label \in [Tasks -> Labels] /\ live \subseteq Tasks
      BY <1>1 DEF IInv, TypeOK
    <3>4. CASE AllocStep(t) \/ WalkStep(t)
      <4>1. label' = label
        BY <3>4 DEF AllocStep, WalkStep, difc_alloc_label, __difc_alloc_label,
             difc_drop_capabilities, difc_resume_capabilities, difc_send_capabilities,
             AcquireFirst, AcquireSecond, DropEntry, ResumeEntry, SendEntry
      <4> QED
        BY <4>1, <3>2
    <3>5. CASE LabelStep(t)
      <4>1. \A u \in Tasks : u # t => label'[u] = label[u]
        BY <3>3, <3>5 DEF LabelStep, __difc_set_label_add, __difc_set_label_remove,
             set_task_label_replace, difc_replace_label_tcb
      <4> QED
        BY <1>1, <3>2, <3>3, <3>5, <4>1, LabelStepBacked
    <3>6. CASE ProcessStep(t)
      <4>1. \A u \in live : label'[u] = label[u]
        BY <3>3, <3>6 DEF ProcessStep, difc_task_alloc_security, difc_bprm_apply_creds
      <4> QED
        BY <3>2, <4>1
    <3> QED
      BY <3>1, <3>4, <3>5, <3>6
  <2> QED
    BY <1>1, <2>1, <2>2
<1>2. Spec => [][\A t \in live, ty \in LabelTypes : Backed(t, ty)]_vars
  BY <1>1, Invariance, PTL DEF Spec
<1> QED
  BY <1>2 DEF LabelChangesBacked, Backed

\* The lock a spinning task waits for.
Wanted(t) == IF call[t].pc = "lock1" THEN FirstLock(t) ELSE SecondLock(t)

\* Without sends of a task to itself, taking the two cap_locks of a send in
\* ascending address keeps every set of tasks from spinning on each other: the
\* owner of a lock that a member waits for waits for a lock at a higher address.
THEOREM NoSpinDeadlockHolds == Spec => [](~SelfSend => NoSpinDeadlock)
<1>1. IInv => (~SelfSend => NoSpinDeadlock)
  <2> SUFFICES ASSUME IInv, ~SelfSend PROVE NoSpinDeadlock
    OBVIOUS
  <2> SUFFICES ASSUME NEW S \in (SUBSET Tasks) \ {{}},
                      \A t \in S : \E u \in S : WaitsFor(t, u)
               PROVE  FALSE
    BY DEF NoSpinDeadlock
  <2>1. ASSUME NEW t \in S
        PROVE  Wanted(t) \in Tasks /\ call[t].pc \in {"lock1", "lock2"}
    <3>1. t \in Tasks /\ call[t].dest \in Tasks
      BY DEF IInv, TypeOK, Call
    <3>2. Wanted(t) \in Tasks
      BY <3>1 DEF Wanted, FirstLock, SecondLock, LockOrder
    <3> QED
      BY <3>2 DEF WaitsFor
  <2>2. ASSUME NEW t \in S
        PROVE  \E u \in S : Addr[Wanted(u)] > Addr[Wanted(t)]
    <3>1. PICK u \in S : WaitsFor(t, u)
      OBVIOUS
    <3>2. cap_lock[Wanted(t)] = u
      BY <3>1 DEF WaitsFor, Wanted
    <3>3. Owns(u, Wanted(t))
      BY <3>2, <2>1 DEF IInv, LocksOK
    <3>4. call[u].pc = "lock2" /\ Wanted(t) = FirstLock(u)
      BY <3>3, <2>1 DEF Owns
    <3>5. Wanted(u) = SecondLock(u)
      BY <3>4 DEF Wanted
    <3>6. u \in Tasks /\ call[u].dest \in Tasks /\ call[u].dest # u
      BY <3>4 DEF IInv, CallsOK, TypeOK, Call
    <3>7. Addr[u] \in 0..AddrTop /\ Addr[call[u].dest] \in 0..AddrTop
          /\ Addr[u] # Addr[call[u].dest] /\ AddrTop \in Nat
      BY <3>6, ConstantsAssumption, Zenon
    <3>8. Addr[SecondLock(u)] > Addr[FirstLock(u)]
      BY <3>7 DEF FirstLock, SecondLock, LockOrder
    <3> QED
      BY <3>4, <3>5, <3>8
  <2> DEFINE A == {AddrTop - Addr[Wanted(t)] : t \in S}
  <2>a. ASSUME NEW t \in S PROVE AddrTop - Addr[Wanted(t)] \in Nat
    <3>1. AddrTop \in Nat /\ Addr[Wanted(t)] \in 0..AddrTop
      BY <2>1, ConstantsAssumption
    <3> QED
      BY <3>1
  <2>3. A \subseteq Nat /\ A # {}
    BY <2>a
  <2>4. PICK t \in S : First(A) = AddrTop - Addr[Wanted(t)]
    BY <2>3, FirstMember
  <2>5. PICK u \in S : Addr[Wanted(u)] > Addr[Wanted(t)]
    BY <2>2
  <2>6. First(A) <= AddrTop - Addr[Wanted(u)]
    <3>1. AddrTop - Addr[Wanted(u)] \in A
      OBVIOUS
    <3> HIDE DEF A
    <3> QED
      BY <3>1, <2>3, FirstMember
  <2>7. Addr[Wanted(u)] \in Nat /\ Addr[Wanted(t)] \in Nat /\ AddrTop \in Nat
    BY <2>1, ConstantsAssumption
  <2> QED
    BY <2>4, <2>5, <2>6, <2>7
<1> QED
  BY <1>1, Invariance, PTL

-----------------------------------------------------------------------------
(* No right is lost.                                                       *)

\* A task that does not exist yet holds nothing: a fork overwrites no list that
\* carries a right.
UnbornEmpty ==
    \A t \in Tasks \ live : Entries(capList[t]) = {} /\ Entries(capSuspendList[t]) = {}

HInv == IInv /\ UnbornEmpty

\* A list carries the right r to the label l.
Carries(list, l, r) == \E c \in Entries(list) : c.tag = l /\ r \in c.rights

LEMMA HeldOnAList ==
    ASSUME NEW l, NEW r
    PROVE  HeldSomewhere(l, r) <=>
             \E t \in Tasks : Carries(capList[t], l, r) \/ Carries(capSuspendList[t], l, r)
  BY DEF HeldSomewhere, Holding, Carries

LEMMA AppendCarries ==
    ASSUME NEW list \in CapLists, NEW cap \in Cap, NEW l, NEW r,
           \/ Carries(list, l, r)
           \/ cap.tag = l /\ r \in cap.rights
    PROVE  Carries(AppendCap(list, cap), l, r)
  BY AppendCapFacts DEF Carries

\* A right that is on a list is one to a label.
LEMMA CarriesTag ==
    ASSUME NEW list \in CapLists, NEW l, NEW r, Carries(list, l, r)
    PROVE  l \in Tags
  BY EntriesOf DEF Carries, Cap

\* A walk takes a right off a list only together with all it moves.
LEMMA TakeCarries ==
    ASSUME NEW list \in CapLists, NEW tag, NEW T \in SUBSET Rights, NEW l, NEW r,
           Carries(list, l, r), ~Carries(AfterTake(list, tag, T), l, r)
    PROVE  l = tag /\ r \in Taken(list, tag, T) /\ r \in T
<1>1. PICK c \in Entries(list) : c.tag = l /\ r \in c.rights
  BY DEF Carries
<1>2. c \notin Entries(AfterTake(list, tag, T))
  BY <1>1 DEF Carries
<1>3. c.tag = tag /\ c.rights = Taken(list, tag, T)
  BY <1>2, AfterTakeFacts
<1> QED
  BY <1>1, <1>3, TakenFacts

LEMMA UnbornStep == HInv /\ [Next]_vars => HInv'
<1> SUFFICES ASSUME HInv, [Next]_vars PROVE HInv'
  OBVIOUS
<1>1. IInv /\ IInv'
  BY NextInv DEF HInv
<1>2. /\ capList \in [Tasks -> CapLists] /\ capSuspendList \in [Tasks -> CapLists]
      /\ \A t \in Tasks : call[t].pc # "idle" => t \in live /\ call[t].dest \in live
      /\ \A t \in Tasks : call[t].pc = "grant" => call[t].todo \subseteq live
  BY <1>1 DEF IInv, TypeOK, CallsOK
<1>3. \A u \in Tasks \ live' :
        u \notin live /\ capList'[u] = capList[u] /\ capSuspendList'[u] = capSuspendList[u]
  <2>1. CASE UNCHANGED vars
    BY <2>1 DEF vars
  <2>2. ASSUME NEW t \in Tasks, AllocStep(t) \/ LabelStep(t) \/ ProcessStep(t) \/ WalkStep(t)
        PROVE  \A u \in Tasks \ live' :
                 u \notin live /\ capList'[u] = capList[u] /\ capSuspendList'[u] = capSuspendList[u]
    <3>1. CASE AllocStep(t)
      BY <1>2, <3>1 DEF AllocStep, difc_alloc_label, __difc_alloc_label
    <3>2. CASE LabelStep(t)
      BY <3>2 DEF LabelStep, __difc_set_label_add, __difc_set_label_remove,
                  set_task_label_replace, difc_replace_label_tcb
    <3>3. CASE ProcessStep(t)
      BY <1>2, <3>3 DEF ProcessStep, difc_task_alloc_security, difc_bprm_apply_creds
    <3>4. CASE WalkStep(t)
      <4>1. CASE DropEntry(t) \/ ResumeEntry(t) \/ SendEntry(t)
        BY <1>2, <4>1 DEF DropEntry, ResumeEntry, SendEntry, InWalk
      <4>2. CASE UNCHANGED <<live, capList, capSuspendList>>
        BY <4>2
      <4> QED
        BY <3>4, <4>1, <4>2 DEF WalkStep, difc_drop_capabilities, difc_resume_capabilities,
             difc_send_capabilities, AcquireFirst, AcquireSecond
    <3> QED
      BY <2>2, <3>1, <3>2, <3>3, <3>4
  <2> QED
    BY <2>1, <2>2 DEF Next
<1>4. UnbornEmpty'
  BY <1>3 DEF HInv, UnbornEmpty
<1> QED
  BY <1>1, <1>4 DEF HInv

LEMMA UnbornInvariance == Spec => []HInv
<1>1. Init => HInv
  <2> SUFFICES ASSUME Init PROVE UnbornEmpty
    BY InitInv DEF HInv
  <2>1. Entries(<<>>) = {}
    BY DEF Entries
  <2> QED
    BY <2>1 DEF Init, UnbornEmpty
<1> QED
  BY <1>1, UnbornStep, PTL DEF Spec

\* One permanent drop names the label and the right.
Dropped(l, r) ==
    \E t \in Tasks : /\ InWalk(t, "drop")
                     /\ ~call[t].temp
                     /\ Key(Entry(t)) = l
                     /\ r \in call[t].type

\* A step that moves capabilities keeps a right on some list.
LEMMA MoveKeepsRight ==
    ASSUME IInv, NEW t \in Tasks, NEW l, NEW r, HeldSomewhere(l, r), ~Dropped(l, r),
           DropEntry(t) \/ ResumeEntry(t) \/ SendEntry(t)
    PROVE  HeldSomewhere(l, r)'
<1>1. /\ capList \in [Tasks -> CapLists] /\ capSuspendList \in [Tasks -> CapLists]
      /\ call[t].pc = "walk" /\ call[t].dest \in Tasks /\ call[t].type \in SUBSET Rights
  BY DEF IInv, TypeOK, Call, DropEntry, ResumeEntry, SendEntry, InWalk
<1>2. ASSUME NEW u \in Tasks, NEW source \in {capList[u], capSuspendList[u]}
      PROVE  \A c \in Entries(source) : c.rights \subseteq grant[u][c.tag] \cup claimed[u][c.tag]
  BY DEF IInv, OnlyWordsForge, Holding
<1>3. PICK u \in Tasks : Carries(capList[u], l, r) \/ Carries(capSuspendList[u], l, r)
  BY HeldOnAList
<1>4. SUFFICES \E v \in Tasks : Carries(capList'[v], l, r) \/ Carries(capSuspendList'[v], l, r)
  BY DEF HeldSomewhere, Holding, Carries
<1> DEFINE T == call[t].type
           tag == Key(Entry(t))
<1>5. CASE DropEntry(t)
  <2> DEFINE moved == Moved(t, capList[t])
             left == AfterTake(capList[t], tag, T)
  <2>1. /\ capList' = [capList EXCEPT ![t] = left] /\ InWalk(t, "drop")
        /\ capSuspendList' = [capSuspendList EXCEPT ![t] =
              IF call[t].temp THEN AppendCap(capSuspendList[t], moved) ELSE capSuspendList[t]]
    BY <1>1, <1>5 DEF DropEntry
  <2>2. /\ moved \in Cap
        /\ tag \in Tags => moved.tag = tag
        /\ Taken(capList[t], tag, T) \subseteq moved.rights
    BY <1>1, <1>2, MovedFacts, KeyFacts DEF Moved
  <2>3. \A v \in Tasks : Carries(capSuspendList[v], l, r) => Carries(capSuspendList'[v], l, r)
    BY <1>1, <2>1, <2>2, AppendCarries
  <2>4. \A v \in Tasks \ {t} : capList'[v] = capList[v]
    BY <1>1, <2>1
  <2>5. CASE Carries(capList[t], l, r) /\ ~Carries(left, l, r)
    <3>1. l = tag /\ l = moved.tag /\ r \in moved.rights /\ r \in T
      BY <1>1, <2>2, <2>5, TakeCarries, CarriesTag
    <3>2. call[t].temp
      BY <2>1, <3>1 DEF Dropped
    <3>3. Carries(AppendCap(capSuspendList[t], moved), l, r)
      BY <1>1, <2>2, <3>1, AppendCarries
    <3> QED
      BY <1>1, <2>1, <3>2, <3>3
  <2>6. CASE Carries(left, l, r)
    BY <1>1, <2>1, <2>6
  <2> QED
    BY <1>3, <2>3, <2>4, <2>5, <2>6
<1>6. CASE ResumeEntry(t)
  <2> DEFINE moved == Moved(t, capSuspendList[t])
             left == AfterTake(capSuspendList[t], tag, T)
  <2>1. /\ capSuspendList' = [capSuspendList EXCEPT ![t] = left]
        /\ capList' = [capList EXCEPT ![t] = AppendCap(capList[t], moved)]
    BY <1>6 DEF ResumeEntry
  <2>2. /\ moved \in Cap
        /\ tag \in Tags => moved.tag = tag
        /\ Taken(capSuspendList[t], tag, T) \subseteq moved.rights
    BY <1>1, <1>2, MovedFacts, KeyFacts DEF Moved
  <2>3. \A v \in Tasks : Carries(capList[v], l, r) => Carries(capList'[v], l, r)
    BY <1>1, <2>1, <2>2, AppendCarries
  <2>4. \A v \in Tasks \ {t} : capSuspendList'[v] = capSuspendList[v]
    BY <1>1, <2>1
  <2>5. CASE Carries(capSuspendList[t], l, r) /\ ~Carries(left, l, r)
    <3>1. l = tag /\ l = moved.tag /\ r \in moved.rights
      BY <1>1, <2>2, <2>5, TakeCarries, CarriesTag
    <3>2. Carries(AppendCap(capList[t], moved), l, r)
      BY <1>1, <2>2, <3>1, AppendCarries
    <3> QED
      BY <1>1, <2>1, <3>2
  <2>6. CASE Carries(left, l, r)
    BY <1>1, <2>1, <2>6
  <2> QED
    BY <1>3, <2>3, <2>4, <2>5, <2>6
<1>7. CASE SendEntry(t)
  <2> DEFINE moved == Moved(t, capList[t])
             left == AfterTake(capList[t], tag, T)
             d == call[t].dest
  <2>1. /\ capList' = [capList EXCEPT ![t] = left]
        /\ capSuspendList' = [capSuspendList EXCEPT ![d] = AppendCap(capSuspendList[d], moved)]
    BY <1>7 DEF SendEntry
  <2>2. /\ moved \in Cap
        /\ tag \in Tags => moved.tag = tag
        /\ Taken(capList[t], tag, T) \subseteq moved.rights
    BY <1>1, <1>2, MovedFacts, KeyFacts DEF Moved
  <2>3. \A v \in Tasks : Carries(capSuspendList[v], l, r) => Carries(capSuspendList'[v], l, r)
    BY <1>1, <2>1, <2>2, AppendCarries
  <2>4. \A v \in Tasks \ {t} : capList'[v] = capList[v]
    BY <1>1, <2>1
  <2>5. CASE Carries(capList[t], l, r) /\ ~Carries(left, l, r)
    <3>1. l = tag /\ l = moved.tag /\ r \in moved.rights
      BY <1>1, <2>2, <2>5, TakeCarries, CarriesTag
    <3>2. Carries(AppendCap(capSuspendList[d], moved), l, r)
      BY <1>1, <2>2, <3>1, AppendCarries
    <3> QED
      BY <1>1, <2>1, <3>2
  <2>6. CASE Carries(left, l, r)
    BY <1>1, <2>1, <2>6
  <2> QED
    BY <1>3, <2>3, <2>4, <2>5, <2>6
<1> QED
  BY <1>5, <1>6, <1>7

\* So does every other step.
LEMMA StepKeepsRight ==
    ASSUME HInv, [Next]_vars, NEW l, NEW r, HeldSomewhere(l, r), ~Dropped(l, r)
    PROVE  HeldSomewhere(l, r)'
<1>1. /\ capList \in [Tasks -> CapLists] /\ capSuspendList \in [Tasks -> CapLists] /\ IInv
  BY DEF HInv, IInv, TypeOK
<1>2. PICK u \in Tasks : Carries(capList[u], l, r) \/ Carries(capSuspendList[u], l, r)
  BY HeldOnAList
<1>3. ASSUME \/ Carries(capList'[u], l, r)
             \/ Carries(capSuspendList'[u], l, r)
      PROVE  HeldSomewhere(l, r)'
  BY <1>3 DEF HeldSomewhere, Holding, Carries
<1>4. ASSUME UNCHANGED <<capList, capSuspendList>> PROVE HeldSomewhere(l, r)'
  BY <1>2, <1>3, <1>4
<1>5. ASSUME NEW t \in Tasks, NEW w \in Tasks, __difc_alloc_label(t, w)
      PROVE  HeldSomewhere(l, r)'
  <2> DEFINE cap == call[t].buf[1]
  <2>1. /\ capList' = [capList EXCEPT ![w] = AppendCap(capList[w], cap)]
        /\ capSuspendList' = capSuspendList /\ call[t].pc = "grant"
    BY <1>5 DEF __difc_alloc_label
  <2>2. Len(call[t].buf) = 1 /\ call[t].buf \in Seq(Cap)
    BY <1>1, <2>1 DEF IInv, TypeOK, CallsOK, Call
  <2>3. cap \in Cap
    BY <2>2
  <2> HIDE DEF cap
  <2>4. Carries(capList[u], l, r) => Carries(capList'[u], l, r)
    BY <1>1, <2>1, <2>3, AppendCarries
  <2> QED
    BY <1>2, <1>3, <2>1, <2>4
<1>6. ASSUME NEW t \in Tasks, NEW c \in Tasks, difc_task_alloc_security(t, c)
      PROVE  HeldSomewhere(l, r)'
  <2>1. u # c
    BY <1>2, <1>6 DEF HInv, UnbornEmpty, Carries, difc_task_alloc_security
  <2>2. capList'[u] = capList[u] /\ capSuspendList'[u] = capSuspendList[u]
    BY <1>1, <1>6, <2>1 DEF difc_task_alloc_security
  <2> QED
    BY <1>2, <1>3, <2>2
<1>7. ASSUME NEW t \in Tasks, AllocStep(t) \/ LabelStep(t) \/ ProcessStep(t) \/ WalkStep(t)
      PROVE  HeldSomewhere(l, r)'
  <2>1. CASE AllocStep(t)
    BY <1>4, <1>5, <2>1 DEF AllocStep, difc_alloc_label
  <2>2. CASE LabelStep(t)
    BY <1>4, <2>2 DEF LabelStep, __difc_set_label_add, __difc_set_label_remove,
                      set_task_label_replace, difc_replace_label_tcb
  <2>3. CASE ProcessStep(t)
    BY <1>4, <1>6, <2>3 DEF ProcessStep, difc_bprm_apply_creds
  <2>4. CASE WalkStep(t)
    BY <1>1, <1>4, <2>4, MoveKeepsRight DEF WalkStep, difc_drop_capabilities,
         difc_resume_capabilities, difc_send_capabilities, AcquireFirst, AcquireSecond
  <2> QED
    BY <1>7, <2>1, <2>2, <2>3, <2>4
<1> QED
  BY <1>4, <1>7 DEF Next, vars

\* drop, resume and send move entries between lists in a walk that removes an
\* entry only whole: the last copy of a right goes only in a permanent drop that
\* names the label and the right.
THEOREM NoRightLostHolds == Spec => NoRightLost
<1>1. ASSUME HInv, [Next]_vars
      PROVE  [\A l \in Tags, r \in Rights :
                HeldSomewhere(l, r) /\ ~HeldSomewhere(l, r)' => Dropped(l, r)]_vars
  BY <1>1, StepKeepsRight
<1>2. Spec => [][\A l \in Tags, r \in Rights :
                   HeldSomewhere(l, r) /\ ~HeldSomewhere(l, r)' => Dropped(l, r)]_vars
  BY <1>1, UnbornInvariance, PTL DEF Spec
<1> QED
  BY <1>2 DEF NoRightLost, Dropped

============================================================================
