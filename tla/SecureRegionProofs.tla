------------------------- MODULE SecureRegionProofs -------------------------
(* Theorems about SecureRegion, for every number of threads, objects, tags   *)
(* and nested regions: regions have only what was granted, secrets stay      *)
(* behind their label, and the kernel's label outlives no region.            *)
EXTENDS SecureRegion, SequenceTheorems, TLAPS

-----------------------------------------------------------------------------
(* The inductive invariant.                                                *)

Stacks == Seq(SRState) \ {<<>>}

\* Data of these tags may be anywhere (see Contained).
Released == Removable \cup escaped

CapsIn(a, b) == a.plus \subseteq b.plus /\ a.minus \subseteq b.minus

\* An entry of a stack, of a thread that was conveyed the rights ever, owns the
\* rights own, and shares the rights shared: it has only such
\* rights, and its data is behind its secrecy label unless it was released.
EntrySound(e, own, shared, ever_, released) ==
    /\ e.plus \subseteq own.plus \cup shared.plus
    /\ e.minus \subseteq own.minus \cup shared.minus
    /\ e.sec \cup e.int \subseteq ever_.plus \cup shared.plus
    /\ e.held \ released \subseteq e.sec

\* The rights conveyed to a thread that its own state was not made to lose.
Owned == [t \in Threads |-> [plus |-> granted[t].plus \cup missed[t].plus,
                            minus |-> granted[t].minus \cup missed[t].minus]]

EntriesSound ==
    \A t \in Threads : \A d \in 1..Depth(t) :
        EntrySound(stack[t][d], Owned[t], common, ever[t], Released)

\* A thread's own state, and every state of a thread outside regions, has no
\* secrecy label: there the barriers do not ask for it.
Bare(s, flag) == \A d \in 1..Len(s) : d = 1 \/ ~flag => s[d].sec = {}

OutsideUnlabeled == \A t \in Threads : Bare(stack[t], inSecureRegion[t])

\* What a thread has not dropped was conveyed to it.
DropsRecorded == \A t \in Threads : CapsIn(Owned[t], ever[t])

RegionsSound == FlagMeansRegion /\ EntriesSound /\ OutsideUnlabeled /\ DropsRecorded

\* The kernel task has only tags that were allocated, so that a new tag gives it
\* no right to remove its label.
KernelTags ==
    \A g \in os.label.sec \cup os.label.int \cup os.caps.plus : g < nextTag

KernelSound == KernelTags /\ NoLeftoverLabel

\* An ordinary object has no secrecy label, and memory holds no old data.
OrdinaryObjects ==
    \A o \in Objects : /\ ~heap[o].labeled => heap[o].sec = {}
                       /\ ~heap[o].used => dirt[o] = {}

HeapSound == OrdinaryObjects /\ Contained

IInv == TypeOK /\ RegionsSound /\ KernelSound /\ HeapSound

-----------------------------------------------------------------------------
(* Stacks.                                                                 *)

\* The current state of a thread is the last one of its stack.
LEMMA CurrentState ==
    ASSUME TypeOK, NEW t \in Threads
    PROVE  /\ stack[t] \in Stacks /\ Depth(t) \in Nat /\ Depth(t) >= 1
           /\ Depth(t) = Len(stack[t]) /\ DOMAIN stack[t] = 1..Depth(t)
           /\ \A d \in 1..Depth(t) : stack[t][d] \in SRState
           /\ Cur(t) = stack[t][Depth(t)] /\ Cur(t) \in SRState
<1>1. stack[t] \in Stacks /\ stack[t] \in Seq(SRState) /\ stack[t] # <<>>
  BY DEF TypeOK, Stacks
<1>2. Len(stack[t]) \in Nat /\ DOMAIN stack[t] = 1..Len(stack[t])
      /\ \A d \in 1..Len(stack[t]) : stack[t][d] \in SRState
  BY <1>1, LenProperties
<1>3. Len(stack[t]) # 0
  BY <1>1, EmptySeq
<1> QED
  BY <1>1, <1>2, <1>3 DEF Depth, Cur

\* SetCur, Push and the pop of endSecureRegion, on one stack.
LEMMA SetTop ==
    ASSUME NEW s \in Stacks, NEW e \in SRState
    PROVE  LET r == [s EXCEPT ![Len(s)] = e] IN
           /\ r \in Stacks /\ Len(r) = Len(s)
           /\ \A d \in 1..Len(s) : r[d] = IF d = Len(s) THEN e ELSE s[d]
<1>1. s \in Seq(SRState) /\ Len(s) \in Nat /\ Len(s) # 0 /\ DOMAIN s = 1..Len(s)
  BY EmptySeq DEF Stacks
<1> DEFINE r == [s EXCEPT ![Len(s)] = e]
<1>2. r \in Seq(SRState) /\ Len(r) = Len(s)
  BY <1>1, ExceptSeq
<1>3. r # <<>>
  BY <1>1, <1>2
<1> QED
  BY <1>1, <1>2, <1>3 DEF Stacks

LEMMA Pushed ==
    ASSUME NEW s \in Stacks, NEW e \in SRState
    PROVE  LET r == Append(s, e) IN
           /\ r \in Stacks /\ Len(r) = Len(s) + 1 /\ r[Len(s) + 1] = e
           /\ \A d \in 1..Len(s) : r[d] = s[d]
<1>1. s \in Seq(SRState) /\ Len(s) \in Nat
  BY DEF Stacks
<1> QED
  BY <1>1, AppendProperties DEF Stacks

LEMMA Popped ==
    ASSUME NEW s \in Stacks, Len(s) >= 2
    PROVE  LET r == SubSeq(s, 1, Len(s) - 1) IN
           /\ r \in Stacks /\ Len(r) = Len(s) - 1
           /\ \A d \in 1..(Len(s) - 1) : r[d] = s[d]
<1>1. s \in Seq(SRState) /\ Len(s) \in Nat /\ \A d \in 1..Len(s) : s[d] \in SRState
  BY DEF Stacks
<1> DEFINE n == Len(s) - 1
           r == SubSeq(s, 1, n)
<1>2. n \in Nat /\ n >= 1 /\ \A d \in 1..n : s[d] \in SRState
  BY <1>1
<1>3. r \in Seq(SRState) /\ Len(r) = n /\ \A d \in 1..n : r[d] = s[d]
  <2>1. n \in Int /\ 1 \in Int
    BY <1>2
  <2> HIDE DEF n
  <2>2. /\ r \in Seq(SRState) /\ Len(r) = IF 1 <= n THEN n - 1 + 1 ELSE 0
        /\ \A d \in 1..(n - 1 + 1) : r[d] = s[1 + d - 1]
    BY <1>2, <2>1, SubSeqProperties
  <2>3. \A d \in 1..n : d \in 1..(n - 1 + 1) /\ 1 + d - 1 = d
    BY <1>2
  <2>4. \A d \in 1..n : r[d] = s[d]
    BY <2>2, <2>3
  <2> QED
    BY <1>2, <2>2, <2>4
<1>4. r # <<>>
  <2>1. Len(<<>>) = 0
    OBVIOUS
  <2> HIDE DEF r, n
  <2> QED
    BY <1>2, <1>3, <2>1
<1> QED
  BY <1>3, <1>4 DEF Stacks

\* A change of some of the entries.
LEMMA Mapped ==
    ASSUME NEW s \in Stacks, NEW r, DOMAIN r = DOMAIN s, r = [d \in DOMAIN s |-> r[d]],
           \A d \in DOMAIN s : r[d] \in SRState
    PROVE  r \in Stacks /\ Len(r) = Len(s) /\ DOMAIN s = 1..Len(s)
<1>1. s \in Seq(SRState) /\ Len(s) \in Nat /\ Len(s) # 0 /\ DOMAIN s = 1..Len(s)
  BY EmptySeq DEF Stacks
<1>2. r \in [1..Len(s) -> SRState]
  BY <1>1
<1>3. r \in Seq(SRState) /\ Len(r) = Len(s)
  BY <1>1, <1>2, SeqDef
<1>4. r # <<>>
  BY <1>1, <1>3
<1> QED
  BY <1>1, <1>3, <1>4 DEF Stacks

-----------------------------------------------------------------------------
(* What holds on after rights have been conveyed and data released.        *)

LEMMA OwnedKept ==
    ASSUME UNCHANGED <<granted, missed>>
    PROVE  Owned' = Owned
  BY DEF Owned

LEMMA SameCaps ==
    ASSUME NEW a \in Caps, NEW b \in Caps, a.plus = b.plus, a.minus = b.minus
    PROVE  a = b
  BY DEF Caps

\* createCapability and initializeThreadCapability.
LEMMA OwnedConveyed ==
    ASSUME TypeOK, NEW t \in Threads, NEW label \in SUBSET Tags, NEW type,
           granted' = [granted EXCEPT ![t] = With(granted[t], label, type)],
           UNCHANGED missed
    PROVE  /\ granted' \in [Threads -> Caps] /\ Owned[t] \in Caps
           /\ Owned'[t] = With(Owned[t], label, type)
           /\ \A u \in Threads \ {t} : Owned'[u] = Owned[u]
<1>1. /\ granted \in [Threads -> Caps] /\ missed \in [Threads -> Caps]
      /\ granted[t] \in Caps /\ missed[t] \in Caps
  BY DEF TypeOK
<1>2. granted'[t] = With(granted[t], label, type) /\ \A u \in Threads \ {t} : granted'[u] = granted[u]
  BY <1>1
<1>3. With(granted[t], label, type) \in Caps
  BY <1>1 DEF With, Caps
<1>4. granted' \in [Threads -> Caps]
  BY <1>1, <1>3
<1>5. /\ Owned[t] = [plus |-> granted[t].plus \cup missed[t].plus,
                     minus |-> granted[t].minus \cup missed[t].minus]
      /\ Owned'[t] = [plus |-> granted'[t].plus \cup missed[t].plus,
                      minus |-> granted'[t].minus \cup missed[t].minus]
      /\ \A u \in Threads \ {t} : Owned'[u] = Owned[u]
  BY <1>2 DEF Owned
<1>6. Owned[t] \in Caps
  BY <1>1, <1>5 DEF Caps
<1>7. /\ granted'[t].plus = granted[t].plus \cup (IF "plus" \in type THEN label ELSE {})
      /\ granted'[t].minus = granted[t].minus \cup (IF "minus" \in type THEN label ELSE {})
  BY <1>1, <1>2 DEF With, Caps
<1>8. /\ With(Owned[t], label, type) \in Caps
      /\ With(Owned[t], label, type).plus = Owned[t].plus \cup (IF "plus" \in type THEN label ELSE {})
      /\ With(Owned[t], label, type).minus = Owned[t].minus \cup (IF "minus" \in type THEN label ELSE {})
  BY <1>6 DEF With, Caps
<1>9. Owned'[t] = With(Owned[t], label, type)
  <2>1. Owned'[t] \in Caps
    BY <1>1, <1>4, <1>5 DEF Caps
  <2>2. /\ Owned'[t].plus = With(Owned[t], label, type).plus
        /\ Owned'[t].minus = With(Owned[t], label, type).minus
    <3>1. /\ Owned'[t].plus = granted'[t].plus \cup missed[t].plus
          /\ Owned'[t].minus = granted'[t].minus \cup missed[t].minus
          /\ Owned[t].plus = granted[t].plus \cup missed[t].plus
          /\ Owned[t].minus = granted[t].minus \cup missed[t].minus
      BY <1>5
    <3> QED
      BY <1>7, <1>8, <3>1
  <2> DEFINE a == Owned'[t]
             b == With(Owned[t], label, type)
  <2>3. a \in Caps /\ b \in Caps /\ a.plus = b.plus /\ a.minus = b.minus
    BY <1>8, <2>1, <2>2
  <2> HIDE DEF a, b
  <2>4. a = b
    BY <2>3, SameCaps
  <2> QED
    BY <2>4 DEF a, b
<1> QED
  BY <1>4, <1>5, <1>6, <1>9

\* A right that is given up leaves the thread's own rights only with its own state.
LEMMA OwnedGivenUp ==
    ASSUME TypeOK, NEW t \in Threads, NEW label \in SUBSET Tags, NEW type, GiveUp(t, label, type)
    PROVE  /\ granted' \in [Threads -> Caps] /\ missed' \in [Threads -> Caps]
           /\ Owned[t] \in Caps
           /\ Owned'[t] = IF OwnNear(t) THEN Without(Owned[t], label, type) ELSE Owned[t]
           /\ \A u \in Threads \ {t} : Owned'[u] = Owned[u]
<1> DEFINE g == granted[t]
           m == missed[t]
           h == Without(g, label, type)
           n == IF OwnNear(t) THEN Without(m, label, type)
                ELSE [plus |-> m.plus \cup (g.plus \ h.plus),
                      minus |-> m.minus \cup (g.minus \ h.minus)]
<1>1. /\ granted \in [Threads -> Caps] /\ missed \in [Threads -> Caps]
      /\ g \in Caps /\ m \in Caps
  BY DEF TypeOK
<1>2. granted' = [granted EXCEPT ![t] = h]
  BY DEF GiveUp
<1>3. granted'[t] = h /\ \A u \in Threads \ {t} : granted'[u] = granted[u]
  BY <1>1, <1>2
<1>4. missed' = [missed EXCEPT ![t] = n]
  BY <1>3 DEF GiveUp
<1>5. missed'[t] = n /\ \A u \in Threads \ {t} : missed'[u] = missed[u]
  BY <1>1, <1>4
<1>6. ASSUME NEW c \in Caps
      PROVE  /\ Without(c, label, type) \in Caps
             /\ Without(c, label, type).plus = c.plus \ (IF "plus" \in type THEN label ELSE {})
             /\ Without(c, label, type).minus = c.minus \ (IF "minus" \in type THEN label ELSE {})
  BY DEF Without, Caps
<1>7. h \in Caps /\ h.plus \subseteq g.plus /\ h.minus \subseteq g.minus
  BY <1>1, <1>6
<1> HIDE DEF g, m, h
<1>8. n \in Caps
  BY <1>1, <1>6, <1>7 DEF Caps
<1>9. granted' \in [Threads -> Caps] /\ missed' \in [Threads -> Caps]
  BY <1>1, <1>2, <1>4, <1>7, <1>8
<1>10. /\ Owned[t] = [plus |-> g.plus \cup m.plus, minus |-> g.minus \cup m.minus]
       /\ Owned'[t] = [plus |-> h.plus \cup n.plus, minus |-> h.minus \cup n.minus]
       /\ \A u \in Threads \ {t} : Owned'[u] = Owned[u]
  BY <1>3, <1>5 DEF Owned, g, m
<1>11. Owned[t] \in Caps
  BY <1>1, <1>10 DEF Caps
<1>12. CASE OwnNear(t)
  <2>1. n = Without(m, label, type)
    BY <1>12
  <2>2. /\ h.plus \cup n.plus = Owned[t].plus \ (IF "plus" \in type THEN label ELSE {})
        /\ h.minus \cup n.minus = Owned[t].minus \ (IF "minus" \in type THEN label ELSE {})
    BY <1>1, <1>6, <1>10, <2>1 DEF h
  <2>3. Owned'[t] = Without(Owned[t], label, type)
    <3>1. Owned'[t] \in Caps
      BY <1>7, <1>8, <1>10 DEF Caps
    <3>2. /\ Owned'[t].plus = Without(Owned[t], label, type).plus
          /\ Owned'[t].minus = Without(Owned[t], label, type).minus
      <4>1. Owned'[t].plus = h.plus \cup n.plus /\ Owned'[t].minus = h.minus \cup n.minus
        BY <1>10
      <4> QED
        BY <1>6, <1>11, <2>2, <4>1
    <3> DEFINE a == Owned'[t]
               b == Without(Owned[t], label, type)
    <3>3. a \in Caps /\ b \in Caps /\ a.plus = b.plus /\ a.minus = b.minus
      BY <1>6, <1>11, <3>1, <3>2
    <3> HIDE DEF a, b
    <3>4. a = b
      BY <3>3, SameCaps
    <3> QED
      BY <3>4 DEF a, b
  <2> QED
    BY <1>9, <1>10, <1>11, <1>12, <2>3
<1>13. CASE ~OwnNear(t)
  <2>1. h.plus \cup n.plus = g.plus \cup m.plus /\ h.minus \cup n.minus = g.minus \cup m.minus
    BY <1>7, <1>13
  <2> QED
    BY <1>9, <1>10, <1>11, <1>13, <2>1
<1> QED
  BY <1>12, <1>13

LEMMA CapsInReflexive == \A c : CapsIn(c, c)
  BY DEF CapsIn

LEMMA EntryStaysSound ==
    ASSUME NEW e, NEW g, NEW h, NEW c, NEW b, NEW v, NEW w, NEW p, NEW q,
           EntrySound(e, g, c, v, p),
           CapsIn(g, h), CapsIn(c, b), CapsIn(v, w), p \subseteq q
    PROVE  EntrySound(e, h, b, w, q)
  BY DEF EntrySound, CapsIn

\* Nothing that was released is called back.
LEMMA ReleasedGrows ==
    ASSUME CapsIn(common, common'), \A u \in Threads : CapsIn(ever[u], ever'[u]),
           escaped \subseteq escaped'
    PROVE  Released \subseteq Released'
<1>1. Removable \subseteq Removable'
  <2> SUFFICES ASSUME NEW g \in Removable PROVE g \in Removable'
    OBVIOUS
  <2>1. CASE g \in common.minus
    BY <2>1 DEF Removable, CapsIn
  <2>2. CASE g \in UNION {ever[u].minus : u \in Threads}
    <3>1. PICK u \in Threads : g \in ever[u].minus
      BY <2>2
    <3>2. g \in ever'[u].minus
      BY <3>1 DEF CapsIn
    <3> QED
      BY <3>2 DEF Removable
  <2> QED
    BY <2>1, <2>2 DEF Removable
<1> QED
  BY <1>1 DEF Released

\* A thread's right to remove a tag releases it.
LEMMA OwnRightsReleased ==
    ASSUME DropsRecorded, NEW t \in Threads
    PROVE  Owned[t].minus \cup common.minus \subseteq Released
<1>1. Owned[t].minus \subseteq ever[t].minus
  BY DEF DropsRecorded, CapsIn
<1> QED
  BY <1>1 DEF Released, Removable

\* A step of t that leaves its stack as s.
LEMMA ThreadStep ==
    ASSUME TypeOK, RegionsSound, NEW t \in Threads, NEW s \in Stacks,
           stack' = [stack EXCEPT ![t] = s],
           \A u \in Threads \ {t} : /\ inSecureRegion'[u] = inSecureRegion[u]
                                    /\ Owned'[u] = Owned[u],
           \A u \in Threads : CapsIn(ever[u], ever'[u]),
           CapsIn(common, common'), escaped \subseteq escaped',
           CapsIn(Owned'[t], ever'[t]),
           \A d \in 1..Len(s) : EntrySound(s[d], Owned'[t], common', ever'[t], Released'),
           inSecureRegion'[t] => Len(s) >= 2,
           Bare(s, inSecureRegion'[t])
    PROVE  RegionsSound'
<1> USE DEF RegionsSound
<1>1. /\ stack'[t] = s /\ Depth(t)' = Len(s)
      /\ \A u \in Threads \ {t} : stack'[u] = stack[u] /\ Depth(u)' = Depth(u)
  BY DEF TypeOK, Depth
<1>2. FlagMeansRegion'
  BY <1>1 DEF FlagMeansRegion
<1>3. OutsideUnlabeled'
  <2> SUFFICES ASSUME NEW u \in Threads PROVE Bare(stack'[u], inSecureRegion'[u])
    BY DEF OutsideUnlabeled, Bare
  <2> QED
    BY <1>1 DEF OutsideUnlabeled
<1>4. DropsRecorded'
  <2> SUFFICES ASSUME NEW u \in Threads PROVE CapsIn(Owned'[u], ever'[u])
    BY DEF DropsRecorded, CapsIn
  <2>1. CASE u # t
    <3>1. CapsIn(Owned[u], ever[u]) /\ CapsIn(ever[u], ever'[u]) /\ Owned'[u] = Owned[u]
      BY <2>1 DEF DropsRecorded
    <3> QED
      BY <3>1 DEF CapsIn
  <2> QED
    BY <2>1
<1>5. EntriesSound'
  <2> SUFFICES ASSUME NEW u \in Threads, NEW d \in 1..Depth(u)'
               PROVE  EntrySound(stack'[u][d], Owned'[u], common', ever'[u], Released')
    BY DEF EntriesSound, EntrySound
  <2>1. CASE u = t
    BY <1>1, <2>1
  <2>2. CASE u # t
    <3>1. EntrySound(stack[u][d], Owned[u], common, ever[u], Released)
      BY <1>1, <2>2 DEF EntriesSound
    <3>2. CapsIn(Owned[u], Owned[u]) /\ Owned'[u] = Owned[u] /\ stack'[u] = stack[u]
      BY <1>1, <2>2, CapsInReflexive
    <3>3. CapsIn(ever[u], ever'[u]) /\ Released \subseteq Released'
      BY ReleasedGrows
    <3>4. EntrySound(stack[u][d], Owned[u], common', ever'[u], Released')
      BY <3>1, <3>2, <3>3, EntryStaysSound, Zenon
    <3> QED
      BY <3>2, <3>4, Zenon
  <2> QED
    BY <2>1, <2>2
<1> QED
  BY <1>2, <1>3, <1>4, <1>5

\* The kernel task keeps its label, and no region forgets to restore it.
LEMMA KernelStep ==
    ASSUME TypeOK, KernelSound, NEW t \in Threads, NEW s \in Stacks,
           stack' = [stack EXCEPT ![t] = s],
           (\E d \in 1..Depth(t) : stack[t][d].RESTORE_LABELS)
               => \E d \in 1..Len(s) : s[d].RESTORE_LABELS,
           UNCHANGED <<os, nextTag>>
    PROVE  KernelSound'
<1>1. /\ stack'[t] = s /\ Depth(t)' = Len(s)
      /\ \A u \in Threads \ {t} : stack'[u] = stack[u] /\ Depth(u)' = Depth(u)
  BY DEF TypeOK, Depth
<1>2. KernelTags'
  BY DEF KernelSound, KernelTags
<1>3. NoLeftoverLabel'
  <2>1. CASE \E u \in Threads : \E d \in 1..Depth(u) : stack[u][d].RESTORE_LABELS
    <3>1. PICK u \in Threads : \E d \in 1..Depth(u) : stack[u][d].RESTORE_LABELS
      BY <2>1
    <3>2. \E d \in 1..Depth(u)' : stack'[u][d].RESTORE_LABELS
      <4>1. CASE u = t
        BY <1>1, <3>1, <4>1
      <4>2. CASE u # t
        BY <1>1, <3>1, <4>2
      <4> QED
        BY <4>1, <4>2
    <3> QED
      BY <3>2 DEF NoLeftoverLabel
  <2>2. CASE ~\E u \in Threads : \E d \in 1..Depth(u) : stack[u][d].RESTORE_LABELS
    BY <2>2 DEF KernelSound, NoLeftoverLabel
  <2> QED
    BY <2>1, <2>2
<1> QED
  BY <1>2, <1>3 DEF KernelSound

\* The heap stays as it is.
LEMMA HeapStep ==
    ASSUME HeapSound, UNCHANGED <<heap, dirt>>, Released \subseteq Released'
    PROVE  HeapSound'
<1>1. OrdinaryObjects'
  BY DEF HeapSound, OrdinaryObjects
<1>2. Contained'
  <2> SUFFICES ASSUME NEW o \in Objects PROVE dirt[o] \ Released' \subseteq heap[o].sec
    BY DEF Contained, Released
  <2> QED
    BY DEF HeapSound, Contained, Released
<1> QED
  BY <1>1, <1>2 DEF HeapSound

-----------------------------------------------------------------------------
(* Steps within one state of a stack.                                      *)

\* SetCur(t, e).
LEMMA TopStep ==
    ASSUME TypeOK, RegionsSound, KernelSound, NEW t \in Threads, NEW e \in SRState,
           SetCur(t, e), UNCHANGED <<inSecureRegion, common, granted, missed, ever, escaped>>,
           EntrySound(e, Owned[t], common, ever[t], Released),
           inSecureRegion[t] \/ e.sec = Cur(t).sec
    PROVE  /\ stack' \in [Threads -> Seq(SRState) \ {<<>>}] /\ RegionsSound'
           /\ UNCHANGED <<os, nextTag>> /\ (Cur(t).RESTORE_LABELS => e.RESTORE_LABELS)
                => KernelSound'
<1>a. Owned' = Owned
  BY OwnedKept
<1> USE <1>a
<1> DEFINE s == [stack[t] EXCEPT ![Len(stack[t])] = e]
<1>1. /\ stack[t] \in Stacks /\ Depth(t) \in Nat /\ Depth(t) >= 1
      /\ Depth(t) = Len(stack[t]) /\ Cur(t) = stack[t][Depth(t)]
  BY CurrentState
<1>2. stack' = [stack EXCEPT ![t] = s]
  BY DEF SetCur, Depth
<1>3. /\ s \in Stacks /\ Len(s) = Depth(t)
      /\ \A d \in 1..Depth(t) : s[d] = IF d = Depth(t) THEN e ELSE stack[t][d]
  BY <1>1, SetTop
<1> HIDE DEF s
<1>4. stack' \in [Threads -> Seq(SRState) \ {<<>>}]
  BY <1>2, <1>3 DEF TypeOK, Stacks
<1>5. \A d \in 1..Len(s) : EntrySound(s[d], Owned[t], common, ever[t], Released)
  BY <1>3 DEF RegionsSound, EntriesSound
<1>6. Released' = Released
  BY DEF Released, Removable
<1>7. (inSecureRegion[t] => Len(s) >= 2) /\ Bare(stack[t], inSecureRegion[t])
      /\ CapsIn(Owned[t], ever[t])
  BY <1>1, <1>3 DEF RegionsSound, FlagMeansRegion, OutsideUnlabeled, DropsRecorded
<1>8. Bare(s, inSecureRegion[t])
  <2> SUFFICES ASSUME NEW d \in 1..Len(s), d = 1 \/ ~inSecureRegion[t] PROVE s[d].sec = {}
    BY DEF Bare
  <2>1. stack[t][d].sec = {}
    BY <1>1, <1>3, <1>7 DEF Bare
  <2>2. d # Depth(t) \/ e.sec = Cur(t).sec
    BY <1>1, <1>3, <1>7
  <2> QED
    BY <1>1, <1>3, <2>1, <2>2
<1>9. RegionsSound'
  <2>1. \A u \in Threads : CapsIn(ever[u], ever'[u])
    BY CapsInReflexive
  <2>2. CapsIn(common, common') /\ escaped \subseteq escaped' /\ CapsIn(Owned'[t], ever'[t])
    BY <1>7, CapsInReflexive
  <2>3. \A d \in 1..Len(s) : EntrySound(s[d], Owned'[t], common', ever'[t], Released')
    BY <1>5, <1>6, Zenon
  <2> QED
    BY <1>2, <1>3, <1>7, <1>8, <2>1, <2>2, <2>3, ThreadStep
<1>10. ASSUME UNCHANGED <<os, nextTag>>, Cur(t).RESTORE_LABELS => e.RESTORE_LABELS
       PROVE  KernelSound'
  <2>1. (\E d \in 1..Depth(t) : stack[t][d].RESTORE_LABELS)
            => \E d \in 1..Len(s) : s[d].RESTORE_LABELS
    BY <1>1, <1>3, <1>10
  <2> QED
    BY <1>2, <1>3, <1>10, <2>1, KernelStep
<1> QED
  BY <1>4, <1>9, <1>10

\* The current state is sound.
LEMMA CurSound ==
    ASSUME TypeOK, RegionsSound, NEW t \in Threads
    PROVE  /\ EntrySound(Cur(t), Owned[t], common, ever[t], Released)
           /\ Cur(t).plus \subseteq ever[t].plus \cup common.plus
           /\ Cur(t).minus \subseteq Released
           /\ ~inSecureRegion[t] => Cur(t).sec = {}
<1>1. /\ Depth(t) \in Nat /\ Depth(t) >= 1 /\ Depth(t) = Len(stack[t])
      /\ Cur(t) = stack[t][Depth(t)]
  BY CurrentState
<1>2. EntrySound(Cur(t), Owned[t], common, ever[t], Released)
  BY <1>1 DEF RegionsSound, EntriesSound
<1>3. CapsIn(Owned[t], ever[t]) /\ Bare(stack[t], inSecureRegion[t])
  BY DEF RegionsSound, DropsRecorded, OutsideUnlabeled
<1>4. Owned[t].minus \cup common.minus \subseteq Released
  BY OwnRightsReleased DEF RegionsSound
<1>5. Cur(t).plus \subseteq ever[t].plus \cup common.plus /\ Cur(t).minus \subseteq Released
  BY <1>2, <1>3, <1>4 DEF EntrySound, CapsIn
<1>6. ~inSecureRegion[t] => Cur(t).sec = {}
  BY <1>1, <1>3 DEF Bare
<1> QED
  BY <1>2, <1>5, <1>6

\* The rest of a step that changes one state and nothing else.
LEMMA OnlyTopKeeps ==
    ASSUME IInv, NEW t \in Threads, NEW e \in SRState, SetCur(t, e),
           UNCHANGED <<inSecureRegion, common, heap, os, nextTag, granted, missed, ever, dirt, escaped>>,
           EntrySound(e, Owned[t], common, ever[t], Released),
           inSecureRegion[t] \/ e.sec = Cur(t).sec,
           e.RESTORE_LABELS = Cur(t).RESTORE_LABELS
    PROVE  IInv'
<1>1. /\ stack' \in [Threads -> Seq(SRState) \ {<<>>}] /\ RegionsSound' /\ KernelSound'
  BY TopStep DEF IInv
<1>2. TypeOK'
  BY <1>1 DEF IInv, TypeOK
<1>3. Released' = Released
  BY DEF Released, Removable
<1>4. HeapSound'
  BY <1>3, HeapStep DEF IInv
<1> QED
  BY <1>1, <1>2, <1>4 DEF IInv

\* addSecrecyLabel, addIntegrityLabel, removeSecrecyLabel, removeIntegrityLabel.
LEMMA LabelStepKeeps ==
    ASSUME IInv, NEW t \in Threads, LabelStep(t)
    PROVE  IInv'
<1>1. SecArgs \subseteq SUBSET Tags /\ IntArgs \subseteq SUBSET Tags
  BY SecureRegionAssumption
<1>2. /\ Cur(t) \in SRState
      /\ EntrySound(Cur(t), Owned[t], common, ever[t], Released)
      /\ Cur(t).plus \subseteq ever[t].plus \cup common.plus
      /\ Cur(t).minus \subseteq Released
  BY CurrentState, CurSound DEF IInv
<1>3. ASSUME NEW label \in SecArgs, addSecrecyLabel(t, label) PROVE IInv'
  <2> DEFINE e == [Cur(t) EXCEPT !.sec = @ \cup label, !.held = @ \cup label]
  <2>1. e \in SRState /\ EntrySound(e, Owned[t], common, ever[t], Released)
        /\ e.RESTORE_LABELS = Cur(t).RESTORE_LABELS
    BY <1>1, <1>2, <1>3 DEF addSecrecyLabel, EntrySound, SRState
  <2> QED
    BY <1>3, <2>1, OnlyTopKeeps DEF addSecrecyLabel
<1>4. ASSUME NEW label \in SecArgs, removeSecrecyLabel(t, label) PROVE IInv'
  <2> DEFINE e == [Cur(t) EXCEPT !.sec = @ \ label]
  <2>1. e \in SRState /\ EntrySound(e, Owned[t], common, ever[t], Released)
        /\ e.RESTORE_LABELS = Cur(t).RESTORE_LABELS
    BY <1>1, <1>2, <1>4 DEF removeSecrecyLabel, EntrySound, SRState
  <2> QED
    BY <1>4, <2>1, OnlyTopKeeps DEF removeSecrecyLabel
<1>5. ASSUME NEW label \in IntArgs, addIntegrityLabel(t, label) PROVE IInv'
  <2> DEFINE e == [Cur(t) EXCEPT !.int = @ \cup label]
  <2>1. e \in SRState /\ EntrySound(e, Owned[t], common, ever[t], Released)
        /\ e.RESTORE_LABELS = Cur(t).RESTORE_LABELS
    BY <1>1, <1>2, <1>5 DEF addIntegrityLabel, EntrySound, SRState
  <2> QED
    BY <1>5, <2>1, OnlyTopKeeps DEF addIntegrityLabel
<1>6. ASSUME NEW label \in IntArgs, removeIntegrityLabel(t, label) PROVE IInv'
  <2> DEFINE e == [Cur(t) EXCEPT !.int = @ \ label]
  <2>1. e \in SRState /\ EntrySound(e, Owned[t], common, ever[t], Released)
        /\ e.RESTORE_LABELS = Cur(t).RESTORE_LABELS
    BY <1>1, <1>2, <1>6 DEF removeIntegrityLabel, EntrySound, SRState
  <2> QED
    BY <1>6, <2>1, OnlyTopKeeps DEF removeIntegrityLabel
<1> QED
  BY <1>3, <1>4, <1>5, <1>6 DEF LabelStep

-----------------------------------------------------------------------------
(* Starting and ending regions.                                            *)

\* A state is pushed on the stack.
LEMMA PushStep ==
    ASSUME TypeOK, RegionsSound, KernelSound, NEW t \in Threads, NEW e \in SRState,
           Push(t, e), UNCHANGED <<common, granted, missed, ever, os, nextTag>>,
           escaped \subseteq escaped', inSecureRegion' \in [Threads -> BOOLEAN],
           \A u \in Threads \ {t} : inSecureRegion'[u] = inSecureRegion[u],
           inSecureRegion[t] => inSecureRegion'[t],
           EntrySound(e, Owned[t], common, ever[t], Released'),
           inSecureRegion'[t] \/ e.sec = {}
    PROVE  /\ stack' \in [Threads -> Seq(SRState) \ {<<>>}]
           /\ RegionsSound' /\ KernelSound'
<1>a. Owned' = Owned
  BY OwnedKept
<1> USE <1>a
<1> DEFINE s == Append(stack[t], e)
<1>1. /\ stack[t] \in Stacks /\ Depth(t) \in Nat /\ Depth(t) >= 1
      /\ Depth(t) = Len(stack[t])
  BY CurrentState
<1>2. stack' = [stack EXCEPT ![t] = s]
  BY DEF Push
<1>3. /\ s \in Stacks /\ Len(s) = Depth(t) + 1 /\ s[Depth(t) + 1] = e
      /\ \A d \in 1..Depth(t) : s[d] = stack[t][d]
  BY <1>1, Pushed
<1> HIDE DEF s
<1>4. stack' \in [Threads -> Seq(SRState) \ {<<>>}]
  BY <1>2, <1>3 DEF TypeOK, Stacks
<1>5. \A d \in 1..Len(s) : d \in 1..Depth(t) \/ d = Depth(t) + 1
  BY <1>1, <1>3
<1>6. \A u \in Threads : CapsIn(ever[u], ever'[u])
  BY CapsInReflexive
<1>7. CapsIn(common, common') /\ CapsIn(Owned'[t], ever'[t]) /\ Released \subseteq Released'
  BY <1>6, CapsInReflexive, ReleasedGrows DEF RegionsSound, DropsRecorded
<1>8. ASSUME NEW d \in 1..Len(s)
      PROVE  EntrySound(s[d], Owned'[t], common', ever'[t], Released')
  <2>1. CASE d \in 1..Depth(t)
    <3>1. EntrySound(s[d], Owned[t], common, ever[t], Released)
      BY <1>3, <2>1 DEF RegionsSound, EntriesSound
    <3> QED
      BY <1>7, <3>1, CapsInReflexive, EntryStaysSound
  <2>2. CASE d = Depth(t) + 1
    BY <1>3, <2>2
  <2> QED
    BY <1>5, <2>1, <2>2
<1>9. Bare(s, inSecureRegion'[t])
  <2> SUFFICES ASSUME NEW d \in 1..Len(s), d = 1 \/ ~inSecureRegion'[t] PROVE s[d].sec = {}
    BY DEF Bare
  <2>1. CASE d \in 1..Depth(t)
    BY <1>1, <1>3, <2>1 DEF RegionsSound, OutsideUnlabeled, Bare
  <2>2. CASE d = Depth(t) + 1
    BY <1>1, <1>3, <2>2
  <2> QED
    BY <1>5, <2>1, <2>2
<1>10. RegionsSound'
  <2>1. Len(s) >= 2
    BY <1>1, <1>3
  <2> QED
    BY <1>2, <1>3, <1>6, <1>7, <1>8, <1>9, <2>1, ThreadStep
<1>11. KernelSound'
  <2>1. (\E d \in 1..Depth(t) : stack[t][d].RESTORE_LABELS)
            => \E d \in 1..Len(s) : s[d].RESTORE_LABELS
    BY <1>1, <1>3
  <2> QED
    BY <1>2, <1>3, <2>1, KernelStep
<1> QED
  BY <1>4, <1>10, <1>11

LEMMA StartKeeps ==
    ASSUME IInv, NEW t \in Threads, NEW plus \in CapArgs, NEW minus \in CapArgs,
           NEW sec \in SecArgs, NEW int \in IntArgs,
           startSecureRegion(t, plus, minus, sec, int)
    PROVE  IInv'
<1> USE DEF IInv
<1> DEFINE e == setState(plus, minus, sec, int, Cur(t).held \cup sec)
<1>0. /\ StartAllowed(t, plus, minus, sec, int) /\ Push(t, e)
      /\ inSecureRegion' = [inSecureRegion EXCEPT ![t] = TRUE]
      /\ UNCHANGED <<common, heap, os, nextTag, granted, missed, ever, dirt, escaped>>
  BY DEF startSecureRegion
<1>1. plus \subseteq Tags /\ minus \subseteq Tags /\ sec \subseteq Tags /\ int \subseteq Tags
  BY SecureRegionAssumption
<1>2. /\ Cur(t) \in SRState
      /\ EntrySound(Cur(t), Owned[t], common, ever[t], Released)
      /\ Owned[t].minus \cup common.minus \subseteq Released
      /\ Owned[t].plus \subseteq ever[t].plus
  BY CurrentState, CurSound, OwnRightsReleased DEF RegionsSound, DropsRecorded, CapsIn
<1>3. /\ ParentCaps(t).plus \subseteq Owned[t].plus \cup common.plus
      /\ ParentCaps(t).minus \subseteq Owned[t].minus \cup common.minus
  BY <1>2 DEF ParentCaps, EntrySound
<1>4. /\ e \in SRState /\ e.plus = plus /\ e.minus = minus /\ e.sec = sec /\ e.int = int
      /\ e.held = Cur(t).held \cup sec
  BY <1>1, <1>2 DEF setState, SRState, Default
<1> HIDE DEF e
<1>5. EntrySound(e, Owned[t], common, ever[t], Released)
  <2>1. e.plus \subseteq Owned[t].plus \cup common.plus
        /\ e.minus \subseteq Owned[t].minus \cup common.minus
    BY <1>0, <1>3, <1>4 DEF StartAllowed
  <2>2. e.sec \cup e.int \subseteq ever[t].plus \cup common.plus
    BY <1>0, <1>2, <1>3, <1>4 DEF StartAllowed, EntrySound
  <2>3. e.held \ Released \subseteq e.sec
    BY <1>0, <1>2, <1>3, <1>4 DEF StartAllowed, EntrySound
  <2> QED
    BY <2>1, <2>2, <2>3 DEF EntrySound
<1>6. Released' = Released
  BY <1>0 DEF Released, Removable
<1>7. /\ inSecureRegion' \in [Threads -> BOOLEAN] /\ inSecureRegion'[t]
      /\ \A u \in Threads \ {t} : inSecureRegion'[u] = inSecureRegion[u]
  BY <1>0 DEF TypeOK
<1>8. /\ stack' \in [Threads -> Seq(SRState) \ {<<>>}] /\ RegionsSound' /\ KernelSound'
  BY <1>0, <1>4, <1>5, <1>6, <1>7, PushStep
<1>9. TypeOK'
  BY <1>0, <1>7, <1>8 DEF TypeOK
<1>10. HeapSound'
  BY <1>0, <1>6, HeapStep
<1> QED
  BY <1>8, <1>9, <1>10

\* A refused start goes on without labels: what its caller held is let go.
LEMMA ThrowStartErrorKeeps ==
    ASSUME IInv, NEW t \in Threads, NEW plus, NEW minus, NEW sec, NEW int,
           throwStartError(t, plus, minus, sec, int)
    PROVE  IInv'
<1> USE DEF IInv
<1> DEFINE e == setState({}, {}, {}, {}, Cur(t).held)
<1>0. /\ Push(t, e) /\ escaped' = escaped \cup Cur(t).held
      /\ UNCHANGED <<inSecureRegion, common, heap, os, nextTag, granted, missed, ever, dirt>>
  BY DEF throwStartError
<1>1. Cur(t) \in SRState /\ Cur(t).held \subseteq Tags
  BY CurrentState DEF SRState
<1>2. /\ e \in SRState /\ e.plus = {} /\ e.minus = {} /\ e.sec = {} /\ e.int = {}
      /\ e.held = Cur(t).held
  BY <1>1 DEF setState, SRState, Default
<1> HIDE DEF e
<1>3. EntrySound(e, Owned[t], common, ever[t], Released')
  BY <1>0, <1>2 DEF EntrySound, Released
<1>4. Released \subseteq Released'
  BY <1>0 DEF Released, Removable
<1>5. /\ stack' \in [Threads -> Seq(SRState) \ {<<>>}] /\ RegionsSound' /\ KernelSound'
  BY <1>0, <1>2, <1>3, PushStep DEF TypeOK
<1>6. TypeOK'
  BY <1>0, <1>1, <1>5 DEF TypeOK
<1>7. HeapSound'
  BY <1>0, <1>4, HeapStep
<1> QED
  BY <1>5, <1>6, <1>7

\* The state at the top is gone; if it had passed labels to the kernel, the
\* kernel's label is empty again or beyond the rights of the kernel task.
LEMMA EndKeeps ==
    ASSUME IInv, NEW t \in Threads, endSecureRegion(t)
    PROVE  IInv'
<1> USE DEF IInv
<1> DEFINE s == SubSeq(stack[t], 1, Len(stack[t]) - 1)
<1>0. /\ inSecureRegion[t] /\ stack' = [stack EXCEPT ![t] = s]
      /\ inSecureRegion' = [inSecureRegion EXCEPT ![t] = Depth(t) # 2]
      /\ IF Cur(t).RESTORE_LABELS THEN sysPassLabels(Unlabeled) ELSE UNCHANGED os
      /\ UNCHANGED <<common, heap, nextTag, granted, missed, ever, dirt, escaped>>
  BY DEF endSecureRegion
<1>a. Owned' = Owned
  BY <1>0, OwnedKept
<1> USE <1>a
<1>1. /\ stack[t] \in Stacks /\ Depth(t) \in Nat /\ Depth(t) >= 2
      /\ Depth(t) = Len(stack[t]) /\ Cur(t) = stack[t][Depth(t)]
  BY <1>0, CurrentState DEF RegionsSound, FlagMeansRegion
<1>2. /\ s \in Stacks /\ Len(s) = Depth(t) - 1
      /\ \A d \in 1..(Depth(t) - 1) : s[d] = stack[t][d]
  BY <1>1, Popped
<1> HIDE DEF s
<1>3. /\ inSecureRegion' \in [Threads -> BOOLEAN] /\ (inSecureRegion'[t] <=> Depth(t) # 2)
      /\ \A u \in Threads \ {t} : inSecureRegion'[u] = inSecureRegion[u]
  BY <1>0 DEF TypeOK
<1>4. Released' = Released
  BY <1>0 DEF Released, Removable
<1>5. RegionsSound'
  <2>1. \A u \in Threads : CapsIn(ever[u], ever'[u])
    BY <1>0, CapsInReflexive
  <2>2. CapsIn(common, common') /\ CapsIn(Owned'[t], ever'[t]) /\ escaped \subseteq escaped'
    BY <1>0, CapsInReflexive DEF RegionsSound, DropsRecorded
  <2>3. ASSUME NEW d \in 1..Len(s)
        PROVE  EntrySound(s[d], Owned'[t], common', ever'[t], Released')
    <3>1. d \in 1..Depth(t) /\ s[d] = stack[t][d]
      BY <1>1, <1>2
    <3>2. EntrySound(s[d], Owned[t], common, ever[t], Released)
      BY <3>1 DEF RegionsSound, EntriesSound
    <3> QED
      BY <1>0, <1>4, <3>2, Zenon
  <2>4. inSecureRegion'[t] => Len(s) >= 2
    <3>0. Len(s) = Depth(t) - 1 /\ Depth(t) \in Nat /\ Depth(t) >= 2
      BY <1>1, <1>2
    <3>1. Depth(t) # 2 => Len(s) >= 2
      BY <3>0
    <3> QED
      BY <1>3, <3>1, Zenon
  <2>5. Bare(s, inSecureRegion'[t])
    <3> SUFFICES ASSUME NEW d \in 1..Len(s), d = 1 \/ ~inSecureRegion'[t] PROVE s[d].sec = {}
      BY DEF Bare
    <3>1. d = 1 /\ 1 \in 1..Depth(t)
      BY <1>1, <1>2, <1>3
    <3>2. stack[t][1].sec = {}
      BY <1>1, <3>1 DEF RegionsSound, OutsideUnlabeled, Bare
    <3> QED
      BY <1>1, <1>2, <3>1, <3>2
  <2> QED
    BY <1>0, <1>2, <1>3, <2>1, <2>2, <2>3, <2>4, <2>5, ThreadStep
<1>6. os' \in [label : Label, caps : Caps]
  <2>1. Unlabeled \in Label
    BY DEF Unlabeled, Label
  <2> QED
    BY <1>0, <2>1 DEF TypeOK, sysPassLabels
<1>7. TypeOK'
  BY <1>0, <1>2, <1>3, <1>6 DEF TypeOK, Stacks
<1>8. KernelSound'
  <2>1. CASE ~Cur(t).RESTORE_LABELS
    <3>1. ASSUME NEW d \in 1..Depth(t), stack[t][d].RESTORE_LABELS
          PROVE  \E k \in 1..Len(s) : s[k].RESTORE_LABELS
      <4>1. d # Depth(t)
        BY <1>1, <2>1, <3>1
      <4>2. d \in 1..Len(s) /\ d \in 1..(Depth(t) - 1)
        BY <1>1, <1>2, <4>1
      <4> QED
        BY <1>2, <3>1, <4>2
    <3> QED
      BY <1>0, <1>2, <2>1, <3>1, KernelStep
  <2>2. CASE Cur(t).RESTORE_LABELS
    <3>1. os' = IF MayReplace(Unlabeled) THEN [os EXCEPT !.label = Unlabeled] ELSE os
      BY <1>0, <2>2 DEF sysPassLabels
    <3>2. os \in [label : Label, caps : Caps]
      BY DEF TypeOK
    <3>3. CASE MayReplace(Unlabeled)
      <4>1. os'.label = Unlabeled /\ os'.caps = os.caps
        BY <3>1, <3>2, <3>3
      <4>2. KernelTags'
        BY <1>0, <4>1 DEF KernelSound, KernelTags, Unlabeled
      <4> QED
        BY <4>1, <4>2 DEF KernelSound, NoLeftoverLabel
    <3>4. CASE ~MayReplace(Unlabeled)
      <4>1. os' = os
        BY <3>1, <3>4
      <4>2. ~(os.label.sec \cup os.label.int \subseteq os.caps.minus)
        BY <3>4 DEF MayReplace, Unlabeled
      <4>3. KernelTags'
        BY <1>0, <4>1 DEF KernelSound, KernelTags
      <4> QED
        BY <4>1, <4>2, <4>3 DEF KernelSound, NoLeftoverLabel
    <3> QED
      BY <3>3, <3>4
  <2> QED
    BY <2>1, <2>2
<1>9. HeapSound'
  BY <1>0, <1>4, HeapStep
<1> QED
  BY <1>5, <1>7, <1>8, <1>9

\* The kernel takes over the labels of the current region, which will restore
\* them.
LEMMA OSpassKeeps ==
    ASSUME IInv, NEW t \in Threads, OSpassCurrentLabels(t)
    PROVE  IInv'
<1> USE DEF IInv
<1> DEFINE e == [Cur(t) EXCEPT !.RESTORE_LABELS = TRUE]
           new == [sec |-> Cur(t).sec, int |-> Cur(t).int]
<1>0. /\ inSecureRegion[t] /\ MayReplace(new) /\ sysPassLabels(new) /\ SetCur(t, e)
      /\ UNCHANGED <<inSecureRegion, common, heap, nextTag, granted, missed, ever, dirt, escaped>>
  BY DEF OSpassCurrentLabels
<1>1. /\ Cur(t) \in SRState /\ EntrySound(Cur(t), Owned[t], common, ever[t], Released)
      /\ stack[t] \in Stacks /\ Depth(t) \in Nat /\ Depth(t) >= 1 /\ Depth(t) = Len(stack[t])
  BY CurrentState, CurSound
<1>2. /\ e \in SRState /\ e.RESTORE_LABELS
      /\ EntrySound(e, Owned[t], common, ever[t], Released)
  BY <1>1 DEF SRState, EntrySound
<1>3. new \in Label
  BY <1>1 DEF SRState, Label
<1>4. os' = [os EXCEPT !.label = new] /\ os \in [label : Label, caps : Caps]
  BY <1>0 DEF sysPassLabels, TypeOK
<1>5. os' \in [label : Label, caps : Caps] /\ os'.label = new /\ os'.caps = os.caps
  BY <1>3, <1>4
<1>6. /\ stack' \in [Threads -> Seq(SRState) \ {<<>>}] /\ RegionsSound'
  BY <1>0, <1>2, TopStep
<1>7. TypeOK'
  BY <1>0, <1>5, <1>6 DEF TypeOK
<1>8. KernelSound'
  <2>1. new.sec \cup new.int \subseteq os.label.sec \cup os.label.int \cup os.caps.plus
    BY <1>0 DEF MayReplace
  <2>2. KernelTags'
    BY <1>0, <1>5, <2>1 DEF KernelSound, KernelTags
  <2>3. stack'[t][Depth(t)].RESTORE_LABELS /\ Depth(t)' = Depth(t)
    <3>1. stack'[t] = [stack[t] EXCEPT ![Len(stack[t])] = e]
      BY <1>0, <1>1 DEF SetCur, TypeOK
    <3>2. Len(stack'[t]) = Len(stack[t]) /\ stack'[t][Len(stack[t])] = e
      BY <1>1, <1>2, <3>1, SetTop
    <3> QED
      BY <1>1, <1>2, <3>2 DEF Depth
  <2>4. \E d \in 1..Depth(t)' : stack'[t][d].RESTORE_LABELS
    BY <1>1, <2>3
  <2> QED
    BY <2>2, <2>4 DEF KernelSound, NoLeftoverLabel
<1>9. Released' = Released
  BY <1>0 DEF Released, Removable
<1>10. HeapSound'
  BY <1>0, <1>9, HeapStep
<1> QED
  BY <1>6, <1>7, <1>8, <1>10

-----------------------------------------------------------------------------
(* Capabilities.                                                           *)

\* A step that changes the capabilities in some of the states of t and leaves
\* the rest of them alone.
LEMMA CapsStep ==
    ASSUME TypeOK, RegionsSound, NEW t \in Threads, NEW s \in Stacks, Len(s) = Depth(t),
           stack' = [stack EXCEPT ![t] = s], UNCHANGED <<inSecureRegion, escaped>>,
           \A d \in 1..Depth(t) : /\ s[d].sec = stack[t][d].sec
                                  /\ s[d].RESTORE_LABELS = stack[t][d].RESTORE_LABELS,
           \A u \in Threads \ {t} : Owned'[u] = Owned[u],
           \A u \in Threads : CapsIn(ever[u], ever'[u]),
           CapsIn(common, common'), CapsIn(Owned'[t], ever'[t]),
           \A d \in 1..Depth(t) : EntrySound(s[d], Owned'[t], common', ever'[t], Released')
    PROVE  /\ stack' \in [Threads -> Seq(SRState) \ {<<>>}] /\ RegionsSound'
           /\ KernelSound /\ UNCHANGED <<os, nextTag>> => KernelSound'
<1>1. stack' \in [Threads -> Seq(SRState) \ {<<>>}]
  BY DEF TypeOK, Stacks
<1>2. /\ inSecureRegion'[t] => Len(s) >= 2
      /\ Bare(stack[t], inSecureRegion[t]) /\ Depth(t) = Len(stack[t])
  BY DEF RegionsSound, FlagMeansRegion, OutsideUnlabeled, Depth
<1>3. Bare(s, inSecureRegion'[t])
  BY <1>2 DEF Bare
<1>4. RegionsSound'
  BY <1>2, <1>3, ThreadStep
<1>5. ASSUME KernelSound, UNCHANGED <<os, nextTag>> PROVE KernelSound'
  <2>1. (\E d \in 1..Depth(t) : stack[t][d].RESTORE_LABELS)
            => \E d \in 1..Len(s) : s[d].RESTORE_LABELS
    OBVIOUS
  <2> QED
    BY <1>5, <2>1, KernelStep
<1> QED
  BY <1>1, <1>4, <1>5

\* A right leaves states of the stack, and leaves the thread's own rights only if
\* it leaves every state.
LEMMA LoseKeeps ==
    ASSUME IInv, NEW t \in Threads, NEW label \in SUBSET Tags, NEW type, NEW depths,
           Lose(t, label, type, depths), 1 \in depths => 1..Depth(t) \subseteq depths,
           granted' \in [Threads -> Caps], missed' \in [Threads -> Caps], Owned[t] \in Caps,
           Owned'[t] = IF 1 \in depths THEN Without(Owned[t], label, type) ELSE Owned[t],
           \A u \in Threads \ {t} : Owned'[u] = Owned[u]
    PROVE  IInv'
<1> USE DEF IInv
<1> DEFINE s == [d \in DOMAIN stack[t] |->
                   IF d \in depths THEN Without(stack[t][d], label, type) ELSE stack[t][d]]
<1>0. /\ stack' = [stack EXCEPT ![t] = s]
      /\ UNCHANGED <<inSecureRegion, common, heap, os, nextTag, ever, dirt, escaped>>
  BY DEF Lose
<1>1. /\ stack[t] \in Stacks /\ Depth(t) = Len(stack[t]) /\ DOMAIN stack[t] = 1..Depth(t)
      /\ \A d \in 1..Depth(t) : stack[t][d] \in SRState
  BY CurrentState
<1>2. \A d \in 1..Depth(t) :
          s[d] = IF d \in depths THEN Without(stack[t][d], label, type) ELSE stack[t][d]
  BY <1>1
<1>3. \A d \in 1..Depth(t) :
          /\ s[d] \in SRState /\ s[d].sec = stack[t][d].sec /\ s[d].int = stack[t][d].int
          /\ s[d].held = stack[t][d].held
          /\ s[d].RESTORE_LABELS = stack[t][d].RESTORE_LABELS
          /\ s[d].plus \subseteq stack[t][d].plus /\ s[d].minus \subseteq stack[t][d].minus
          /\ d \in depths /\ "plus" \in type => s[d].plus \cap label = {}
          /\ d \in depths /\ "minus" \in type => s[d].minus \cap label = {}
  <2> SUFFICES ASSUME NEW d \in 1..Depth(t), d \in depths
               PROVE  LET w == Without(stack[t][d], label, type) IN
                      /\ w \in SRState /\ w.sec = stack[t][d].sec /\ w.int = stack[t][d].int
                      /\ w.held = stack[t][d].held
                      /\ w.RESTORE_LABELS = stack[t][d].RESTORE_LABELS
                      /\ w.plus \subseteq stack[t][d].plus
                      /\ w.minus \subseteq stack[t][d].minus
                      /\ "plus" \in type => w.plus \cap label = {}
                      /\ "minus" \in type => w.minus \cap label = {}
    BY <1>1, <1>2
  <2>1. stack[t][d] \in SRState
    BY <1>1
  <2> DEFINE e == stack[t][d]
             w == Without(e, label, type)
  <2>2. /\ w \in SRState /\ w.sec = e.sec /\ w.int = e.int /\ w.held = e.held
        /\ w.RESTORE_LABELS = e.RESTORE_LABELS
        /\ w.plus = IF "plus" \in type THEN e.plus \ label ELSE e.plus
        /\ w.minus = IF "minus" \in type THEN e.minus \ label ELSE e.minus
    BY <2>1 DEF Without, SRState
  <2> HIDE DEF w
  <2>3. /\ w.plus \subseteq e.plus /\ w.minus \subseteq e.minus
        /\ "plus" \in type => w.plus \cap label = {}
        /\ "minus" \in type => w.minus \cap label = {}
    BY <2>2
  <2> QED
    BY <2>2, <2>3 DEF w
<1>4. s \in Stacks /\ Len(s) = Depth(t)
  <2>1. DOMAIN s = DOMAIN stack[t] /\ s = [d \in DOMAIN stack[t] |-> s[d]]
    OBVIOUS
  <2>2. \A d \in DOMAIN stack[t] : s[d] \in SRState
    BY <1>1, <1>3
  <2> HIDE DEF s
  <2> QED
    BY <1>1, <2>1, <2>2, Mapped
<1> HIDE DEF s
<1>5. /\ Owned[t] \in Caps
      /\ Owned'[t] = IF 1 \in depths THEN Without(Owned[t], label, type) ELSE Owned[t]
      /\ \A u \in Threads \ {t} : Owned'[u] = Owned[u]
  OBVIOUS
<1>6. /\ Owned'[t] \in Caps /\ CapsIn(Owned'[t], Owned[t])
      /\ "plus" \in type => Owned[t].plus \subseteq Owned'[t].plus \cup label
      /\ "minus" \in type => Owned[t].minus \subseteq Owned'[t].minus \cup label
      /\ "plus" \notin type \/ 1 \notin depths => Owned'[t].plus = Owned[t].plus
      /\ "minus" \notin type \/ 1 \notin depths => Owned'[t].minus = Owned[t].minus
  <2>1. CASE 1 \in depths
    <3> DEFINE c == Owned[t]
               w == Without(c, label, type)
    <3>1. /\ w \in Caps /\ CapsIn(w, c)
          /\ w.plus = IF "plus" \in type THEN c.plus \ label ELSE c.plus
          /\ w.minus = IF "minus" \in type THEN c.minus \ label ELSE c.minus
      BY <1>5 DEF Without, Caps, CapsIn
    <3>2. Owned'[t] = w
      BY <1>5, <2>1
    <3> HIDE DEF w
    <3> QED
      BY <2>1, <3>1, <3>2
  <2>2. CASE 1 \notin depths
    <3>1. Owned'[t] = Owned[t]
      BY <1>5, <2>2
    <3> QED
      BY <1>5, <3>1, CapsInReflexive
  <2> QED
    BY <2>1, <2>2
<1>7. Released' = Released
  BY <1>0 DEF Released, Removable
<1>8. ASSUME NEW d \in 1..Depth(t)
      PROVE  EntrySound(s[d], Owned'[t], common', ever'[t], Released')
  <2>1. EntrySound(stack[t][d], Owned[t], common, ever[t], Released)
    BY DEF RegionsSound, EntriesSound
  <2>2. 1 \in depths => d \in depths
    OBVIOUS
  <2>3. s[d].plus \subseteq Owned'[t].plus \cup common.plus
    BY <1>3, <1>6, <2>1, <2>2 DEF EntrySound
  <2>4. s[d].minus \subseteq Owned'[t].minus \cup common.minus
    BY <1>3, <1>6, <2>1, <2>2 DEF EntrySound
  <2> QED
    BY <1>0, <1>3, <1>7, <2>1, <2>3, <2>4 DEF EntrySound
<1>9. /\ stack' \in [Threads -> Seq(SRState) \ {<<>>}] /\ RegionsSound' /\ KernelSound'
  <2>1. CapsIn(Owned'[t], ever'[t]) /\ CapsIn(common, common')
        /\ \A u \in Threads : CapsIn(ever[u], ever'[u])
    BY <1>0, <1>6, CapsInReflexive DEF RegionsSound, DropsRecorded, CapsIn
  <2>2. \A d \in 1..Depth(t) : /\ s[d].sec = stack[t][d].sec
                               /\ s[d].RESTORE_LABELS = stack[t][d].RESTORE_LABELS
    BY <1>3
  <2> QED
    BY <1>0, <1>4, <1>5, <1>8, <2>1, <2>2, CapsStep
<1>10. TypeOK'
  BY <1>0, <1>5, <1>6, <1>9 DEF TypeOK
<1>11. HeapSound'
  BY <1>0, <1>7, HeapStep
<1> QED
  BY <1>9, <1>10, <1>11

\* Outside a region, and in the first region of a thread, a dropped capability
\* leaves the whole stack; in a nested region the thread's own state keeps it.
LEMMA DropKeeps ==
    ASSUME IInv, NEW t \in Threads, NEW label \in GiveArgs, NEW type \in CapTypes,
           dropCapability(t, label, type) \/ dropThreadCapability(t, label, type)
    PROVE  IInv'
<1>1. label \in SUBSET Tags /\ TypeOK
  BY SecureRegionAssumption DEF IInv
<1>2. Depth(t) \in Nat /\ Depth(t) >= 1 /\ (inSecureRegion[t] => Depth(t) >= 2)
  BY CurrentState DEF IInv, RegionsSound, FlagMeansRegion
<1>3. CASE dropThreadCapability(t, label, type)
  <2> DEFINE depths == IF inSecureRegion[t] THEN {Depth(t) - 1, Depth(t)} ELSE {Depth(t)}
  <2>1. Lose(t, label, type, depths) /\ GiveUp(t, label, type)
    BY <1>3 DEF dropThreadCapability
  <2>2. (1 \in depths => 1..Depth(t) \subseteq depths) /\ (1 \in depths <=> OwnNear(t))
    BY <1>2 DEF OwnNear
  <2> HIDE DEF depths
  <2> QED
    BY <1>1, <2>1, <2>2, OwnedGivenUp, LoseKeeps
<1>4. CASE dropCapability(t, label, type) /\ Depth(t) = 1
  <2>1. Lose(t, label, type, {1}) /\ GiveUp(t, label, type)
    BY <1>4 DEF dropCapability
  <2>2. 1..Depth(t) \subseteq {1} /\ 1 \in {1} /\ OwnNear(t)
    BY <1>4 DEF OwnNear
  <2> QED
    BY <1>1, <2>1, <2>2, OwnedGivenUp, LoseKeeps
<1>5. CASE dropCapability(t, label, type) /\ Depth(t) # 1
  <2>1. Lose(t, label, type, {Depth(t)}) /\ UNCHANGED <<granted, missed>>
    BY <1>5 DEF dropCapability
  <2>2. 1 \notin {Depth(t)}
    BY <1>5
  <2>3. Owned' = Owned
    BY <2>1, OwnedKept
  <2>4. /\ granted' \in [Threads -> Caps] /\ missed' \in [Threads -> Caps]
        /\ granted[t] \in Caps /\ missed[t] \in Caps
    BY <1>1, <2>1 DEF TypeOK
  <2>5. Owned[t] \in Caps
    BY <2>4 DEF Owned, Caps
  <2> QED
    BY <1>1, <2>1, <2>2, <2>3, <2>4, <2>5, LoseKeeps
<1> QED
  BY <1>3, <1>4, <1>5

\* A new tag, and a right for it, for states of the stack, for the thread, the
\* group and the kernel task.
LEMMA CreateKeeps ==
    ASSUME IInv, NEW t \in Threads, NEW type \in CapTypes, NEW region \in Regions,
           createCapability(t, type, region)
    PROVE  IInv'
<1> USE DEF IInv
<1> DEFINE tag == {nextTag}
           depths == IF inSecureRegion[t] /\ region = "REGION_SELF"
                     THEN {Depth(t) - 1, Depth(t)} ELSE {Depth(t)}
           s == [d \in DOMAIN stack[t] |->
                   IF d \in depths THEN With(stack[t][d], tag, type) ELSE stack[t][d]]
<1>0. /\ nextTag <= MaxTag /\ nextTag' = nextTag + 1
      /\ os' = IF region = "REGION_NONE" THEN os
               ELSE [os EXCEPT !.caps = With(os.caps, tag, type)]
      /\ stack' = [stack EXCEPT ![t] = s]
      /\ common' = IF region = "REGION_GROUP" THEN With(common, tag, type) ELSE common
      /\ granted' = [granted EXCEPT ![t] = With(granted[t], tag, type)]
      /\ ever' = [ever EXCEPT ![t] = With(ever[t], tag, type)]
      /\ UNCHANGED <<inSecureRegion, heap, missed, dirt, escaped>>
  BY DEF createCapability
<1>1. /\ nextTag \in Nat /\ tag \subseteq Tags /\ nextTag' \in 1..(MaxTag + 1)
  BY <1>0, SecureRegionAssumption DEF TypeOK, Tags
<1>2. /\ stack[t] \in Stacks /\ Depth(t) = Len(stack[t]) /\ DOMAIN stack[t] = 1..Depth(t)
      /\ \A d \in 1..Depth(t) : stack[t][d] \in SRState
  BY CurrentState
<1>3. \A d \in 1..Depth(t) :
          s[d] = IF d \in depths THEN With(stack[t][d], tag, type) ELSE stack[t][d]
  BY <1>2
<1> HIDE DEF depths, tag
<1>4. \A d \in 1..Depth(t) :
          /\ s[d] \in SRState /\ s[d].sec = stack[t][d].sec /\ s[d].int = stack[t][d].int
          /\ s[d].held = stack[t][d].held
          /\ s[d].RESTORE_LABELS = stack[t][d].RESTORE_LABELS
          /\ s[d].plus \subseteq stack[t][d].plus \cup (IF "plus" \in type THEN tag ELSE {})
          /\ s[d].minus \subseteq stack[t][d].minus \cup (IF "minus" \in type THEN tag ELSE {})
  <2> SUFFICES ASSUME NEW d \in 1..Depth(t), d \in depths
               PROVE  LET e == stack[t][d]
                          w == With(e, tag, type)
                      IN  /\ w \in SRState /\ w.sec = e.sec /\ w.int = e.int
                          /\ w.held = e.held /\ w.RESTORE_LABELS = e.RESTORE_LABELS
                          /\ w.plus \subseteq e.plus \cup (IF "plus" \in type THEN tag ELSE {})
                          /\ w.minus \subseteq e.minus \cup (IF "minus" \in type THEN tag ELSE {})
    BY <1>2, <1>3
  <2>1. stack[t][d] \in SRState
    BY <1>2
  <2> QED
    BY <1>1, <2>1 DEF With, SRState
<1>5. s \in Stacks /\ Len(s) = Depth(t)
  <2>1. DOMAIN s = DOMAIN stack[t] /\ s = [d \in DOMAIN stack[t] |-> s[d]]
    OBVIOUS
  <2>2. \A d \in DOMAIN stack[t] : s[d] \in SRState
    BY <1>2, <1>4
  <2> HIDE DEF s
  <2> QED
    BY <1>2, <2>1, <2>2, Mapped
<1> HIDE DEF s
<1>6. ASSUME NEW c \in Caps
      PROVE  LET w == With(c, tag, type) IN
             /\ w \in Caps /\ CapsIn(c, w)
             /\ c.plus \cup (IF "plus" \in type THEN tag ELSE {}) = w.plus
             /\ c.minus \cup (IF "minus" \in type THEN tag ELSE {}) = w.minus
  BY <1>1 DEF With, Caps, CapsIn
<1>a. /\ granted' \in [Threads -> Caps] /\ Owned[t] \in Caps
      /\ Owned'[t] = With(Owned[t], tag, type)
      /\ \A u \in Threads \ {t} : Owned'[u] = Owned[u]
  BY <1>0, <1>1, OwnedConveyed
<1>7. /\ granted' \in [Threads -> Caps] /\ ever' \in [Threads -> Caps] /\ common' \in Caps
      /\ Owned[t] \in Caps /\ ever[t] \in Caps
      /\ Owned'[t] = With(Owned[t], tag, type) /\ ever'[t] = With(ever[t], tag, type)
      /\ \A u \in Threads \ {t} : Owned'[u] = Owned[u] /\ ever'[u] = ever[u]
      /\ CapsIn(common, common') /\ os.caps \in Caps
  BY <1>0, <1>6, <1>a, CapsInReflexive DEF TypeOK
<1>8. /\ \A u \in Threads : CapsIn(ever[u], ever'[u])
      /\ CapsIn(Owned[t], Owned'[t])
  BY <1>6, <1>7, CapsInReflexive
<1>9. CapsIn(Owned'[t], ever'[t])
  <2>1. CapsIn(Owned[t], ever[t])
    BY DEF RegionsSound, DropsRecorded
  <2> QED
    BY <1>7, <2>1 DEF With, CapsIn, Caps
<1>10. Released \subseteq Released'
  BY <1>0, <1>7, <1>8, ReleasedGrows
<1>11. ASSUME NEW d \in 1..Depth(t)
       PROVE  EntrySound(s[d], Owned'[t], common', ever'[t], Released')
  <2>1. EntrySound(stack[t][d], Owned[t], common, ever[t], Released)
    BY DEF RegionsSound, EntriesSound
  <2>2. EntrySound(stack[t][d], Owned'[t], common', ever'[t], Released')
    BY <1>7, <1>8, <1>10, <2>1, EntryStaysSound
  <2>3. /\ Owned'[t].plus = Owned[t].plus \cup (IF "plus" \in type THEN tag ELSE {})
        /\ Owned'[t].minus = Owned[t].minus \cup (IF "minus" \in type THEN tag ELSE {})
    BY <1>6, <1>7
  <2>4. /\ s[d].plus \subseteq Owned'[t].plus \cup common'.plus
        /\ s[d].minus \subseteq Owned'[t].minus \cup common'.minus
    BY <1>4, <2>2, <2>3 DEF EntrySound
  <2> QED
    BY <1>4, <2>2, <2>4 DEF EntrySound
<1>12. /\ stack' \in [Threads -> Seq(SRState) \ {<<>>}] /\ RegionsSound'
  <2>1. \A d \in 1..Depth(t) : /\ s[d].sec = stack[t][d].sec
                               /\ s[d].RESTORE_LABELS = stack[t][d].RESTORE_LABELS
    BY <1>4
  <2> QED
    BY <1>0, <1>5, <1>7, <1>8, <1>9, <1>11, <2>1, CapsStep
<1>13. /\ os' \in [label : Label, caps : Caps] /\ os'.label = os.label
       /\ os'.caps.plus \subseteq os.caps.plus \cup tag
       /\ os'.caps.minus \subseteq os.caps.minus \cup tag
  BY <1>0, <1>6, <1>7 DEF TypeOK
<1>14. TypeOK'
  BY <1>0, <1>1, <1>7, <1>12, <1>13 DEF TypeOK
<1>15. KernelSound'
  <2>1. \A g \in os.label.sec \cup os.label.int \cup os.caps.plus : g < nextTag /\ g \in Nat
    BY SecureRegionAssumption DEF KernelSound, KernelTags, TypeOK, Label, Caps, Tags
  <2>2. KernelTags'
    <3> SUFFICES ASSUME NEW g \in os'.label.sec \cup os'.label.int \cup os'.caps.plus
                 PROVE  g < nextTag'
      BY DEF KernelTags
    <3>1. g \in os.label.sec \cup os.label.int \cup os.caps.plus \/ g = nextTag
      BY <1>13 DEF tag
    <3> QED
      BY <1>0, <1>1, <2>1, <3>1
  <2>3. nextTag \notin os.label.sec \cup os.label.int
    BY <1>1, <2>1
  <2>4. os'.label.sec \cup os'.label.int \subseteq os'.caps.minus
          => os.label.sec \cup os.label.int \subseteq os.caps.minus
    BY <1>13, <2>3 DEF tag
  <2>5. ASSUME NEW u \in Threads, NEW d \in 1..Depth(u), stack[u][d].RESTORE_LABELS
        PROVE  \E v \in Threads : \E k \in 1..Depth(v)' : stack'[v][k].RESTORE_LABELS
    <3>1. Depth(u)' = Depth(u) /\ stack'[u][d].RESTORE_LABELS
      <4>1. CASE u = t
        BY <1>0, <1>4, <1>5, <2>5, <4>1 DEF TypeOK, Depth
      <4>2. CASE u # t
        BY <1>0, <2>5, <4>2 DEF TypeOK, Depth
      <4> QED
        BY <4>1, <4>2
    <3>2. d \in 1..Depth(u)'
      BY <3>1
    <3> QED
      BY <3>1, <3>2
  <2>6. NoLeftoverLabel'
    BY <1>13, <2>4, <2>5 DEF KernelSound, NoLeftoverLabel
  <2> QED
    BY <2>2, <2>6 DEF KernelSound
<1>16. HeapSound'
  BY <1>0, <1>10, HeapStep
<1> QED
  BY <1>12, <1>14, <1>15, <1>16

\* The trapdoor conveys what it gives.
LEMMA InitializeKeeps ==
    ASSUME IInv, NEW t \in Threads, NEW cap \in GiveArgs, NEW type \in CapTypes,
           initializeThreadCapability(t, cap, type)
    PROVE  IInv'
<1> USE DEF IInv
<1> DEFINE e == With(Without(Cur(t), Tags, type), cap, type)
           s == [stack[t] EXCEPT ![Len(stack[t])] = e]
<1>0. /\ SetCur(t, e)
      /\ granted' = [granted EXCEPT ![t] = With(granted[t], cap, type)]
      /\ ever' = [ever EXCEPT ![t] = With(ever[t], cap, type)]
      /\ UNCHANGED <<inSecureRegion, common, heap, os, nextTag, missed, dirt, escaped>>
  BY DEF initializeThreadCapability
<1>1. cap \subseteq Tags
  BY SecureRegionAssumption
<1>2. /\ stack[t] \in Stacks /\ Depth(t) \in Nat /\ Depth(t) >= 1 /\ Depth(t) = Len(stack[t])
      /\ Cur(t) = stack[t][Depth(t)] /\ Cur(t) \in SRState
  BY CurrentState
<1>3. /\ e \in SRState /\ e.sec = Cur(t).sec /\ e.int = Cur(t).int /\ e.held = Cur(t).held
      /\ e.RESTORE_LABELS = Cur(t).RESTORE_LABELS
      /\ e.plus \subseteq Cur(t).plus \cup (IF "plus" \in type THEN cap ELSE {})
      /\ e.minus \subseteq Cur(t).minus \cup (IF "minus" \in type THEN cap ELSE {})
  BY <1>1, <1>2 DEF With, Without, SRState
<1> HIDE DEF e
<1>4. /\ s \in Stacks /\ Len(s) = Depth(t)
      /\ \A d \in 1..Depth(t) : s[d] = IF d = Depth(t) THEN e ELSE stack[t][d]
  BY <1>2, <1>3, SetTop
<1>5. stack' = [stack EXCEPT ![t] = s]
  BY <1>0 DEF SetCur, Depth
<1> HIDE DEF s
<1>6. ASSUME NEW c \in Caps
      PROVE  LET w == With(c, cap, type) IN
             /\ w \in Caps /\ CapsIn(c, w)
             /\ c.plus \cup (IF "plus" \in type THEN cap ELSE {}) = w.plus
             /\ c.minus \cup (IF "minus" \in type THEN cap ELSE {}) = w.minus
  BY <1>1 DEF With, Caps, CapsIn
<1>a. /\ granted' \in [Threads -> Caps] /\ Owned[t] \in Caps
      /\ Owned'[t] = With(Owned[t], cap, type)
      /\ \A u \in Threads \ {t} : Owned'[u] = Owned[u]
  BY <1>0, <1>1, OwnedConveyed
<1>7. /\ granted' \in [Threads -> Caps] /\ ever' \in [Threads -> Caps]
      /\ Owned[t] \in Caps /\ ever[t] \in Caps
      /\ Owned'[t] = With(Owned[t], cap, type) /\ ever'[t] = With(ever[t], cap, type)
      /\ \A u \in Threads \ {t} : Owned'[u] = Owned[u] /\ ever'[u] = ever[u]
      /\ CapsIn(common, common')
  BY <1>0, <1>6, <1>a, CapsInReflexive DEF TypeOK
<1>8. /\ \A u \in Threads : CapsIn(ever[u], ever'[u])
      /\ CapsIn(Owned[t], Owned'[t])
  BY <1>6, <1>7, CapsInReflexive
<1>9. CapsIn(Owned'[t], ever'[t])
  <2>1. CapsIn(Owned[t], ever[t])
    BY DEF RegionsSound, DropsRecorded
  <2> QED
    BY <1>7, <2>1 DEF With, CapsIn, Caps
<1>10. Released \subseteq Released'
  BY <1>0, <1>7, <1>8, ReleasedGrows
<1>11. ASSUME NEW d \in 1..Depth(t)
       PROVE  EntrySound(s[d], Owned'[t], common', ever'[t], Released')
  <2>1. EntrySound(stack[t][d], Owned[t], common, ever[t], Released)
    BY DEF RegionsSound, EntriesSound
  <2>2. EntrySound(stack[t][d], Owned'[t], common', ever'[t], Released')
    BY <1>7, <1>8, <1>10, <2>1, EntryStaysSound
  <2>3. /\ Owned'[t].plus = Owned[t].plus \cup (IF "plus" \in type THEN cap ELSE {})
        /\ Owned'[t].minus = Owned[t].minus \cup (IF "minus" \in type THEN cap ELSE {})
    BY <1>6, <1>7
  <2>4. CASE d = Depth(t)
    <3>1. /\ e.plus \subseteq Owned'[t].plus \cup common'.plus
          /\ e.minus \subseteq Owned'[t].minus \cup common'.minus
      BY <1>2, <1>3, <2>2, <2>3, <2>4 DEF EntrySound
    <3>2. EntrySound(e, Owned'[t], common', ever'[t], Released')
      BY <1>2, <1>3, <2>2, <2>4, <3>1 DEF EntrySound
    <3> QED
      BY <1>4, <2>4, <3>2
  <2>5. CASE d # Depth(t)
    BY <1>4, <2>2, <2>5
  <2> QED
    BY <2>4, <2>5
<1>12. /\ stack' \in [Threads -> Seq(SRState) \ {<<>>}] /\ RegionsSound' /\ KernelSound'
  <2>1. \A d \in 1..Depth(t) : /\ s[d].sec = stack[t][d].sec
                               /\ s[d].RESTORE_LABELS = stack[t][d].RESTORE_LABELS
    BY <1>2, <1>3, <1>4
  <2> QED
    BY <1>0, <1>4, <1>5, <1>7, <1>8, <1>9, <1>11, <2>1, CapsStep
<1>13. TypeOK'
  BY <1>0, <1>7, <1>12 DEF TypeOK
<1>14. HeapSound'
  BY <1>0, <1>10, HeapStep
<1> QED
  BY <1>12, <1>13, <1>14

-----------------------------------------------------------------------------
(* Objects.                                                                *)

\* The barrier of a read lets only data in that is behind the region's label.
LEMMA ReadIn ==
    ASSUME IInv, NEW t \in Threads, NEW o \in Objects, readBarrier(t, o)
    PROVE  dirt[o] \ Released \subseteq Cur(t).sec
<1>1. dirt[o] \ Released \subseteq heap[o].sec /\ (~heap[o].labeled => heap[o].sec = {})
  BY DEF IInv, HeapSound, Contained, OrdinaryObjects, Released
<1> QED
  BY <1>1 DEF readBarrier, checkAllowed

\* The barrier of a write lets only data out that is behind the object's label.
LEMMA WriteOut ==
    ASSUME IInv, NEW t \in Threads, NEW o \in Objects, writeBarrier(t, o)
    PROVE  Cur(t).held \ Released \subseteq heap[o].sec
<1>1. Cur(t).held \ Released \subseteq Cur(t).sec /\ (~inSecureRegion[t] => Cur(t).sec = {})
  BY CurSound DEF IInv, EntrySound
<1> QED
  BY <1>1 DEF writeBarrier, checkAllowed

LEMMA ReadKeeps ==
    ASSUME IInv, NEW t \in Threads, NEW o \in Objects, Read(t, o)
    PROVE  IInv'
<1> DEFINE e == [Cur(t) EXCEPT !.held = @ \cup dirt[o]]
<1>1. dirt[o] \ Released \subseteq Cur(t).sec /\ dirt[o] \subseteq Tags
  BY ReadIn DEF Read, IInv, TypeOK
<1>2. Cur(t) \in SRState /\ EntrySound(Cur(t), Owned[t], common, ever[t], Released)
  BY CurrentState, CurSound DEF IInv
<1>3. /\ e \in SRState /\ EntrySound(e, Owned[t], common, ever[t], Released)
      /\ e.sec = Cur(t).sec /\ e.RESTORE_LABELS = Cur(t).RESTORE_LABELS
  BY <1>1, <1>2 DEF SRState, EntrySound
<1> QED
  BY <1>3, OnlyTopKeeps DEF Read

LEMMA SetAllocationKeeps ==
    ASSUME IInv, NEW t \in Threads,
           NEW alloc \in [given : BOOLEAN, sec : SUBSET Tags, int : SUBSET Tags],
           setAllocationLabels(t, alloc)
    PROVE  IInv'
<1> DEFINE e == [Cur(t) EXCEPT !.alloc = alloc]
<1>1. Cur(t) \in SRState /\ EntrySound(Cur(t), Owned[t], common, ever[t], Released)
  BY CurrentState, CurSound DEF IInv
<1>2. /\ e \in SRState /\ EntrySound(e, Owned[t], common, ever[t], Released)
      /\ e.sec = Cur(t).sec /\ e.RESTORE_LABELS = Cur(t).RESTORE_LABELS
  BY <1>1 DEF SRState, EntrySound
<1> QED
  BY <1>2, OnlyTopKeeps DEF setAllocationLabels

\* The part of the invariant that is not about the heap, when no stack changes.
LEMMA SameStacks ==
    ASSUME IInv, UNCHANGED <<stack, inSecureRegion, common, os, nextTag, granted, missed, ever>>,
           escaped \subseteq escaped'
    PROVE  RegionsSound' /\ KernelSound' /\ Released \subseteq Released'
<1>a. Owned' = Owned
  BY OwnedKept
<1> USE <1>a
<1> USE DEF IInv
<1>1. \A u \in Threads : Depth(u)' = Depth(u)
  BY DEF Depth
<1>2. Released \subseteq Released'
  BY DEF Released, Removable
<1>3. KernelSound'
  BY <1>1 DEF KernelSound, KernelTags, NoLeftoverLabel
<1>4. FlagMeansRegion' /\ OutsideUnlabeled' /\ DropsRecorded'
  BY <1>1 DEF RegionsSound, FlagMeansRegion, OutsideUnlabeled, Bare, DropsRecorded, CapsIn
<1>5. EntriesSound'
  <2> SUFFICES ASSUME NEW u \in Threads, NEW d \in 1..Depth(u)
               PROVE  EntrySound(stack[u][d], Owned[u], common, ever[u], Released')
    BY <1>1 DEF EntriesSound, EntrySound
  <2>1. EntrySound(stack[u][d], Owned[u], common, ever[u], Released)
    BY DEF RegionsSound, EntriesSound
  <2> QED
    BY <1>2, <2>1 DEF EntrySound
<1> QED
  BY <1>2, <1>3, <1>4, <1>5 DEF RegionsSound

LEMMA WriteKeeps ==
    ASSUME IInv, NEW t \in Threads, NEW o \in Objects, Write(t, o)
    PROVE  IInv'
<1> USE DEF IInv
<1>0. /\ heap[o].used /\ dirt' = [dirt EXCEPT ![o] = dirt[o] \cup Cur(t).held]
      /\ UNCHANGED <<stack, inSecureRegion, common, heap, os, nextTag, granted, missed, ever, escaped>>
  BY DEF Write
<1>1. RegionsSound' /\ KernelSound' /\ Released' = Released
  BY <1>0, SameStacks DEF Released, Removable
<1>2. Cur(t).held \subseteq Tags /\ Cur(t).held \ Released \subseteq heap[o].sec
  BY CurrentState, WriteOut DEF Write, SRState
<1>3. /\ dirt'[o] = dirt[o] \cup Cur(t).held /\ dirt' \in [Objects -> SUBSET Tags]
      /\ \A p \in Objects \ {o} : dirt'[p] = dirt[p]
  BY <1>0, <1>2 DEF TypeOK
<1>4. TypeOK'
  BY <1>0, <1>3 DEF TypeOK
<1>5. OrdinaryObjects'
  BY <1>0, <1>3 DEF HeapSound, OrdinaryObjects
<1>6. Contained'
  <2> SUFFICES ASSUME NEW p \in Objects PROVE dirt'[p] \ Released \subseteq heap[p].sec
    BY <1>0, <1>1 DEF Contained, Released
  <2>1. dirt[p] \ Released \subseteq heap[p].sec
    BY DEF HeapSound, Contained, Released
  <2> QED
    BY <1>2, <1>3, <2>1
<1> QED
  BY <1>1, <1>4, <1>5, <1>6 DEF HeapSound

\* A step that makes one object, o, with data of the tags D.
LEMMA NewObject ==
    ASSUME IInv, NEW o \in Objects, NEW h \in Object, NEW D \in SUBSET Tags, h.used,
           heap' = [heap EXCEPT ![o] = h], dirt' = [dirt EXCEPT ![o] = D],
           Released \subseteq Released', D \ Released' \subseteq h.sec,
           ~h.labeled => h.sec = {}
    PROVE  /\ heap' \in [Objects -> Object] /\ dirt' \in [Objects -> SUBSET Tags]
           /\ HeapSound'
<1> USE DEF IInv
<1>1. /\ heap' \in [Objects -> Object] /\ dirt' \in [Objects -> SUBSET Tags]
      /\ heap'[o] = h /\ dirt'[o] = D
      /\ \A p \in Objects \ {o} : heap'[p] = heap[p] /\ dirt'[p] = dirt[p]
  BY DEF TypeOK
<1>2. OrdinaryObjects'
  BY <1>1 DEF HeapSound, OrdinaryObjects
<1>3. Contained'
  <2> SUFFICES ASSUME NEW p \in Objects PROVE dirt'[p] \ Released' \subseteq heap'[p].sec
    BY DEF Contained, Released
  <2>1. dirt[p] \ Released \subseteq heap[p].sec
    BY DEF HeapSound, Contained, Released
  <2> QED
    BY <1>1, <2>1
<1> QED
  BY <1>1, <1>2, <1>3 DEF HeapSound

\* What "new" makes in a region.
LEMMA NewInRegionType ==
    ASSUME NEW state \in SRState
    PROVE  LET h == NewInRegion(state) IN
           /\ h \in Object /\ h.used /\ (~h.labeled => h.sec = {})
           /\ state.alloc.given => h.sec = state.alloc.sec
<1>1. state.alloc \in [given : BOOLEAN, sec : SUBSET Tags, int : SUBSET Tags]
  BY DEF SRState
<1> QED
  BY <1>1 DEF NewInRegion, shouldAllocLabeledObjectInSR, Object, Label, SRState

LEMMA PlainType ==
    ASSUME NEW asked \in Label
    PROVE  LET h == Plain(asked) IN h \in Object /\ h.used /\ h.sec = {}
  BY DEF Plain, NoObject, Object, Unlabeled, Label

LEMMA NewKeeps ==
    ASSUME IInv, NEW t \in Threads, NEW o \in Objects, New(t, o)
    PROVE  IInv'
<1> USE DEF IInv
<1> DEFINE h == IF inSecureRegion[t] THEN NewInRegion(Cur(t)) ELSE Plain(Unlabeled)
<1>0. /\ ~heap[o].used /\ heap' = [heap EXCEPT ![o] = h]
      /\ UNCHANGED <<stack, inSecureRegion, common, os, nextTag, granted, missed, ever, dirt, escaped>>
  BY DEF New
<1>1. RegionsSound' /\ KernelSound' /\ Released \subseteq Released'
  BY <1>0, SameStacks
<1>2. Cur(t) \in SRState /\ Unlabeled \in Label
  BY CurrentState DEF Unlabeled, Label
<1>3. h \in Object /\ h.used /\ (~h.labeled => h.sec = {})
  BY <1>2, NewInRegionType, PlainType
<1> HIDE DEF h
<1>4. dirt[o] = {} /\ dirt' = [dirt EXCEPT ![o] = {}]
  BY <1>0 DEF HeapSound, OrdinaryObjects, TypeOK
<1>5. heap' \in [Objects -> Object] /\ HeapSound'
  BY <1>0, <1>1, <1>3, <1>4, NewObject
<1>6. TypeOK'
  BY <1>0, <1>5 DEF TypeOK
<1> QED
  BY <1>1, <1>5, <1>6

\* changeObjectLabel where the class clones itself with "new".
LEMMA ChangeByNewKeeps ==
    ASSUME IInv, NEW t \in Threads, NEW o \in Objects, NEW c \in Objects, NEW new \in Label,
           changeObjectLabelByNew(t, o, c, new)
    PROVE  IInv'
<1> USE DEF IInv
<1> DEFINE e == [Cur(t) EXCEPT !.held = @ \cup dirt[o]]
           state == [Cur(t) EXCEPT !.alloc = AllocLabels(new.sec, new.int)]
           h == NewInRegion(state)
           D == dirt[o] \cup Cur(t).held
<1>0. /\ inSecureRegion[t] /\ checkAllocLabels(state) /\ readBarrier(t, o)
      /\ heap' = [heap EXCEPT ![c] = h] /\ dirt' = [dirt EXCEPT ![c] = D] /\ SetCur(t, e)
      /\ UNCHANGED <<inSecureRegion, common, os, nextTag, granted, missed, ever, escaped>>
  BY DEF changeObjectLabelByNew
<1>1. dirt[o] \ Released \subseteq Cur(t).sec /\ dirt[o] \subseteq Tags
  BY <1>0, ReadIn DEF TypeOK
<1>2. Cur(t) \in SRState /\ EntrySound(Cur(t), Owned[t], common, ever[t], Released)
  BY CurrentState, CurSound
<1>3. /\ e \in SRState /\ EntrySound(e, Owned[t], common, ever[t], Released)
      /\ e.RESTORE_LABELS = Cur(t).RESTORE_LABELS
  BY <1>1, <1>2 DEF SRState, EntrySound
<1>4. /\ state \in SRState /\ state.alloc.given /\ state.alloc.sec = new.sec
      /\ state.sec = Cur(t).sec
  BY <1>2 DEF SRState, AllocLabels, Label
<1>5. Cur(t).sec \subseteq new.sec
  BY <1>0, <1>4 DEF checkAllocLabels, checkAllowed
<1> HIDE DEF e, state
<1>6. h \in Object /\ h.used /\ (~h.labeled => h.sec = {}) /\ h.sec = new.sec
  BY <1>4, NewInRegionType
<1> HIDE DEF h
<1>7. D \in SUBSET Tags /\ D \ Released \subseteq new.sec
  BY <1>1, <1>2, <1>5 DEF SRState, EntrySound
<1> HIDE DEF D
<1>8. stack' \in [Threads -> Seq(SRState) \ {<<>>}] /\ RegionsSound' /\ KernelSound'
  BY <1>0, <1>3, TopStep
<1>9. Released' = Released
  BY <1>0 DEF Released, Removable
<1>10. heap' \in [Objects -> Object] /\ dirt' \in [Objects -> SUBSET Tags] /\ HeapSound'
  BY <1>0, <1>6, <1>7, <1>9, NewObject
<1>11. TypeOK'
  BY <1>0, <1>8, <1>10 DEF TypeOK
<1> QED
  BY <1>8, <1>10, <1>11

\* changeObjectLabel where cloneClass2 copies the object.
LEMMA ChangeByClassKeeps ==
    ASSUME IInv, NEW t \in Threads, NEW o \in Objects, NEW c \in Objects, NEW new \in Label,
           changeObjectLabelByClass(t, o, c, new)
    PROVE  IInv'
<1> USE DEF IInv
<1> DEFINE h == Plain(new)
<1>0. /\ heap' = [heap EXCEPT ![c] = h] /\ dirt' = [dirt EXCEPT ![c] = dirt[o]]
      /\ escaped' = escaped \cup dirt[o]
      /\ UNCHANGED <<stack, inSecureRegion, common, os, nextTag, granted, missed, ever>>
  BY DEF changeObjectLabelByClass
<1>1. RegionsSound' /\ KernelSound' /\ Released \subseteq Released'
  BY <1>0, SameStacks
<1>2. dirt[o] \in SUBSET Tags /\ dirt[o] \ Released' = {} /\ escaped' \subseteq Tags
  BY <1>0 DEF TypeOK, Released
<1>3. h \in Object /\ h.used /\ h.sec = {}
  BY PlainType
<1> HIDE DEF h
<1>4. heap' \in [Objects -> Object] /\ dirt' \in [Objects -> SUBSET Tags] /\ HeapSound'
  BY <1>0, <1>1, <1>2, <1>3, NewObject
<1>5. TypeOK'
  BY <1>0, <1>2, <1>4 DEF TypeOK
<1> QED
  BY <1>1, <1>4, <1>5

LEMMA ObjectStepKeeps ==
    ASSUME IInv, NEW t \in Threads, ObjectStep(t)
    PROVE  IInv'
<1>1. /\ SecArgs \subseteq SUBSET Tags /\ IntArgs \subseteq SUBSET Tags
      /\ AllocArgs \subseteq SUBSET Tags
  BY SecureRegionAssumption
<1>2. ASSUME NEW o \in Objects, Read(t, o) \/ Write(t, o) \/ New(t, o) PROVE IInv'
  BY <1>2, ReadKeeps, WriteKeeps, NewKeeps
<1>3. ASSUME setAllocationLabels(t, Default) PROVE IInv'
  <2>1. Default \in [given : BOOLEAN, sec : SUBSET Tags, int : SUBSET Tags]
    BY DEF Default
  <2> QED
    BY <1>3, <2>1, SetAllocationKeeps
<1>4. ASSUME NEW sSet \in AllocArgs, NEW iSet \in IntArgs,
             setAllocationLabels(t, AllocLabels(sSet, iSet))
      PROVE  IInv'
  <2>1. AllocLabels(sSet, iSet) \in [given : BOOLEAN, sec : SUBSET Tags, int : SUBSET Tags]
    BY <1>1 DEF AllocLabels
  <2> QED
    BY <1>4, <2>1, SetAllocationKeeps
<1>5. ASSUME NEW o \in Objects, NEW c \in Objects, NEW sSet \in SecArgs, NEW iSet \in IntArgs,
             \/ changeObjectLabelByNew(t, o, c, [sec |-> sSet, int |-> iSet])
             \/ changeObjectLabelByClass(t, o, c, [sec |-> sSet, int |-> iSet])
      PROVE  IInv'
  <2>1. [sec |-> sSet, int |-> iSet] \in Label
    BY <1>1 DEF Label
  <2> QED
    BY <1>5, <2>1, ChangeByNewKeeps, ChangeByClassKeeps
<1> QED
  BY <1>2, <1>3, <1>4, <1>5 DEF ObjectStep

-----------------------------------------------------------------------------
(* The specification.                                                      *)

LEMMA InitIInv == Init => IInv
<1> SUFFICES ASSUME Init PROVE IInv
  OBVIOUS
<1> USE DEF Init
<1>1. MaxTag \in Nat
  BY SecureRegionAssumption
<1>2. ThreadState \in SRState /\ ThreadState.plus = {} /\ ThreadState.minus = {}
      /\ ThreadState.sec = {} /\ ThreadState.int = {} /\ ThreadState.held = {}
  BY DEF ThreadState, setState, Default, AllocLabels, SRState
<1>3. /\ <<ThreadState>> \in Seq(SRState) \ {<<>>} /\ Len(<<ThreadState>>) = 1
      /\ <<ThreadState>>[1] = ThreadState
  BY <1>2
<1>4. /\ Unlabeled \in Label /\ NoCaps \in Caps /\ NoObject \in Object
      /\ Unlabeled.sec = {} /\ Unlabeled.int = {} /\ NoCaps.plus = {} /\ NoCaps.minus = {}
      /\ NoObject.sec = {}
  BY DEF Unlabeled, NoCaps, NoObject, Label, Caps, Object
<1>5. TypeOK
  BY <1>1, <1>3, <1>4 DEF TypeOK
<1>6. \A t \in Threads : /\ stack[t] = <<ThreadState>> /\ Depth(t) = 1
                         /\ stack[t][1] = ThreadState
  BY <1>3 DEF Depth
<1>a. \A t \in Threads : Owned[t].plus = {} /\ Owned[t].minus = {}
  BY <1>4 DEF Owned
<1>7. FlagMeansRegion /\ DropsRecorded
  BY <1>a DEF FlagMeansRegion, DropsRecorded, CapsIn
<1>8. EntriesSound
  BY <1>2, <1>6 DEF EntriesSound, EntrySound
<1>9. OutsideUnlabeled
  BY <1>2, <1>3, <1>6 DEF OutsideUnlabeled, Bare
<1>10. KernelSound
  BY <1>4 DEF KernelSound, KernelTags, NoLeftoverLabel
<1>11. HeapSound
  BY <1>4 DEF HeapSound, OrdinaryObjects, Contained
<1> QED
  BY <1>5, <1>7, <1>8, <1>9, <1>10, <1>11 DEF IInv, RegionsSound

LEMMA NextIInv == IInv /\ [Next]_vars => IInv'
<1> SUFFICES ASSUME IInv, [Next]_vars PROVE IInv'
  OBVIOUS
<1>1. ASSUME NEW t \in Threads, RegionStep(t) PROVE IInv'
  BY <1>1, StartKeeps, ThrowStartErrorKeeps, EndKeeps, OSpassKeeps DEF RegionStep
<1>2. ASSUME NEW t \in Threads, CapStep(t) PROVE IInv'
  BY <1>2, DropKeeps, InitializeKeeps, CreateKeeps DEF CapStep
<1>3. ASSUME UNCHANGED vars PROVE IInv'
  <2>1. RegionsSound' /\ KernelSound' /\ Released \subseteq Released'
    BY <1>3, SameStacks DEF vars
  <2>2. HeapSound'
    BY <1>3, <2>1, HeapStep DEF vars, IInv
  <2>3. TypeOK'
    BY <1>3 DEF vars, IInv, TypeOK
  <2> QED
    BY <2>1, <2>2, <2>3 DEF IInv
<1> QED
  BY <1>1, <1>2, <1>3, LabelStepKeeps, ObjectStepKeeps DEF Next

LEMMA SpecIInv == Spec => []IInv
  BY InitIInv, NextIInv, PTL DEF Spec

\* The variables keep their types; in particular a stack never loses the
\* thread's own state, although endSecureRegion pops without looking.
THEOREM TypeCorrect == Spec => []TypeOK
<1>1. IInv => TypeOK
  BY DEF IInv
<1> QED
  BY <1>1, SpecIInv, PTL

\* Whenever inSecureRegion lets endSecureRegion run, the current state has the
\* parent it dereferences, after any mix of refused starts and surplus ends.
THEOREM FlagMeansRegionHolds == Spec => []FlagMeansRegion
<1>1. IInv => FlagMeansRegion
  BY DEF IInv, RegionsSound
<1> QED
  BY <1>1, SpecIInv, PTL

\* startSecureRegion, createCapability and the drops never leave a region with a
\* capability its thread was not given or has dropped, or with a label that no
\* capability allowed; excepted are the rights that a drop inside a nested region
\* did not take from the thread's own state.
THEOREM GroundedHolds == Spec => []Grounded
<1>1. IInv => Grounded
  BY DEF IInv, RegionsSound, EntriesSound, EntrySound, Grounded, Owned
<1> QED
  BY <1>1, SpecIInv, PTL

\* The barriers contain secrets: data of a tag that nobody may remove is only in
\* objects with that label, unless a refused start or changeObjectLabel let it go.
THEOREM ContainedHolds == Spec => []Contained
<1>1. IInv => Contained
  BY DEF IInv, HeapSound
<1> QED
  BY <1>1, SpecIInv, PTL

\* The restore in endSecureRegion suffices: while the kernel task keeps a label it
\* may remove, some region that passed labels to it has still to end.
THEOREM NoLeftoverLabelHolds == Spec => []NoLeftoverLabel
<1>1. IInv => NoLeftoverLabel
  BY DEF IInv, KernelSound
<1> QED
  BY <1>1, SpecIInv, PTL

============================================================================
