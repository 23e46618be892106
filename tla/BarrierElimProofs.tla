------------------------- MODULE BarrierElimProofs -------------------------
(* Theorems about BarrierElim, for every method, register and object: the    *)
(* sets of a pass only grow, and what the passes remove had been checked.    *)
EXTENDS BarrierElim, WellFoundedInduction, TLAPS

-----------------------------------------------------------------------------
(* What a pass knows.  A pass that has computed a set for the end of each    *)
(* block has, between the instructions, a set for every point of the method. *)

End(b) == <<b, Len(prog.code[b]) + 1>>
Points == Blocks \X Nat
Marks == [Points -> SUBSET Regs]

\* UseOperand, AfterUse, Through and Redundant, of a given pass.
Use(late, rd, p) ==
    LET i == At(p) IN
    IF late /\ p \notin calls THEN NoReg
    ELSE IF i.op = "new" THEN i.d
    ELSE IF i.op = (IF rd THEN "get" ELSE "put") THEN i.o ELSE NoReg

Gain(late, rd, p, S) == S \cup ({Use(late, rd, p)} \cap Regs)

Flow(late, rd, p, S) ==
    IF late /\ At(p).op = "new" THEN Gain(late, rd, p, AfterDef(p, S))
    ELSE AfterDef(p, Gain(late, rd, p, S))

Removes(late, rd, p, S) ==
    \/ Use(late, rd, p) = Const
    \/ Use(late, rd, p) \in S /\ (~late \/ At(p).op # "new")

\* No set claims more than the ones before it give.
Sound(late, rd, Y) ==
    /\ \A b \in Blocks : \A r \in Y[<<b, 1>>] :
         Pred(b) # {} /\ \A q \in Pred(b) : r \in Y[End(q)]
    /\ \A p \in Positions : Y[<<p[1], p[2] + 1>>] \subseteq Flow(late, rd, p, Y[p])

\* Some pass, with sound sets, finds the barrier at p redundant.
Justified(late, p) ==
    \E rd \in BOOLEAN : \E Y \in Marks : Sound(late, rd, Y) /\ Removes(late, rd, p, Y[p])

-----------------------------------------------------------------------------
(* The inductive invariant.                                                *)

\* At every time the sets of the current pass are sound, not only at its end.
PassSound ==
    phase # "run" =>
        \E Y \in Marks : /\ Sound(phase = "late", reads, Y)
                         /\ \A b \in Blocks : scratch[b] = Y[End(b)]

RedJustified == phase # "run" => \A p \in red : Justified(phase = "late", p)

BarriersJustified ==
    phase # "early" =>
        \A p \in Positions \ barrier : At(p).op = "move" \/ \E late \in BOOLEAN : Justified(late, p)

\* The late pass deletes no barrier of an allocation.
CallsKept ==
    phase # "early" => \A p \in calls : phase = "late" \/ At(p).op = "new" => p \in barrier

NotStarted ==
    phase # "run" => /\ pc = <<1, 1>> /\ ok = {} /\ over = {}
                     /\ origin = [r \in Regs |-> <<0, 0>>]

Compiled == PassSound /\ RedJustified /\ BarriersJustified /\ CallsKept /\ NotStarted

Kind(rd) == IF rd THEN "read" ELSE "write"

\* What a pass knows of the next instruction holds in the execution.
MarksHold(rd, Y) == \A r \in Y[pc] : r \in over \/ <<env[r], Kind(rd)>> \in ok

\* A move or an allocation that meets a known register overwrites its value, the
\* first time around a loop as well as later.
KnownOverwritten(Y) ==
    \A r \in Regs : \A p \in Positions :
        origin[r] = p /\ At(p).op \in {"new", "move"} /\ r \in Y[p] => r \in over

Executed ==
    phase = "run" =>
        \A late \in BOOLEAN, rd \in BOOLEAN : \A Y \in Marks :
            Sound(late, rd, Y) => MarksHold(rd, Y) /\ KnownOverwritten(Y)

InMethod == prog \in Programs /\ pc[2] \in 1..(Len(prog.code[pc[1]]) + 1)

IInv == TypeOK /\ InMethod /\ Compiled /\ Executed

-----------------------------------------------------------------------------
(* Methods and points.                                                     *)

LEMMA MethodFacts ==
    ASSUME prog \in Programs
    PROVE  /\ N \in Nat /\ N >= 1 /\ 1 \in Blocks
           /\ \A b \in Blocks : /\ prog.code[b] \in Seq(Instruction)
                                /\ Len(prog.code[b]) \in Nat
                                /\ DOMAIN prog.code[b] = 1..Len(prog.code[b])
                                /\ prog.succ[b] \subseteq Blocks
                                /\ prog.handlers[b] \subseteq Blocks
                                /\ End(b) \in Points
                                /\ Pred(b) \subseteq Blocks
           /\ Pred(1) = {}
<1>1. N \in Nat /\ N >= 1 /\ 1 \in Blocks
  BY BarrierElimAssumption DEF Blocks
<1>2. /\ prog.succ \in [Blocks -> SUBSET Blocks] /\ prog.handlers \in [Blocks -> SUBSET Blocks]
      /\ \A b \in Blocks : /\ prog.code[b] \in Seq(Instruction)
                           /\ 1 \notin prog.succ[b] \cup prog.handlers[b]
  BY BarrierElimAssumption
<1>3. \A b \in Blocks : Len(prog.code[b]) \in Nat /\ DOMAIN prog.code[b] = 1..Len(prog.code[b])
  BY <1>2
<1>4. \A b \in Blocks : End(b) \in Points
  BY <1>3 DEF End, Points
<1> QED
  BY <1>1, <1>2, <1>3, <1>4 DEF Pred

LEMMA PositionFacts ==
    ASSUME prog \in Programs
    PROVE  /\ \A p \in Positions : /\ p[1] \in Blocks /\ p[2] \in 1..Len(prog.code[p[1]])
                                   /\ p = <<p[1], p[2]>> /\ p \in Points
                                   /\ <<p[1], p[2] + 1>> \in Points
                                   /\ At(p) \in Instruction
           /\ \A b \in Blocks : \A i \in 1..Len(prog.code[b]) : <<b, i>> \in Positions
<1>1. \A b \in Blocks : /\ prog.code[b] \in Seq(Instruction) /\ Len(prog.code[b]) \in Nat
                        /\ DOMAIN prog.code[b] = 1..Len(prog.code[b])
  BY MethodFacts
<1>2. ASSUME NEW p \in Positions
      PROVE  /\ p[1] \in Blocks /\ p[2] \in 1..Len(prog.code[p[1]])
             /\ p = <<p[1], p[2]>> /\ p \in Points /\ <<p[1], p[2] + 1>> \in Points
             /\ At(p) \in Instruction
  <2>1. PICK b \in Blocks : p \in {b} \X DOMAIN prog.code[b]
    BY DEF Positions
  <2>2. p[1] = b /\ p[2] \in 1..Len(prog.code[b]) /\ p = <<p[1], p[2]>>
    BY <1>1, <2>1
  <2>3. p[2] \in Nat /\ p[2] + 1 \in Nat /\ p[1] \in Blocks
    BY <1>1, <2>2
  <2>4. At(p) \in Instruction
    BY <1>1, <2>2 DEF At
  <2>5. p \in Points /\ <<p[1], p[2] + 1>> \in Points
    BY <2>2, <2>3 DEF Points
  <2> QED
    BY <2>2, <2>3, <2>4, <2>5
<1>3. ASSUME NEW b \in Blocks, NEW i \in 1..Len(prog.code[b]) PROVE <<b, i>> \in Positions
  <2>1. <<b, i>> \in {b} \X DOMAIN prog.code[b]
    BY <1>1
  <2> QED
    BY <2>1 DEF Positions
<1> QED
  BY <1>2, <1>3

\* A set of indices has a least member.
LEMMA LeastMember ==
    ASSUME NEW S, S \subseteq Nat, S # {}
    PROVE  \E x \in S : \A y \in S : x <= y
<1>1. \E x \in S : \A y \in S : ~(<<y, x>> \in OpToRel(<, Nat))
  BY NatLessThanWellFounded, WFMin, Zenon
<1>2. PICK x \in S : \A y \in S : ~(<<y, x>> \in OpToRel(<, Nat))
  BY <1>1
<1>3. ASSUME NEW y \in S PROVE x <= y
  <2>1. x \in Nat /\ y \in Nat
    OBVIOUS
  <2>2. ASSUME y < x PROVE <<y, x>> \in OpToRel(<, Nat)
    <3>1. <<y, x>> \in Nat \X Nat /\ <<y, x>>[1] < <<y, x>>[2]
      BY <2>1, <2>2
    <3> QED
      BY <3>1, Zenon DEF OpToRel
  <2>3. ~(y < x)
    BY <2>2, <1>2, Zenon
  <2> QED
    BY <2>1, <2>3
<1> QED
  BY <1>3

-----------------------------------------------------------------------------
(* The sets inside a block.                                                *)

\* Iterating functions on sets of registers, from a first set.
LEMMA Iteration ==
    ASSUME NEW n \in Nat, NEW top \in SUBSET Regs,
           NEW G \in [1..n -> [SUBSET Regs -> SUBSET Regs]]
    PROVE  \E f \in [1..(n + 1) -> SUBSET Regs] :
             f[1] = top /\ \A i \in 1..n : f[i + 1] = G[i][f[i]]
<1> DEFINE Runs(m) == \E f \in [1..(m + 1) -> SUBSET Regs] :
                        f[1] = top /\ \A i \in 1..m : f[i + 1] = G[i][f[i]]
           Bad == {m \in 0..n : ~Runs(m)}
<1>1. Runs(0)
  <2> DEFINE f == [i \in 1..1 |-> top]
  <2>1. f \in [1..(0 + 1) -> SUBSET Regs] /\ f[1] = top /\ \A i \in 1..0 : f[i + 1] = G[i][f[i]]
    OBVIOUS
  <2> QED
    BY <2>1
<1>2. ASSUME NEW m \in 0..n, m + 1 \in 0..n, Runs(m) PROVE Runs(m + 1)
  <2>1. PICK f \in [1..(m + 1) -> SUBSET Regs] :
          f[1] = top /\ \A i \in 1..m : f[i + 1] = G[i][f[i]]
    BY <1>2
  <2> DEFINE last == G[m + 1][f[m + 1]]
             g == [i \in 1..((m + 1) + 1) |-> IF i = m + 2 THEN last ELSE f[i]]
  <2>2. m \in Nat /\ m + 1 \in 1..n /\ m + 1 \in 1..(m + 1)
    BY <1>2
  <2>3. last \in SUBSET Regs
    BY <2>2
  <2> HIDE DEF last
  <2>4. g \in [1..((m + 1) + 1) -> SUBSET Regs] /\ g[1] = top
    BY <2>1, <2>2, <2>3
  <2>5. ASSUME NEW i \in 1..(m + 1) PROVE g[i + 1] = G[i][g[i]]
    <3>1. g[i] = f[i] /\ i + 1 \in 1..((m + 1) + 1)
      BY <2>2
    <3>2. CASE i = m + 1
      <4>1. g[i + 1] = last
        BY <2>2, <3>1, <3>2
      <4> QED
        BY <3>1, <3>2, <4>1 DEF last
    <3>3. CASE i \in 1..m
      <4>1. g[i + 1] = f[i + 1]
        BY <2>2, <3>1, <3>3
      <4> QED
        BY <2>1, <3>1, <3>3, <4>1
    <3> QED
      BY <2>2, <3>2, <3>3
  <2> QED
    BY <2>4, <2>5
<1> HIDE DEF Runs
<1>3. ASSUME Bad # {} PROVE FALSE
  <2>0. Bad \subseteq Nat
    OBVIOUS
  <2>1. PICK m \in Bad : \A k \in Bad : m <= k
    <3> HIDE DEF Bad
    <3> QED
      BY <1>3, <2>0, LeastMember
  <2>2. m \in 0..n /\ ~Runs(m) /\ m # 0
    BY <1>1, <2>1
  <2>3. m - 1 \in 0..n /\ (m - 1) + 1 = m /\ ~(m <= m - 1)
    BY <2>2
  <2>4. Runs(m - 1)
    BY <2>1, <2>3
  <2>5. Runs((m - 1) + 1)
    BY <1>2, <2>2, <2>3, <2>4
  <2> QED
    BY <2>2, <2>3, <2>5
<1>4. Runs(n)
  BY <1>3
<1> QED
  BY <1>4 DEF Runs

LEMMA ThroughType ==
    ASSUME prog \in Programs, NEW p \in Positions, NEW S \in SUBSET Regs
    PROVE  Through(p, S) \in SUBSET Regs
<1>1. At(p) \in Instruction
  BY PositionFacts
<1> QED
  BY <1>1 DEF Through, AfterUse, AfterDef, Instruction

\* The sets of Before follow each other as the loop over the block computes them.
LEMMA BeforeFacts ==
    ASSUME prog \in Programs, NEW b \in Blocks
    PROVE  LET n == Len(prog.code[b]) IN
           /\ Before(b) \in [1..(n + 1) -> SUBSET Regs] /\ Before(b)[1] = AtTop(b)
           /\ \A i \in 1..n : Before(b)[i + 1] = Through(<<b, i>>, Before(b)[i])
<1> DEFINE n == Len(prog.code[b])
           G == [i \in 1..n |-> [S \in SUBSET Regs |-> Through(<<b, i>>, S)]]
           P(g) == g = [i \in 1..(n + 1) |->
                          IF i = 1 THEN AtTop(b) ELSE Through(<<b, i - 1>>, g[i - 1])]
<1>1. n \in Nat /\ \A i \in 1..n : <<b, i>> \in Positions
  BY MethodFacts, PositionFacts
<1>2. AtTop(b) \in SUBSET Regs
  BY DEF AtTop
<1>3. \A i \in 1..n : \A S \in SUBSET Regs : Through(<<b, i>>, S) \in SUBSET Regs
  BY <1>1, ThroughType
<1>4. G \in [1..n -> [SUBSET Regs -> SUBSET Regs]]
      /\ \A i \in 1..n : \A S \in SUBSET Regs : G[i][S] = Through(<<b, i>>, S)
  BY <1>3
<1>5. Before(b) = CHOOSE g : P(g)
  BY DEF Before
<1> HIDE DEF G, n
<1>6. PICK f \in [1..(n + 1) -> SUBSET Regs] :
        f[1] = AtTop(b) /\ \A i \in 1..n : f[i + 1] = G[i][f[i]]
  BY <1>1, <1>2, <1>4, Iteration
<1>7. P(f)
  <2>1. ASSUME NEW i \in 1..(n + 1)
        PROVE  f[i] = IF i = 1 THEN AtTop(b) ELSE Through(<<b, i - 1>>, f[i - 1])
    <3>1. CASE i # 1
      <4>1. i - 1 \in 1..n /\ i - 1 \in 1..(n + 1) /\ (i - 1) + 1 = i
        BY <1>1, <3>1
      <4>2. f[i - 1] \in SUBSET Regs /\ f[(i - 1) + 1] = G[i - 1][f[i - 1]]
        BY <1>6, <4>1
      <4> QED
        BY <1>4, <3>1, <4>1, <4>2
    <3> QED
      BY <1>6, <3>1
  <2> QED
    BY <2>1
<1> HIDE DEF P
<1>8. P(CHOOSE g : P(g))
  BY <1>7
<1>9. P(Before(b))
  BY <1>5, <1>8
<1> DEFINE g == Before(b)
<1>10. g = [i \in 1..(n + 1) |-> IF i = 1 THEN AtTop(b) ELSE Through(<<b, i - 1>>, g[i - 1])]
  BY <1>9 DEF P
<1> HIDE DEF g
<1>11. g[1] = AtTop(b) /\ DOMAIN g = 1..(n + 1)
  BY <1>1, <1>10
<1>12. ASSUME NEW i \in 1..n PROVE g[i + 1] = Through(<<b, i>>, g[i])
  <2>1. i + 1 \in 1..(n + 1) /\ i + 1 # 1 /\ (i + 1) - 1 = i
    BY <1>1
  <2> QED
    BY <1>10, <2>1
<1>13. ASSUME NEW i \in 1..(n + 1) PROVE g[i] \in SUBSET Regs
  <2> DEFINE Bad == {j \in 1..(n + 1) : g[j] \notin SUBSET Regs}
  <2>1. SUFFICES ASSUME Bad # {} PROVE FALSE
    OBVIOUS
  <2>2. Bad \subseteq Nat
    BY <1>1
  <2>3. PICK j \in Bad : \A k \in Bad : j <= k
    BY <2>1, <2>2, LeastMember
  <2>4. j \in 1..(n + 1) /\ g[j] \notin SUBSET Regs /\ j # 1
    BY <1>2, <1>11, <2>3
  <2>5. j - 1 \in 1..n /\ j - 1 \in 1..(n + 1) /\ (j - 1) + 1 = j /\ ~(j <= j - 1)
    BY <1>1, <2>4
  <2>6. g[j - 1] \in SUBSET Regs
    BY <2>3, <2>5
  <2>7. g[(j - 1) + 1] \in SUBSET Regs
    <3>1. g[(j - 1) + 1] = Through(<<b, j - 1>>, g[j - 1])
      BY <1>12, <2>5
    <3>2. Through(<<b, j - 1>>, g[j - 1]) \in SUBSET Regs
      BY <1>3, <2>5, <2>6
    <3> QED
      BY <3>1, <3>2
  <2> QED
    BY <2>4, <2>5, <2>7
<1> QED
  BY <1>10, <1>11, <1>12, <1>13 DEF g, n

-----------------------------------------------------------------------------
(* The analysis.                                                           *)

\* The operators of the model are those of the current pass.
LEMMA CurrentPass ==
    ASSUME NEW p, NEW S
    PROVE  /\ Through(p, S) = Flow(phase = "late", reads, p, S)
           /\ phase # "run" /\ phase \in {"early", "late", "run"}
                => (Redundant(p, S) <=> Removes(phase = "late", reads, p, S))
<1>1. UseOperand(p) = Use(phase = "late", reads, p)
  BY DEF UseOperand, Use
<1> QED
  BY <1>1 DEF Through, Flow, AfterUse, Gain, Redundant, Removes

\* More before an instruction gives no less after it.
LEMMA FlowMonotone ==
    ASSUME NEW late, NEW rd, NEW p, NEW S, NEW T, S \subseteq T
    PROVE  Flow(late, rd, p, S) \subseteq Flow(late, rd, p, T)
  BY DEF Flow, Gain, AfterDef

\* A block is analysed again: its sets grow, and remain sound.
LEMMA BlockGrows ==
    ASSUME prog \in Programs, phase \in {"early", "late"}, NEW b \in Blocks, NEW Y \in Marks,
           Sound(phase = "late", reads, Y), \A q \in Blocks : scratch[q] = Y[End(q)]
    PROVE  \A i \in 1..(Len(prog.code[b]) + 1) : Y[<<b, i>>] \subseteq Before(b)[i]
<1> DEFINE n == Len(prog.code[b])
           g == Before(b)
           late == phase = "late"
           Bad == {i \in 1..(n + 1) : ~(Y[<<b, i>>] \subseteq g[i])}
<1>1. /\ g[1] = AtTop(b) /\ n \in Nat
      /\ \A i \in 1..n : g[i + 1] = Through(<<b, i>>, g[i]) /\ <<b, i>> \in Positions
  BY MethodFacts, BeforeFacts, PositionFacts
<1>2. Y[<<b, 1>>] \subseteq g[1]
  <2>1. <<b, 1>> \in Points /\ Pred(b) \subseteq Blocks
    BY MethodFacts DEF Points
  <2>2. Y[<<b, 1>>] \subseteq Regs
    BY <2>1 DEF Marks
  <2>3. \A r \in Y[<<b, 1>>] : Pred(b) # {} /\ \A q \in Pred(b) : r \in Y[End(q)]
    BY DEF Sound
  <2> QED
    BY <1>1, <2>1, <2>2, <2>3 DEF AtTop
<1> HIDE DEF n, g
<1>3. ASSUME Bad # {} PROVE FALSE
  <2>1. Bad \subseteq Nat
    BY <1>1
  <2>2. PICK j \in Bad : \A k \in Bad : j <= k
    BY <1>3, <2>1, LeastMember
  <2>3. j \in 1..(n + 1) /\ ~(Y[<<b, j>>] \subseteq g[j]) /\ j # 1
    BY <1>2, <2>2
  <2>4. j - 1 \in 1..n /\ j - 1 \in 1..(n + 1) /\ (j - 1) + 1 = j /\ ~(j <= j - 1)
    BY <1>1, <2>3
  <2>5. Y[<<b, j - 1>>] \subseteq g[j - 1]
    BY <2>2, <2>4
  <2> DEFINE p == <<b, j - 1>>
  <2>6. p \in Positions /\ p[1] = b /\ p[2] = j - 1
    BY <1>1, <2>4
  <2> HIDE DEF p
  <2>7. Y[<<p[1], p[2] + 1>>] \subseteq Flow(late, reads, p, Y[p])
    BY <2>6 DEF Sound
  <2>8. Y[<<b, j>>] \subseteq Flow(late, reads, p, Y[p])
    BY <2>4, <2>6, <2>7
  <2>9. Flow(late, reads, p, Y[p]) \subseteq Flow(late, reads, p, g[j - 1])
    BY <2>5, FlowMonotone DEF p
  <2>10. g[j] = Flow(late, reads, p, g[j - 1])
    <3>1. g[(j - 1) + 1] = Through(<<b, j - 1>>, g[j - 1])
      BY <1>1, <2>4
    <3> QED
      BY <2>4, <3>1, CurrentPass DEF p
  <2> QED
    BY <2>3, <2>8, <2>9, <2>10
<1> QED
  BY <1>3 DEF n, g

\* Neither the method nor the calls change.
LEMMA SameMethod ==
    ASSUME UNCHANGED <<prog, calls>>
    PROVE  /\ Positions' = Positions /\ \A p : At(p)' = At(p)
           /\ \A late, rd, Y : Sound(late, rd, Y)' <=> Sound(late, rd, Y)
           /\ \A late, p : Justified(late, p)' <=> Justified(late, p)
<1>1. Positions' = Positions /\ \A p : At(p)' = At(p)
  BY DEF Positions, At
<1>2. (\A b : Pred(b)' = Pred(b)) /\ \A b : End(b)' = End(b)
  BY DEF Pred, End
<1>3. \A late, rd, p : Use(late, rd, p)' = Use(late, rd, p)
  BY <1>1 DEF Use
<1>4. \A late, rd, p, S : Flow(late, rd, p, S)' = Flow(late, rd, p, S)
  BY <1>1, <1>3 DEF Flow, Gain, AfterDef
<1>5. \A late, rd, Y : Sound(late, rd, Y)' <=> Sound(late, rd, Y)
  BY <1>1, <1>2, <1>4 DEF Sound
<1>6. \A late, rd, p, S : Removes(late, rd, p, S)' <=> Removes(late, rd, p, S)
  BY <1>1, <1>3 DEF Removes
<1>7. \A late, p : Justified(late, p)' <=> Justified(late, p)
  BY <1>5, <1>6 DEF Justified
<1> QED
  BY <1>1, <1>5, <1>7

\* The early pass does not look at the calls.
LEMMA EarlyIgnoresCalls ==
    ASSUME UNCHANGED prog, NEW late \in BOOLEAN, ~late
    PROVE  \A p : Justified(late, p)' <=> Justified(late, p)
<1>1. Positions' = Positions /\ \A p : At(p)' = At(p)
  BY DEF Positions, At
<1>2. (\A b : Pred(b)' = Pred(b)) /\ \A b : End(b)' = End(b)
  BY DEF Pred, End
<1>3. \A rd, p : Use(late, rd, p)' = Use(late, rd, p)
  BY <1>1 DEF Use
<1>4. \A rd, p, S : Flow(late, rd, p, S)' = Flow(late, rd, p, S)
  BY <1>1, <1>3 DEF Flow, Gain, AfterDef
<1>5. \A rd, Y : Sound(late, rd, Y)' <=> Sound(late, rd, Y)
  BY <1>1, <1>2, <1>4 DEF Sound
<1>6. \A rd, p, S : Removes(late, rd, p, S)' <=> Removes(late, rd, p, S)
  BY <1>1, <1>3 DEF Removes
<1> QED
  BY <1>5, <1>6 DEF Justified

\* A pass starts with empty sets, which are sound.
LEMMA EmptySound ==
    ASSUME prog \in Programs
    PROVE  \E Y \in Marks : /\ \A late, rd : Sound(late, rd, Y)
                            /\ prog' = prog => \A late, rd : Sound(late, rd, Y)'
                            /\ \A b \in Blocks : Y[End(b)] = Empty[b]
<1> DEFINE Y == [x \in Points |-> {}]
<1>1. Y \in Marks /\ \A x \in Points : Y[x] = {}
  BY DEF Marks
<1> HIDE DEF Y
<1>2. \A b \in Blocks : End(b) \in Points /\ <<b, 1>> \in Points
  BY MethodFacts DEF Points
<1>3. \A p \in Positions : <<p[1], p[2] + 1>> \in Points
  BY PositionFacts
<1>4. \A late, rd : Sound(late, rd, Y)
  BY <1>1, <1>2, <1>3 DEF Sound
<1>5. ASSUME prog' = prog, NEW W, W = Y PROVE \A late, rd : Sound(late, rd, W)'
  BY <1>1, <1>2, <1>3, <1>5 DEF Sound, Positions
<1> QED
  BY <1>1, <1>2, <1>4, <1>5 DEF Empty

\* An iteration of the loop over the blocks.
LEMMA AnalyseKeeps ==
    ASSUME IInv, AnalyseBlock
    PROVE  IInv' /\ \A b \in Blocks : scratch[b] \subseteq scratch'[b]
<1> DEFINE g == Before(bb)
           n == Len(prog.code[bb])
           bottom == g[n + 1]
           late == phase = "late"
<1>0. /\ phase \in {"early", "late"} /\ bb \in Blocks /\ prog \in Programs
      /\ red' = red \cup {p \in Positions : p[1] = bb /\ Redundant(p, g[p[2]])}
      /\ scratch' = [scratch EXCEPT ![bb] = bottom]
      /\ changed' = (changed \/ bottom # scratch[bb]) /\ bb' = bb + 1
      /\ UNCHANGED <<prog, phase, reads, barrier, calls, pc, env, ok, origin, over>>
  BY DEF AnalyseBlock, execution, IInv, InMethod
<1>1. /\ Positions' = Positions /\ \A p : At(p)' = At(p)
      /\ \A lt, rd, Y : Sound(lt, rd, Y)' <=> Sound(lt, rd, Y)
      /\ \A lt, p : Justified(lt, p)' <=> Justified(lt, p)
  BY <1>0, SameMethod
<1>2. /\ g \in [1..(n + 1) -> SUBSET Regs] /\ g[1] = AtTop(bb) /\ n \in Nat
      /\ \A i \in 1..n : g[i + 1] = Through(<<bb, i>>, g[i])
  BY <1>0, MethodFacts, BeforeFacts
<1>3. PICK Y \in Marks : Sound(late, reads, Y) /\ \A b \in Blocks : scratch[b] = Y[End(b)]
  BY <1>0 DEF IInv, Compiled, PassSound
<1>4. \A i \in 1..(n + 1) : Y[<<bb, i>>] \subseteq g[i]
  BY <1>0, <1>3, BlockGrows
<1> HIDE DEF g
<1> DEFINE Z == [x \in Points |-> IF x[1] = bb /\ x[2] \in 1..(n + 1) THEN g[x[2]] ELSE Y[x]]
<1>5. bottom \in SUBSET Regs /\ n + 1 \in 1..(n + 1)
  BY <1>2
<1>6. Z \in Marks
  BY <1>2 DEF Marks
<1>7. \A i \in 1..(n + 1) : Z[<<bb, i>>] = g[i]
  <2> SUFFICES ASSUME NEW i \in 1..(n + 1) PROVE Z[<<bb, i>>] = g[i]
    OBVIOUS
  <2>1. <<bb, i>> \in Points
    BY <1>0, <1>2 DEF Points
  <2> QED
    BY <2>1
<1>8. \A x \in Points : x[1] # bb => Z[x] = Y[x]
  OBVIOUS
<1>9. \A x \in Points : Y[x] \subseteq Z[x]
  <2> SUFFICES ASSUME NEW x \in Points PROVE Y[x] \subseteq Z[x]
    OBVIOUS
  <2>1. x = <<x[1], x[2]>>
    BY DEF Points
  <2> QED
    BY <1>4, <2>1
<1> HIDE DEF Z, n
<1>10. Z[End(bb)] = bottom /\ End(bb) \in Points
  BY <1>0, <1>5, <1>7, MethodFacts DEF End, n
<1>11. \A b \in Blocks : scratch'[b] = Z[End(b)] /\ scratch[b] \subseteq scratch'[b]
  <2> SUFFICES ASSUME NEW b \in Blocks
               PROVE  scratch'[b] = Z[End(b)] /\ scratch[b] \subseteq scratch'[b]
    OBVIOUS
  <2>1. End(b) \in Points /\ End(b)[1] = b
    BY <1>0, MethodFacts DEF End
  <2>2. scratch \in [Blocks -> SUBSET Regs]
    BY DEF IInv, TypeOK
  <2>3. scratch'[b] = IF b = bb THEN bottom ELSE scratch[b]
    BY <1>0, <2>2
  <2>4. scratch'[b] = Z[End(b)]
    BY <1>3, <1>8, <1>10, <2>1, <2>3
  <2>5. scratch[b] \subseteq Z[End(b)]
    BY <1>3, <1>9, <2>1
  <2> QED
    BY <2>4, <2>5
<1>12. Sound(late, reads, Z)
  <2>1. ASSUME NEW b \in Blocks, NEW r \in Z[<<b, 1>>]
        PROVE  Pred(b) # {} /\ \A q \in Pred(b) : r \in Z[End(q)]
    <3>1. Pred(b) \subseteq Blocks /\ \A q \in Blocks : End(q) \in Points
      BY <1>0, MethodFacts
    <3>2. Pred(b) # {} /\ \A q \in Pred(b) : r \in Y[End(q)]
      <4>1. CASE b = bb
        <5>1. 1 \in 1..(n + 1)
          BY <1>2, <1>5
        <5>2. r \in AtTop(bb)
          BY <1>2, <1>7, <2>1, <4>1, <5>1
        <5>3. Pred(b) # {} /\ \A q \in Pred(b) : r \in scratch[q]
          BY <4>1, <5>2 DEF AtTop
        <5> QED
          BY <1>3, <3>1, <5>3
      <4>2. CASE b # bb
        <5>1. <<b, 1>> \in Points /\ <<b, 1>>[1] = b
          BY DEF Points
        <5>2. r \in Y[<<b, 1>>]
          BY <1>8, <2>1, <4>2, <5>1
        <5> QED
          BY <1>3, <5>2 DEF Sound
      <4> QED
        BY <4>1, <4>2
    <3> QED
      BY <1>9, <3>1, <3>2
  <2>2. ASSUME NEW p \in Positions
        PROVE  Z[<<p[1], p[2] + 1>>] \subseteq Flow(late, reads, p, Z[p])
    <3>1. /\ p[1] \in Blocks /\ p[2] \in 1..Len(prog.code[p[1]]) /\ p = <<p[1], p[2]>>
          /\ p \in Points /\ <<p[1], p[2] + 1>> \in Points
      BY <1>0, PositionFacts
    <3>2. CASE p[1] = bb
      <4>1. p[2] \in 1..n /\ p[2] \in 1..(n + 1) /\ p[2] + 1 \in 1..(n + 1)
        BY <1>2, <3>1, <3>2 DEF n
      <4>2. Z[<<p[1], p[2] + 1>>] = g[p[2] + 1] /\ Z[<<p[1], p[2]>>] = g[p[2]]
        BY <1>7, <3>2, <4>1
      <4>3. g[p[2] + 1] = Through(<<p[1], p[2]>>, g[p[2]])
        BY <1>2, <3>2, <4>1
      <4>4. Through(p, g[p[2]]) = Flow(late, reads, p, g[p[2]])
        BY CurrentPass
      <4>5. Z[p] = g[p[2]] /\ Through(<<p[1], p[2]>>, g[p[2]]) = Through(p, g[p[2]])
        BY <3>1, <4>2, Zenon
      <4> QED
        BY <4>2, <4>3, <4>4, <4>5
    <3>3. CASE p[1] # bb
      <4>1. <<p[1], p[2] + 1>>[1] = p[1]
        OBVIOUS
      <4>2. Z[p] = Y[p] /\ Z[<<p[1], p[2] + 1>>] = Y[<<p[1], p[2] + 1>>]
        BY <1>8, <3>1, <3>3, <4>1
      <4>3. Y[<<p[1], p[2] + 1>>] \subseteq Flow(late, reads, p, Y[p])
        BY <1>3 DEF Sound
      <4> QED
        BY <4>2, <4>3
    <3> QED
      BY <3>2, <3>3
  <2> QED
    BY <2>1, <2>2 DEF Sound
<1>13. \A p \in red' : Justified(late, p)
  <2> SUFFICES ASSUME NEW p \in red' PROVE Justified(late, p)
    OBVIOUS
  <2>1. CASE p \in red
    BY <1>0, <2>1 DEF IInv, Compiled, RedJustified
  <2>2. CASE p \in Positions /\ p[1] = bb /\ Redundant(p, g[p[2]])
    <3>1. p = <<p[1], p[2]>> /\ p[2] \in 1..Len(prog.code[bb])
      BY <1>0, <2>2, PositionFacts
    <3>2. p[2] \in 1..(n + 1)
      BY <1>2, <3>1 DEF n
    <3>3. Z[<<bb, p[2]>>] = g[p[2]]
      BY <1>7, <3>2
    <3>4. Z[p] = g[p[2]]
      BY <2>2, <3>1, <3>3, Zenon
    <3>5. Removes(late, reads, p, g[p[2]])
      BY <1>0, <2>2, CurrentPass
    <3>6. reads \in BOOLEAN
      BY DEF IInv, TypeOK
    <3> QED
      BY <1>6, <1>12, <3>4, <3>5, <3>6 DEF Justified
  <2> QED
    BY <1>0, <2>1, <2>2
<1> HIDE DEF bottom
<1>14. TypeOK'
  <2>1. N \in Nat /\ bb + 1 \in 1..(N + 1)
    BY <1>0, MethodFacts DEF Blocks
  <2> QED
    BY <1>0, <1>1, <1>5, <2>1 DEF IInv, TypeOK
<1>15. InMethod'
  BY <1>0 DEF IInv, InMethod
<1>16. PassSound' /\ RedJustified'
  <2>1. phase' = phase /\ reads' = reads /\ \A b : End(b)' = End(b)
    BY <1>0 DEF End
  <2>2. \E W \in Marks : /\ Sound(phase = "late", reads, W)'
                        /\ \A b \in Blocks : scratch'[b] = W[End(b)]
    <3>1. PICK W \in Marks, lt \in BOOLEAN, rd \in BOOLEAN :
            W = Z /\ lt = (phase = "late") /\ rd = reads
      BY <1>6 DEF IInv, TypeOK
    <3>2. Sound(lt, rd, W) /\ \A b \in Blocks : scratch'[b] = W[End(b)]
      BY <1>11, <1>12, <3>1
    <3>3. Sound(lt, rd, W)'
      BY <1>1, <3>2
    <3>4. lt = (phase' = "late") /\ rd = reads'
      BY <2>1, <3>1
    <3> QED
      BY <3>2, <3>3, <3>4
  <2>3. \A p \in red' : Justified(phase = "late", p)'
    <3>1. PICK lt \in BOOLEAN : lt = (phase = "late")
      OBVIOUS
    <3>2. \A p \in red' : Justified(lt, p)'
      BY <1>1, <1>13, <3>1
    <3>3. lt = (phase' = "late")
      BY <2>1, <3>1
    <3> QED
      BY <3>2, <3>3
  <2> QED
    BY <2>1, <2>2, <2>3 DEF PassSound, RedJustified
<1>17. BarriersJustified' /\ CallsKept' /\ NotStarted' /\ Executed'
  BY <1>0, <1>1 DEF IInv, Compiled, BarriersJustified, CallsKept, NotStarted, Executed
<1> QED
  BY <1>11, <1>14, <1>15, <1>16, <1>17 DEF IInv, Compiled

\* Steps that leave the pass as it is.
LEMMA SamePass ==
    ASSUME IInv, UNCHANGED <<prog, phase, reads, scratch, red, barrier, calls>>
    PROVE  PassSound' /\ RedJustified' /\ BarriersJustified' /\ CallsKept'
<1>1. /\ Positions' = Positions /\ \A p : At(p)' = At(p)
      /\ \A lt, rd, Y : Sound(lt, rd, Y)' <=> Sound(lt, rd, Y)
      /\ \A lt, p : Justified(lt, p)' <=> Justified(lt, p)
  BY SameMethod
<1>2. \A b : End(b)' = End(b)
  BY DEF End
<1>3. PICK lt \in BOOLEAN, rd \in BOOLEAN : lt = (phase = "late") /\ rd = reads
  BY DEF IInv, TypeOK
<1>4. lt = (phase' = "late") /\ rd = reads'
  BY <1>3
<1>5. PassSound'
  <2> SUFFICES ASSUME phase # "run"
               PROVE  \E W \in Marks : /\ Sound(phase = "late", reads, W)'
                                       /\ \A b \in Blocks : scratch[b] = W[End(b)]
    BY <1>2 DEF PassSound
  <2>1. PICK W \in Marks : /\ Sound(phase = "late", reads, W)
                           /\ \A b \in Blocks : scratch[b] = W[End(b)]
    BY DEF IInv, Compiled, PassSound
  <2>2. Sound(lt, rd, W)
    BY <1>3, <2>1
  <2>3. Sound(lt, rd, W)'
    BY <1>1, <2>2
  <2> QED
    BY <1>4, <2>1, <2>3
<1>6. RedJustified'
  <2> SUFFICES ASSUME phase # "run", NEW p \in red PROVE Justified(phase = "late", p)'
    BY DEF RedJustified
  <2>1. Justified(lt, p)
    BY <1>3 DEF IInv, Compiled, RedJustified
  <2>2. Justified(lt, p)'
    BY <1>1, <2>1
  <2> QED
    BY <1>4, <2>2
<1>7. BarriersJustified' /\ CallsKept'
  BY <1>1 DEF IInv, Compiled, BarriersJustified, CallsKept
<1> QED
  BY <1>5, <1>6, <1>7

LEMMA NextRoundKeeps ==
    ASSUME IInv, NextRound
    PROVE  IInv'
<1>0. /\ phase # "run" /\ changed' = FALSE /\ bb' = 1 /\ prog \in Programs
      /\ UNCHANGED <<prog, phase, reads, scratch, red, barrier, calls>>
      /\ UNCHANGED <<pc, env, ok, origin, over>>
  BY DEF NextRound, AtRoundEnd, execution, IInv, InMethod
<1>1. PassSound' /\ RedJustified' /\ BarriersJustified' /\ CallsKept'
  BY <1>0, SamePass
<1>2. TypeOK'
  <2>1. N \in Nat /\ 1 \in 1..(N + 1) /\ Positions' = Positions
    BY <1>0, MethodFacts DEF Positions
  <2> QED
    BY <1>0, <2>1 DEF IInv, TypeOK
<1>3. InMethod' /\ NotStarted' /\ Executed'
  BY <1>0 DEF IInv, Compiled, InMethod, NotStarted, Executed
<1> QED
  BY <1>1, <1>2, <1>3 DEF IInv, Compiled

LEMMA WritesPassKeeps ==
    ASSUME IInv, WritesPass
    PROVE  IInv'
<1>0. /\ phase # "run" /\ reads' = FALSE /\ bb' = 1 /\ scratch' = Empty /\ prog \in Programs
      /\ UNCHANGED <<prog, phase, changed, red, barrier, calls>>
      /\ UNCHANGED <<pc, env, ok, origin, over>>
  BY DEF WritesPass, AtRoundEnd, execution, IInv, InMethod
<1>1. /\ Positions' = Positions /\ \A p : At(p)' = At(p)
      /\ \A lt, rd, Y : Sound(lt, rd, Y)' <=> Sound(lt, rd, Y)
      /\ \A lt, p : Justified(lt, p)' <=> Justified(lt, p)
  BY <1>0, SameMethod
<1>2. PassSound'
  <2>1. PICK Y \in Marks : (\A lt, rd : Sound(lt, rd, Y)) /\ \A b \in Blocks : Y[End(b)] = Empty[b]
    BY <1>0, EmptySound
  <2>2. \A lt, rd : Sound(lt, rd, Y)'
    BY <1>1, <2>1
  <2>3. Sound(phase = "late", reads, Y)'
    BY <2>2
  <2>4. \A b \in Blocks : scratch'[b] = Y[End(b)']
    BY <1>0, <2>1 DEF End
  <2> QED
    BY <2>3, <2>4 DEF PassSound
<1>3. RedJustified'
  <2> SUFFICES ASSUME NEW p \in red PROVE Justified(phase = "late", p)'
    BY <1>0 DEF RedJustified
  <2>1. PICK lt \in BOOLEAN : lt = (phase = "late")
    OBVIOUS
  <2>2. Justified(lt, p)
    BY <1>0, <2>1 DEF IInv, Compiled, RedJustified
  <2>3. Justified(lt, p)' /\ lt = (phase' = "late")
    BY <1>0, <1>1, <2>1, <2>2
  <2> QED
    BY <2>3
<1>4. BarriersJustified' /\ CallsKept'
  BY <1>0, <1>1 DEF IInv, Compiled, BarriersJustified, CallsKept
<1>5. TypeOK'
  <2>1. N \in Nat /\ 1 \in 1..(N + 1) /\ Empty \in [Blocks -> SUBSET Regs]
    BY <1>0, MethodFacts DEF Empty
  <2> QED
    BY <1>0, <1>1, <2>1 DEF IInv, TypeOK
<1>6. InMethod' /\ NotStarted' /\ Executed'
  BY <1>0 DEF IInv, Compiled, InMethod, NotStarted, Executed
<1> QED
  BY <1>2, <1>3, <1>4, <1>5, <1>6 DEF IInv, Compiled

\* The barriers the early pass did not find redundant are inserted.
LEMMA ExpandKeeps ==
    ASSUME IInv, NEW cold, Expand(cold)
    PROVE  IInv'
<1>0. /\ phase = "early" /\ barrier' = {p \in Positions : At(p).op # "move"} \ red
      /\ calls' = {p \in barrier' : p[1] \in cold} /\ phase' = "late" /\ reads' = TRUE
      /\ bb' = 1 /\ scratch' = Empty /\ red' = {} /\ prog \in Programs
      /\ UNCHANGED <<prog, changed>> /\ UNCHANGED <<pc, env, ok, origin, over>>
  BY DEF Expand, AtRoundEnd, execution, IInv, InMethod
<1>1. Positions' = Positions /\ (\A p : At(p)' = At(p)) /\ \A b : End(b)' = End(b)
  BY <1>0 DEF Positions, At, End
<1>2. PassSound'
  <2>1. PICK Y \in Marks : /\ \A b \in Blocks : Y[End(b)] = Empty[b]
                           /\ \A lt, rd : Sound(lt, rd, Y)'
    BY <1>0, EmptySound
  <2>2. Sound(phase = "late", reads, Y)'
    BY <2>1
  <2> QED
    BY <1>0, <1>1, <2>1, <2>2 DEF PassSound
<1>3. BarriersJustified'
  <2> SUFFICES ASSUME NEW p \in Positions, p \notin barrier', At(p).op # "move"
               PROVE  \E late \in BOOLEAN : Justified(late, p)'
    BY <1>1 DEF BarriersJustified
  <2>1. p \in red
    BY <1>0
  <2>2. PICK late \in BOOLEAN : ~late /\ late = (phase = "late")
    BY <1>0
  <2>3. Justified(late, p)
    BY <1>0, <2>1, <2>2 DEF IInv, Compiled, RedJustified
  <2>4. Justified(late, p)'
    BY <1>0, <2>2, <2>3, EarlyIgnoresCalls
  <2> QED
    BY <2>4
<1>4. RedJustified' /\ CallsKept'
  BY <1>0 DEF RedJustified, CallsKept
<1>5. TypeOK'
  <2>1. N \in Nat /\ 1 \in 1..(N + 1) /\ Empty \in [Blocks -> SUBSET Regs]
    BY <1>0, MethodFacts DEF Empty
  <2> QED
    BY <1>0, <1>1, <2>1 DEF IInv, TypeOK
<1>6. InMethod' /\ NotStarted' /\ Executed'
  BY <1>0 DEF IInv, Compiled, InMethod, NotStarted, Executed
<1> QED
  BY <1>2, <1>3, <1>4, <1>5, <1>6 DEF IInv, Compiled

\* The redundant calls are deleted and the method starts.
LEMMA RemoveKeeps ==
    ASSUME IInv, Remove
    PROVE  IInv'
<1>0. /\ phase = "late" /\ barrier' = barrier \ red /\ phase' = "run" /\ scratch' = Empty
      /\ prog \in Programs /\ UNCHANGED <<prog, reads, bb, changed, red, calls>>
      /\ UNCHANGED <<pc, ok, origin, over>>
  BY DEF Remove, IInv, InMethod
<1>1. /\ Positions' = Positions /\ \A p : At(p)' = At(p)
      /\ \A lt, rd, Y : Sound(lt, rd, Y)' <=> Sound(lt, rd, Y)
      /\ \A lt, p : Justified(lt, p)' <=> Justified(lt, p)
  BY <1>0, SameMethod
<1>2. PICK late \in BOOLEAN : late /\ late = (phase = "late")
  BY <1>0
<1>3. \A p \in red : Justified(late, p)
  BY <1>0, <1>2 DEF IInv, Compiled, RedJustified
<1>4. BarriersJustified'
  <2> SUFFICES ASSUME NEW p \in Positions, p \notin barrier'
               PROVE  At(p).op = "move" \/ \E lt \in BOOLEAN : Justified(lt, p)
    BY <1>1 DEF BarriersJustified
  <2>1. CASE p \in red
    BY <1>3, <2>1
  <2>2. CASE p \notin barrier
    BY <1>0, <2>2 DEF IInv, Compiled, BarriersJustified
  <2> QED
    BY <1>0, <2>1, <2>2
<1>5. CallsKept'
  <2> SUFFICES ASSUME NEW p \in calls, At(p).op = "new" PROVE p \in barrier'
    BY <1>0, <1>1 DEF CallsKept
  <2>1. p \in barrier /\ p \in Positions
    BY <1>0 DEF IInv, TypeOK, Compiled, CallsKept
  <2>2. ASSUME p \in red PROVE FALSE
    <3>1. PICK rd \in BOOLEAN, Y \in Marks : Removes(late, rd, p, Y[p])
      BY <1>3, <2>2 DEF Justified
    <3>2. Use(late, rd, p) = Const
      BY <1>2, <3>1 DEF Removes
    <3>3. At(p).d = Const
      BY <3>2 DEF Use
    <3>4. At(p).d \in Regs
      BY <1>0, <2>1, PositionFacts DEF Instruction
    <3> QED
      BY <3>3, <3>4, BarrierElimAssumption
  <2> QED
    BY <1>0, <2>1, <2>2
<1>6. Executed'
  <2>1. pc = <<1, 1>> /\ origin = [r \in Regs |-> <<0, 0>>]
    BY <1>0 DEF IInv, Compiled, NotStarted
  <2>2. Pred(1) = {} /\ 1 \in Blocks
    BY <1>0, MethodFacts
  <2>3. ASSUME NEW p \in Positions PROVE p # <<0, 0>>
    <3>1. p[1] \in Blocks
      BY <1>0, PositionFacts
    <3> QED
      BY <3>1 DEF Blocks
  <2> SUFFICES ASSUME NEW lt \in BOOLEAN, NEW rd \in BOOLEAN, NEW Y \in Marks, Sound(lt, rd, Y)
               PROVE  MarksHold(rd, Y)' /\ KnownOverwritten(Y)'
    BY <1>1 DEF Executed
  <2>4. Y[<<1, 1>>] = {}
    BY <2>2 DEF Sound
  <2>5. MarksHold(rd, Y)'
    BY <1>0, <2>1, <2>4 DEF MarksHold
  <2>6. KnownOverwritten(Y)'
    BY <1>0, <1>1, <2>1, <2>3 DEF KnownOverwritten
  <2> QED
    BY <2>5, <2>6
<1>7. TypeOK'
  <2>1. Empty \in [Blocks -> SUBSET Regs]
    BY DEF Empty
  <2>2. PICK args \in [Params -> Objects] :
          env' = [r \in Regs |-> IF r \in Params THEN args[r] ELSE Null]
    BY DEF Remove
  <2>3. env' \in [Regs -> Objects \cup {Null}]
    BY <2>2
  <2> QED
    BY <1>0, <1>1, <2>1, <2>3 DEF IInv, TypeOK
<1>8. InMethod' /\ NotStarted' /\ PassSound' /\ RedJustified'
  BY <1>0 DEF IInv, InMethod, NotStarted, PassSound, RedJustified
<1> QED
  BY <1>4, <1>5, <1>6, <1>7, <1>8 DEF IInv, Compiled

-----------------------------------------------------------------------------
(* Execution.                                                              *)

\* What a pass knows after an instruction.
LEMMA FlowFacts ==
    ASSUME NEW late, NEW rd, NEW p, NEW S \in SUBSET Regs, NEW r \in Flow(late, rd, p, S),
           At(p) \in Instruction
    PROVE  LET i == At(p) IN
           /\ i.op \in {"get", "put"} =>
                r # i.d /\ (r \in S \/ (r = i.o /\ r \in Regs /\ i.op = IF rd THEN "get" ELSE "put"))
           /\ i.op = "new" => (r \in S /\ r # i.d) \/ (r = i.d /\ late /\ p \in calls)
           /\ i.op = "move" => r \in S \/ (r = i.d /\ i.o \in S)
<1>1. NoReg \notin Regs /\ At(p).op \in {"get", "put", "new", "move"}
  BY BarrierElimAssumption DEF Instruction
<1>2. CASE At(p).op \in {"get", "put"}
  <2>1. Flow(late, rd, p, S) = (S \cup ({Use(late, rd, p)} \cap Regs)) \ {At(p).d}
    BY <1>2 DEF Flow, AfterDef, Gain
  <2>2. Use(late, rd, p) \in Regs => /\ Use(late, rd, p) = At(p).o
                                     /\ At(p).op = IF rd THEN "get" ELSE "put"
    BY <1>1, <1>2 DEF Use
  <2> QED
    BY <1>2, <2>1, <2>2
<1>3. CASE At(p).op = "new"
  <2>1. Use(late, rd, p) \in Regs => Use(late, rd, p) = At(p).d /\ (late => p \in calls)
    BY <1>1, <1>3 DEF Use
  <2>2. CASE late
    BY <1>3, <2>1, <2>2 DEF Flow, AfterDef, Gain
  <2>3. CASE ~late
    BY <1>3, <2>1, <2>3 DEF Flow, AfterDef, Gain
  <2> QED
    BY <2>2, <2>3
<1>4. CASE At(p).op = "move"
  <2>1. Use(late, rd, p) = NoReg
    BY <1>4 DEF Use
  <2>2. Gain(late, rd, p, S) = S
    BY <1>1, <2>1 DEF Gain
  <2> QED
    BY <1>4, <2>2 DEF Flow, AfterDef
<1> QED
  BY <1>1, <1>2, <1>3, <1>4

\* The state of a running method.
LEMMA RunFacts ==
    ASSUME IInv, phase = "run"
    PROVE  /\ prog \in Programs /\ pc \in Points /\ Null \notin Objects
           /\ ok \subseteq Objects \X {"read", "write"}
           /\ env \in [Regs -> Objects \cup {Null}] /\ over \subseteq Regs
           /\ origin \in [Regs -> (0..N) \X Nat]
           /\ \A late \in BOOLEAN, rd \in BOOLEAN : \A Y \in Marks :
                Sound(late, rd, Y) => MarksHold(rd, Y) /\ KnownOverwritten(Y)
           /\ \A Y \in Marks : Y[pc] \subseteq Regs
  BY BarrierElimAssumption DEF IInv, TypeOK, InMethod, Executed, Points, Marks

\* What the passes removed was redundant, as RemovedWasChecked says.
LEMMA RemovedChecked == IInv => RemovedWasChecked
<1> SUFFICES ASSUME IInv, phase = "run", pc \in Positions, pc \notin barrier
             PROVE  LET i == At(pc) IN
                    /\ i.op = "new" => i.d \in over \/ Replaced(i.d)
                    /\ i.op \in {"get", "put"} /\ i.o \in Regs \ over /\ env[i.o] # Null
                         => <<env[i.o], IF i.op = "get" THEN "read" ELSE "write">> \in ok
  BY DEF RemovedWasChecked
<1> DEFINE i == At(pc)
<1>0. /\ prog \in Programs /\ Null \notin Objects /\ ok \subseteq Objects \X {"read", "write"}
      /\ \A late \in BOOLEAN, rd \in BOOLEAN : \A Y \in Marks :
           Sound(late, rd, Y) => MarksHold(rd, Y) /\ KnownOverwritten(Y)
      /\ \A Y \in Marks : Y[pc] \subseteq Regs
  BY RunFacts
<1>1. i \in Instruction /\ NoReg \notin Regs /\ Const \notin Regs /\ Const # NoReg
  BY <1>0, PositionFacts, BarrierElimAssumption
<1>2. i.op = "move" \/ \E late \in BOOLEAN : Justified(late, pc)
  BY DEF IInv, Compiled, BarriersJustified
<1>3. ASSUME NEW late \in BOOLEAN, NEW rd \in BOOLEAN, NEW Y \in Marks,
             Sound(late, rd, Y), Removes(late, rd, pc, Y[pc])
      PROVE  /\ i.op = "new" => i.d \in over \/ Replaced(i.d)
             /\ i.op \in {"get", "put"} /\ i.o \in Regs \ over
                  => <<env[i.o], IF i.op = "get" THEN "read" ELSE "write">> \in ok
  <2>1. /\ \A r \in Y[pc] : r \in over \/ <<env[r], Kind(rd)>> \in ok
        /\ KnownOverwritten(Y) /\ Y[pc] \subseteq Regs
    BY <1>0, <1>3 DEF MarksHold
  <2>2. ASSUME i.op = "new" PROVE i.d \in over \/ Replaced(i.d)
    <3>1. i.d \in Regs
      BY <1>1, <2>2 DEF Instruction
    <3>2. Use(late, rd, pc) \in {i.d, NoReg}
      BY <2>2 DEF Use
    <3>3. i.d \in Y[pc]
      BY <1>1, <1>3, <2>1, <3>1, <3>2 DEF Removes
    <3>4. CASE <<env[i.d], Kind(rd)>> \in ok
      <4>1. env[i.d] # Null
        BY <1>0, <3>4
      <4>2. CASE origin[i.d] = pc
        BY <2>1, <2>2, <3>1, <3>3, <4>2 DEF KnownOverwritten
      <4>3. CASE origin[i.d] # pc
        BY <4>1, <4>3 DEF Replaced
      <4> QED
        BY <4>2, <4>3
    <3> QED
      BY <2>1, <3>3, <3>4
  <2>3. ASSUME i.op \in {"get", "put"}, i.o \in Regs, i.o \notin over
        PROVE  <<env[i.o], IF i.op = "get" THEN "read" ELSE "write">> \in ok
    <3>1. \/ Use(late, rd, pc) = NoReg
          \/ Use(late, rd, pc) = i.o /\ i.op = IF rd THEN "get" ELSE "put"
      BY <2>3 DEF Use
    <3>2. i.o \in Y[pc] /\ i.op = IF rd THEN "get" ELSE "put"
      BY <1>1, <1>3, <2>1, <2>3, <3>1 DEF Removes
    <3>3. <<env[i.o], Kind(rd)>> \in ok
      BY <2>1, <2>3, <3>2
    <3>4. Kind(rd) = IF i.op = "get" THEN "read" ELSE "write"
      BY <3>2 DEF Kind
    <3> QED
      BY <3>3, <3>4
  <2> QED
    BY <2>2, <2>3
<1>4. CASE i.op = "move"
  BY <1>4
<1>5. ASSUME NEW late \in BOOLEAN, Justified(late, pc)
      PROVE  /\ i.op = "new" => i.d \in over \/ Replaced(i.d)
             /\ i.op \in {"get", "put"} /\ i.o \in Regs \ over
                  => <<env[i.o], IF i.op = "get" THEN "read" ELSE "write">> \in ok
  BY <1>3, <1>5 DEF Justified
<1> QED
  BY <1>2, <1>4, <1>5

\* The rest of a step of the execution.
LEMMA RunStep ==
    ASSUME IInv, phase = "run", UNCHANGED <<prog, compiler>>, TypeOK', InMethod',
           \A late \in BOOLEAN, rd \in BOOLEAN : \A Y \in Marks :
             Sound(late, rd, Y) => MarksHold(rd, Y)' /\ KnownOverwritten(Y)'
    PROVE  IInv'
<1>0. UNCHANGED <<prog, phase, reads, scratch, red, barrier, calls>>
  BY DEF compiler
<1>1. PassSound' /\ RedJustified' /\ BarriersJustified' /\ CallsKept'
  BY <1>0, SamePass
<1>2. \A late, rd, Y : Sound(late, rd, Y)' <=> Sound(late, rd, Y)
  BY <1>0, SameMethod
<1>3. Executed'
  BY <1>0, <1>2 DEF Executed
<1> QED
  BY <1>0, <1>1, <1>3 DEF IInv, Compiled, NotStarted

\* An instruction is executed.
LEMMA AdvanceFacts ==
    ASSUME IInv, phase = "run", pc \in Positions, Advance, UNCHANGED prog
    PROVE  /\ At(pc) \in Instruction /\ pc' \in Blocks \X Nat /\ InMethod'
           /\ Positions' = Positions /\ \A p : At(p)' = At(p)
           /\ \A late \in BOOLEAN, rd \in BOOLEAN : \A Y \in Marks :
                Sound(late, rd, Y) => Y[pc'] \subseteq Flow(late, rd, pc, Y[pc])
<1>1. /\ prog \in Programs /\ pc[1] \in Blocks /\ pc[2] \in 1..Len(prog.code[pc[1]])
      /\ <<pc[1], pc[2] + 1>> \in Points /\ At(pc) \in Instruction
      /\ Len(prog.code[pc[1]]) \in Nat
  BY PositionFacts, MethodFacts DEF IInv, InMethod
<1>2. pc' = <<pc[1], pc[2] + 1>> /\ pc'[1] = pc[1] /\ pc'[2] = pc[2] + 1
  BY DEF Advance
<1>3. pc' \in Blocks \X Nat
  BY <1>1, <1>2 DEF Points
<1>4. InMethod'
  BY <1>1, <1>2 DEF InMethod
<1>5. \A late \in BOOLEAN, rd \in BOOLEAN : \A Y \in Marks :
        Sound(late, rd, Y) => Y[pc'] \subseteq Flow(late, rd, pc, Y[pc])
  BY <1>2 DEF Sound
<1>6. Positions' = Positions /\ \A p : At(p)' = At(p)
  BY DEF Positions, At
<1> QED
  BY <1>1, <1>3, <1>4, <1>5, <1>6

\* A known register is overwritten, or was, by a move or an allocation.
LEMMA KnownReplaced ==
    ASSUME IInv, phase = "run", pc \in Positions, At(pc).op \in {"new", "move"},
           NEW late \in BOOLEAN, NEW rd \in BOOLEAN, NEW Y \in Marks, Sound(late, rd, Y),
           NEW r \in Y[pc]
    PROVE  r \in over \/ Replaced(r)
<1>0. /\ Null \notin Objects /\ ok \subseteq Objects \X {"read", "write"}
      /\ MarksHold(rd, Y) /\ KnownOverwritten(Y) /\ r \in Regs
  BY RunFacts
<1>1. CASE <<env[r], Kind(rd)>> \in ok
  <2>1. env[r] # Null
    BY <1>0, <1>1
  <2>2. CASE origin[r] = pc
    BY <1>0, <2>2 DEF KnownOverwritten
  <2>3. CASE origin[r] # pc
    BY <2>1, <2>3 DEF Replaced
  <2> QED
    BY <2>2, <2>3
<1> QED
  BY <1>0, <1>1 DEF MarksHold

LEMMA GetKeeps ==
    ASSUME IInv, Get
    PROVE  IInv'
<1> DEFINE i == At(pc)
<1>0. /\ phase = "run" /\ pc \in Positions /\ i.op = "get" /\ NotNull(i.o)
      /\ ok' = Checked(i.o, "read") /\ Advance /\ Defined(i.d) /\ over' = over \ {i.d}
      /\ UNCHANGED <<prog, compiler>>
  BY DEF Get, Running
<1>1. PICK v \in Objects : env' = [r \in Regs |-> IF r = i.d THEN v ELSE env[r]]
  BY DEF Get
<1>2. /\ i \in Instruction /\ pc' \in Blocks \X Nat /\ InMethod'
      /\ Positions' = Positions /\ \A p : At(p)' = At(p)
      /\ \A late \in BOOLEAN, rd \in BOOLEAN : \A Y \in Marks :
           Sound(late, rd, Y) => Y[pc'] \subseteq Flow(late, rd, pc, Y[pc])
  BY <1>0, AdvanceFacts
<1>3. /\ ok \subseteq Objects \X {"read", "write"} /\ env \in [Regs -> Objects \cup {Null}]
      /\ over \subseteq Regs /\ origin \in [Regs -> (0..N) \X Nat] /\ Null \notin Objects
      /\ \A late \in BOOLEAN, rd \in BOOLEAN : \A Y \in Marks :
           Sound(late, rd, Y) => MarksHold(rd, Y) /\ KnownOverwritten(Y)
      /\ \A Y \in Marks : Y[pc] \subseteq Regs
  BY <1>0, RunFacts
<1> HIDE DEF i
<1>4. /\ ok \subseteq ok' /\ ok' \subseteq Objects \X {"read", "write"}
      /\ pc \in barrier /\ i.o \in Regs => <<env[i.o], "read">> \in ok'
  <2>1. i.o \in Regs => env[i.o] \in Objects
    BY <1>0, <1>3 DEF NotNull
  <2> QED
    BY <1>0, <1>3, <2>1 DEF Checked
<1>5. /\ env' \in [Regs -> Objects \cup {Null}]
      /\ \A r \in Regs : r # i.d => env'[r] = env[r] /\ (r \in over => r \in over')
  BY <1>0, <1>1, <1>3
<1>6. /\ origin' \in [Regs -> (0..N) \X Nat]
      /\ \A r \in Regs : IF r = i.d THEN origin'[r] = pc ELSE origin'[r] = origin[r]
  <2>1. pc \in (0..N) \X Nat
    BY DEF IInv, TypeOK, Blocks
  <2> QED
    BY <1>0, <1>3, <2>1 DEF Defined
<1>7. TypeOK'
  BY <1>0, <1>2, <1>3, <1>4, <1>5, <1>6 DEF IInv, TypeOK, compiler
<1>8. ASSUME NEW late \in BOOLEAN, NEW rd \in BOOLEAN, NEW Y \in Marks, Sound(late, rd, Y)
      PROVE  MarksHold(rd, Y)' /\ KnownOverwritten(Y)'
  <2>1. MarksHold(rd, Y) /\ KnownOverwritten(Y) /\ Y[pc] \subseteq Regs
        /\ Y[pc'] \subseteq Flow(late, rd, pc, Y[pc])
    BY <1>2, <1>3, <1>8
  <2>2. ASSUME NEW r \in Y[pc'] PROVE r \in over' \/ <<env'[r], Kind(rd)>> \in ok'
    <3>1. /\ r # i.d
          /\ r \in Y[pc] \/ (r = i.o /\ r \in Regs /\ i.op = IF rd THEN "get" ELSE "put")
      BY <1>0, <1>2, <2>1, <2>2, FlowFacts DEF i
    <3>2. r \in Regs /\ env'[r] = env[r] /\ (r \in over => r \in over')
      BY <1>5, <2>1, <3>1
    <3>3. CASE r \in Y[pc]
      BY <1>4, <2>1, <3>2, <3>3 DEF MarksHold
    <3>4. CASE r = i.o /\ rd
      <4>1. Kind(rd) = "read"
        BY <3>4 DEF Kind
      <4>2. CASE pc \in barrier
        BY <1>4, <3>2, <3>4, <4>1, <4>2
      <4>3. CASE pc \notin barrier /\ r \notin over
        <5>1. RemovedWasChecked
          BY RemovedChecked
        <5>2. env[i.o] # Null
          BY <1>0, <3>2, <3>4 DEF NotNull
        <5>3. <<env[i.o], "read">> \in ok
          BY <1>0, <3>2, <3>4, <4>3, <5>1, <5>2 DEF RemovedWasChecked, i
        <5> QED
          BY <1>4, <3>2, <3>4, <4>1, <5>3
      <4> QED
        BY <3>2, <4>2, <4>3
    <3> QED
      BY <1>0, <3>1, <3>3, <3>4
  <2>3. KnownOverwritten(Y)'
    <3> SUFFICES ASSUME NEW r \in Regs, NEW p \in Positions, origin'[r] = p,
                        At(p).op \in {"new", "move"}, r \in Y[p]
                 PROVE  r \in over'
      BY <1>2 DEF KnownOverwritten
    <3>1. r # i.d
      BY <1>0, <1>6 DEF i
    <3> QED
      BY <1>5, <1>6, <2>1, <3>1 DEF KnownOverwritten
  <2> QED
    BY <2>2, <2>3 DEF MarksHold
<1> QED
  BY <1>0, <1>2, <1>7, <1>8, RunStep

LEMMA PutKeeps ==
    ASSUME IInv, Put
    PROVE  IInv'
<1> DEFINE i == At(pc)
<1>0. /\ phase = "run" /\ pc \in Positions /\ i.op = "put" /\ NotNull(i.o)
      /\ ok' = Checked(i.o, "write") /\ Advance
      /\ UNCHANGED <<prog, compiler>> /\ UNCHANGED <<env, origin, over>>
  BY DEF Put, Running
<1>2. /\ i \in Instruction /\ pc' \in Blocks \X Nat /\ InMethod'
      /\ Positions' = Positions /\ \A p : At(p)' = At(p)
      /\ \A late \in BOOLEAN, rd \in BOOLEAN : \A Y \in Marks :
           Sound(late, rd, Y) => Y[pc'] \subseteq Flow(late, rd, pc, Y[pc])
  BY <1>0, AdvanceFacts
<1>3. /\ ok \subseteq Objects \X {"read", "write"} /\ env \in [Regs -> Objects \cup {Null}]
      /\ Null \notin Objects
      /\ \A late \in BOOLEAN, rd \in BOOLEAN : \A Y \in Marks :
           Sound(late, rd, Y) => MarksHold(rd, Y) /\ KnownOverwritten(Y)
      /\ \A Y \in Marks : Y[pc] \subseteq Regs
  BY <1>0, RunFacts
<1> HIDE DEF i
<1>4. /\ ok \subseteq ok' /\ ok' \subseteq Objects \X {"read", "write"}
      /\ pc \in barrier /\ i.o \in Regs => <<env[i.o], "write">> \in ok'
  <2>1. i.o \in Regs => env[i.o] \in Objects
    BY <1>0, <1>3 DEF NotNull
  <2> QED
    BY <1>0, <1>3, <2>1 DEF Checked
<1>5. TypeOK'
  BY <1>0, <1>2, <1>4 DEF IInv, TypeOK, compiler
<1>6. ASSUME NEW late \in BOOLEAN, NEW rd \in BOOLEAN, NEW Y \in Marks, Sound(late, rd, Y)
      PROVE  MarksHold(rd, Y)' /\ KnownOverwritten(Y)'
  <2>1. MarksHold(rd, Y) /\ KnownOverwritten(Y) /\ Y[pc] \subseteq Regs
        /\ Y[pc'] \subseteq Flow(late, rd, pc, Y[pc])
    BY <1>2, <1>3, <1>6
  <2>2. ASSUME NEW r \in Y[pc'] PROVE r \in over \/ <<env[r], Kind(rd)>> \in ok'
    <3>1. r \in Y[pc] \/ (r = i.o /\ r \in Regs /\ i.op = IF rd THEN "get" ELSE "put")
      BY <1>0, <1>2, <2>1, <2>2, FlowFacts DEF i
    <3>2. CASE r \in Y[pc]
      BY <1>4, <2>1, <3>2 DEF MarksHold
    <3>3. CASE r = i.o /\ r \in Regs /\ ~rd
      <4>1. Kind(rd) = "write"
        BY <3>3 DEF Kind
      <4>2. CASE pc \in barrier
        BY <1>4, <3>3, <4>1, <4>2
      <4>3. CASE pc \notin barrier /\ r \notin over
        <5>1. RemovedWasChecked
          BY RemovedChecked
        <5>2. env[i.o] # Null
          BY <1>0, <3>3 DEF NotNull
        <5>3. <<env[i.o], "write">> \in ok
          BY <1>0, <3>3, <4>3, <5>1, <5>2 DEF RemovedWasChecked, i
        <5> QED
          BY <1>4, <3>3, <4>1, <5>3
      <4> QED
        BY <4>2, <4>3
    <3> QED
      BY <1>0, <3>1, <3>2, <3>3
  <2>3. KnownOverwritten(Y)'
    BY <1>0, <1>2, <2>1 DEF KnownOverwritten
  <2> QED
    BY <1>0, <2>2, <2>3 DEF MarksHold
<1> QED
  BY <1>0, <1>2, <1>5, <1>6, RunStep

LEMMA NewKeeps ==
    ASSUME IInv, New
    PROVE  IInv'
<1> DEFINE i == At(pc)
<1>0. /\ phase = "run" /\ pc \in Positions /\ i.op = "new" /\ Advance /\ Defined(i.d)
      /\ Overwrites(i.d, NoReg) /\ UNCHANGED <<prog, compiler>>
  BY DEF New, Running
<1>1. PICK v \in Objects \ {env[r] : r \in Regs} :
        /\ env' = [env EXCEPT ![i.d] = v]
        /\ ok' = {c \in ok : c[1] # v} \cup (IF pc \in barrier THEN {v} \X {"read", "write"} ELSE {})
  BY DEF New
<1>2. /\ i \in Instruction /\ pc' \in Blocks \X Nat /\ InMethod'
      /\ Positions' = Positions /\ \A p : At(p)' = At(p)
      /\ \A late \in BOOLEAN, rd \in BOOLEAN : \A Y \in Marks :
           Sound(late, rd, Y) => Y[pc'] \subseteq Flow(late, rd, pc, Y[pc])
  BY <1>0, AdvanceFacts
<1>3. /\ ok \subseteq Objects \X {"read", "write"} /\ env \in [Regs -> Objects \cup {Null}]
      /\ over \subseteq Regs /\ origin \in [Regs -> (0..N) \X Nat]
      /\ \A late \in BOOLEAN, rd \in BOOLEAN : \A Y \in Marks :
           Sound(late, rd, Y) => MarksHold(rd, Y) /\ KnownOverwritten(Y)
      /\ \A Y \in Marks : Y[pc] \subseteq Regs
  BY <1>0, RunFacts
<1>4. i.d \in Regs
  BY <1>0, <1>2 DEF Instruction
<1> HIDE DEF i
<1>5. /\ ok' \subseteq Objects \X {"read", "write"} /\ env' \in [Regs -> Objects \cup {Null}]
      /\ env'[i.d] = v /\ \A r \in Regs : r # i.d => env'[r] = env[r]
  BY <1>1, <1>3, <1>4
<1>6. \A r \in Regs : \A k : r # i.d /\ <<env[r], k>> \in ok => <<env'[r], k>> \in ok'
  <2> SUFFICES ASSUME NEW r \in Regs, NEW k, r # i.d, <<env[r], k>> \in ok
               PROVE  <<env'[r], k>> \in ok'
    OBVIOUS
  <2>1. env[r] # v /\ env'[r] = env[r] /\ <<env[r], k>>[1] = env[r]
    BY <1>1, <1>5
  <2> QED
    BY <1>1, <2>1
<1>7. /\ origin' \in [Regs -> (0..N) \X Nat] /\ origin'[i.d] = pc
      /\ \A r \in Regs : r # i.d => origin'[r] = origin[r]
  <2>1. pc \in (0..N) \X Nat
    BY DEF IInv, TypeOK, Blocks
  <2> QED
    BY <1>0, <1>3, <1>4, <2>1 DEF Defined
<1>8. over \subseteq over' /\ over' \subseteq Regs /\ (Replaced(i.d) => i.d \in over')
  BY <1>0, <1>3, <1>4 DEF Overwrites
<1>9. TypeOK'
  BY <1>0, <1>2, <1>5, <1>7, <1>8 DEF IInv, TypeOK, compiler
<1>10. ASSUME NEW late \in BOOLEAN, NEW rd \in BOOLEAN, NEW Y \in Marks, Sound(late, rd, Y)
       PROVE  MarksHold(rd, Y)' /\ KnownOverwritten(Y)'
  <2>1. MarksHold(rd, Y) /\ KnownOverwritten(Y) /\ Y[pc] \subseteq Regs
        /\ Y[pc'] \subseteq Flow(late, rd, pc, Y[pc])
    BY <1>2, <1>3, <1>10
  <2>2. ASSUME NEW r \in Y[pc'] PROVE r \in over' \/ <<env'[r], Kind(rd)>> \in ok'
    <3>1. (r \in Y[pc] /\ r # i.d) \/ (r = i.d /\ late /\ pc \in calls)
      BY <1>0, <1>2, <2>1, <2>2, FlowFacts DEF i
    <3>2. CASE r \in Y[pc] /\ r # i.d
      BY <1>6, <1>8, <2>1, <3>2 DEF MarksHold
    <3>3. CASE r = i.d /\ pc \in calls
      <4>1. pc \in barrier
        BY <1>0, <3>3 DEF IInv, Compiled, CallsKept, i
      <4>2. Kind(rd) \in {"read", "write"}
        BY DEF Kind
      <4> QED
        BY <1>1, <1>5, <3>3, <4>1, <4>2
    <3> QED
      BY <3>1, <3>2, <3>3
  <2>3. KnownOverwritten(Y)'
    <3> SUFFICES ASSUME NEW r \in Regs, NEW p \in Positions, origin'[r] = p,
                        At(p).op \in {"new", "move"}, r \in Y[p]
                 PROVE  r \in over'
      BY <1>2 DEF KnownOverwritten
    <3>1. CASE r = i.d
      <4>1. r \in Y[pc]
        BY <1>7, <3>1
      <4>2. At(pc).op \in {"new", "move"}
        BY <1>0 DEF i
      <4>3. r \in over \/ Replaced(r)
        BY <1>0, <1>10, <4>1, <4>2, KnownReplaced
      <4> QED
        BY <1>8, <3>1, <4>3
    <3>2. CASE r # i.d
      BY <1>7, <1>8, <2>1, <3>2 DEF KnownOverwritten
    <3> QED
      BY <3>1, <3>2
  <2> QED
    BY <2>2, <2>3 DEF MarksHold
<1> QED
  BY <1>0, <1>2, <1>9, <1>10, RunStep

LEMMA MoveKeeps ==
    ASSUME IInv, Move
    PROVE  IInv'
<1> DEFINE i == At(pc)
<1>0. /\ phase = "run" /\ pc \in Positions /\ i.op = "move" /\ Advance /\ Defined(i.d)
      /\ Overwrites(i.d, i.o) /\ UNCHANGED <<prog, compiler>> /\ ok' = ok
  BY DEF Move, Running
<1>1. PICK v \in IF i.o \in Regs THEN {env[i.o]} ELSE Objects \cup {Null} :
        env' = [env EXCEPT ![i.d] = v]
  BY DEF Move
<1>2. /\ i \in Instruction /\ pc' \in Blocks \X Nat /\ InMethod'
      /\ Positions' = Positions /\ \A p : At(p)' = At(p)
      /\ \A late \in BOOLEAN, rd \in BOOLEAN : \A Y \in Marks :
           Sound(late, rd, Y) => Y[pc'] \subseteq Flow(late, rd, pc, Y[pc])
  BY <1>0, AdvanceFacts
<1>3. /\ ok \subseteq Objects \X {"read", "write"} /\ env \in [Regs -> Objects \cup {Null}]
      /\ over \subseteq Regs /\ origin \in [Regs -> (0..N) \X Nat]
      /\ \A late \in BOOLEAN, rd \in BOOLEAN : \A Y \in Marks :
           Sound(late, rd, Y) => MarksHold(rd, Y) /\ KnownOverwritten(Y)
      /\ \A Y \in Marks : Y[pc] \subseteq Regs
  BY <1>0, RunFacts
<1>4. i.d \in Regs
  BY <1>0, <1>2 DEF Instruction
<1> HIDE DEF i
<1>5. /\ env' \in [Regs -> Objects \cup {Null}] /\ (i.o \in Regs => env'[i.d] = env[i.o])
      /\ \A r \in Regs : r # i.d => env'[r] = env[r]
  BY <1>1, <1>3, <1>4
<1>6. /\ origin' \in [Regs -> (0..N) \X Nat] /\ origin'[i.d] = pc
      /\ \A r \in Regs : r # i.d => origin'[r] = origin[r]
  <2>1. pc \in (0..N) \X Nat
    BY DEF IInv, TypeOK, Blocks
  <2> QED
    BY <1>0, <1>3, <1>4, <2>1 DEF Defined
<1>7. /\ over \subseteq over' /\ over' \subseteq Regs
      /\ Replaced(i.d) \/ i.o \in over => i.d \in over'
  BY <1>0, <1>3, <1>4 DEF Overwrites
<1>8. TypeOK'
  BY <1>0, <1>2, <1>3, <1>5, <1>6, <1>7 DEF IInv, TypeOK, compiler
<1>9. ASSUME NEW late \in BOOLEAN, NEW rd \in BOOLEAN, NEW Y \in Marks, Sound(late, rd, Y)
      PROVE  MarksHold(rd, Y)' /\ KnownOverwritten(Y)'
  <2>1. MarksHold(rd, Y) /\ KnownOverwritten(Y) /\ Y[pc] \subseteq Regs
        /\ Y[pc'] \subseteq Flow(late, rd, pc, Y[pc])
    BY <1>2, <1>3, <1>9
  <2>2. i.d \in Y[pc] => i.d \in over'
    <3>1. At(pc).op \in {"new", "move"}
      BY <1>0 DEF i
    <3>2. i.d \in Y[pc] => i.d \in over \/ Replaced(i.d)
      BY <1>0, <1>9, <3>1, KnownReplaced
    <3> QED
      BY <1>7, <3>2
  <2>3. ASSUME NEW r \in Y[pc'] PROVE r \in over' \/ <<env'[r], Kind(rd)>> \in ok'
    <3>1. r \in Y[pc] \/ (r = i.d /\ i.o \in Y[pc])
      BY <1>0, <1>2, <2>1, <2>3, FlowFacts DEF i
    <3>2. CASE r \in Y[pc] /\ r # i.d
      <4>1. env'[r] = env[r]
        BY <1>5, <2>1, <3>2
      <4> QED
        BY <1>0, <1>7, <2>1, <3>2, <4>1 DEF MarksHold
    <3>3. CASE r = i.d /\ i.o \in Y[pc]
      <4>1. env'[r] = env[i.o] /\ (i.o \in over => r \in over')
        BY <1>5, <1>7, <2>1, <3>3
      <4> QED
        BY <1>0, <2>1, <3>3, <4>1 DEF MarksHold
    <3> QED
      BY <2>2, <3>1, <3>2, <3>3
  <2>4. KnownOverwritten(Y)'
    <3> SUFFICES ASSUME NEW r \in Regs, NEW p \in Positions, origin'[r] = p,
                        At(p).op \in {"new", "move"}, r \in Y[p]
                 PROVE  r \in over'
      BY <1>2 DEF KnownOverwritten
    <3>1. CASE r = i.d
      BY <1>6, <2>2, <3>1
    <3>2. CASE r # i.d
      BY <1>6, <1>7, <2>1, <3>2 DEF KnownOverwritten
    <3> QED
      BY <3>1, <3>2
  <2> QED
    BY <2>3, <2>4 DEF MarksHold
<1> QED
  BY <1>0, <1>2, <1>8, <1>9, RunStep

\* From the end of a block to one that follows it.
\* What a pass knows at the end of a block and has not learnt in the rest of the
\* block that an exception skips, it knew where the exception was thrown.
LEMMA KnownBeforeSkipped ==
    ASSUME prog \in Programs, pc \in Positions, NEW late, NEW rd, NEW Y \in Marks,
           Sound(late, rd, Y), NEW r \in Y[End(pc[1])], r \notin Skipped
    PROVE  r \in Y[pc]
<1> DEFINE b == pc[1]
           n == Len(prog.code[b])
           Good == {k \in pc[2]..(n + 1) : r \in Y[<<b, k>>]}
<1>1. /\ b \in Blocks /\ pc[2] \in 1..n /\ n \in Nat /\ pc = <<b, pc[2]>>
      /\ \A k \in 1..n : <<b, k>> \in Positions /\ At(<<b, k>>) \in Instruction
      /\ r \in Regs
  <2>1. /\ b \in Blocks /\ pc[2] \in 1..n /\ n \in Nat /\ pc = <<b, pc[2]>>
        /\ \A k \in 1..n : <<b, k>> \in Positions
    BY MethodFacts, PositionFacts
  <2>2. \A k \in 1..n : At(<<b, k>>) \in Instruction
    BY <2>1, PositionFacts
  <2>3. End(b) \in Points
    BY <2>1, MethodFacts
  <2> QED
    BY <2>1, <2>2, <2>3 DEF Marks
<1>2. n + 1 \in Good
  BY <1>1 DEF End
<1>3. ASSUME NEW k \in pc[2]..n, k + 1 \in Good PROVE k \in Good
  <2> DEFINE p == <<b, k>>
  <2>1. p \in Positions /\ At(p) \in Instruction /\ p[1] = b /\ p[2] = k /\ k \in 1..n
    BY <1>1
  <2>2. r \in Y[<<b, k + 1>>]
    BY <1>3
  <2>3. p \in Points
    BY <2>1, PositionFacts
  <2>4. ~(r = IF At(p).op \in {"get", "put"} THEN At(p).o ELSE At(p).d)
    BY <1>1 DEF Skipped
  <2> HIDE DEF p
  <2>5. r \in Flow(late, rd, p, Y[p]) /\ Y[p] \in SUBSET Regs
    BY <2>1, <2>2, <2>3 DEF Sound, Marks
  <2>6. At(p).op \in {"get", "put", "new", "move"}
    BY <2>1 DEF Instruction
  <2>7. r \in Y[p]
    BY <2>1, <2>4, <2>5, <2>6, FlowFacts
  <2> QED
    BY <1>1, <2>7 DEF p
<1>4. Good \subseteq Nat /\ Good # {}
  BY <1>1, <1>2
<1>5. PICK k \in Good : \A j \in Good : k <= j
  <2> HIDE DEF Good
  <2> QED
    BY <1>4, LeastMember
<1>6. k = pc[2]
  <2>1. SUFFICES ASSUME k # pc[2] PROVE FALSE
    OBVIOUS
  <2>2. k - 1 \in pc[2]..n /\ (k - 1) + 1 = k /\ ~(k <= k - 1)
    BY <1>1, <2>1
  <2>3. k - 1 \in Good
    <3> HIDE DEF Good
    <3> QED
      BY <1>3, <2>2
  <2> QED
    BY <1>5, <2>2, <2>3
<1> QED
  BY <1>1, <1>6

LEMMA ThrowKeeps ==
    ASSUME IInv, Throw
    PROVE  IInv'
<1>0. /\ phase = "run" /\ pc \in Positions /\ UNCHANGED <<prog, compiler>>
      /\ UNCHANGED <<env, ok, origin>> /\ over' = over \cup Skipped
  BY DEF Throw
<1>1. PICK b \in prog.handlers[pc[1]] : pc' = <<b, 1>>
  BY DEF Throw
<1>2. prog \in Programs /\ pc[1] \in Blocks
  BY <1>0, PositionFacts DEF IInv, InMethod
<1>3. b \in Blocks /\ Len(prog.code[b]) \in Nat
  BY <1>1, <1>2, MethodFacts
<1>4. pc' \in Blocks \X Nat /\ InMethod' /\ Positions' = Positions /\ \A p : At(p)' = At(p)
  BY <1>0, <1>1, <1>2, <1>3 DEF InMethod, Positions, At
<1>5. over' \subseteq Regs
  BY <1>0 DEF IInv, TypeOK, Skipped
<1>6. TypeOK'
  BY <1>0, <1>4, <1>5 DEF IInv, TypeOK, compiler
<1>7. ASSUME NEW late \in BOOLEAN, NEW rd \in BOOLEAN, NEW Y \in Marks, Sound(late, rd, Y)
      PROVE  MarksHold(rd, Y)' /\ KnownOverwritten(Y)'
  <2>1. MarksHold(rd, Y) /\ KnownOverwritten(Y)
    BY <1>0, <1>7, RunFacts
  <2>2. pc[1] \in Pred(b)
    BY <1>1, <1>2 DEF Pred
  <2>3. \A r \in Y[<<b, 1>>] : r \in Y[End(pc[1])]
    BY <1>3, <1>7, <2>2 DEF Sound
  <2>4. \A r \in Y[pc'] : r \in Y[pc] \/ r \in Skipped
    BY <1>0, <1>1, <1>2, <1>7, <2>3, KnownBeforeSkipped
  <2>5. MarksHold(rd, Y)'
    BY <1>0, <2>1, <2>4 DEF MarksHold
  <2>6. KnownOverwritten(Y)'
    BY <1>0, <1>4, <2>1 DEF KnownOverwritten
  <2> QED
    BY <2>5, <2>6
<1> QED
  BY <1>0, <1>4, <1>6, <1>7, RunStep

LEMMA BranchKeeps ==
    ASSUME IInv, Branch
    PROVE  IInv'
<1>0. /\ phase = "run" /\ pc \notin Positions /\ UNCHANGED <<prog, compiler>>
      /\ UNCHANGED <<env, ok, origin, over>>
  BY DEF Branch
<1>1. PICK b \in prog.succ[pc[1]] : pc' = <<b, 1>>
  BY DEF Branch
<1>2. /\ prog \in Programs /\ pc \in Blocks \X Nat /\ pc[1] \in Blocks /\ pc = <<pc[1], pc[2]>>
      /\ pc[2] \in 1..(Len(prog.code[pc[1]]) + 1)
  BY DEF IInv, TypeOK, InMethod
<1>3. b \in Blocks /\ Len(prog.code[pc[1]]) \in Nat /\ Len(prog.code[b]) \in Nat
  BY <1>1, <1>2, MethodFacts
<1>4. pc = End(pc[1])
  <2>1. pc[2] \notin 1..Len(prog.code[pc[1]])
    <3>1. <<pc[1], pc[2]>> \notin Positions
      BY <1>0, <1>2
    <3> QED
      BY <1>2, <3>1, PositionFacts
  <2>2. pc[2] = Len(prog.code[pc[1]]) + 1
    BY <1>2, <1>3, <2>1
  <2> QED
    BY <1>2, <2>2 DEF End
<1>5. pc' \in Blocks \X Nat /\ InMethod' /\ Positions' = Positions /\ \A p : At(p)' = At(p)
  BY <1>0, <1>1, <1>2, <1>3 DEF InMethod, Positions, At
<1>6. TypeOK'
  BY <1>0, <1>5 DEF IInv, TypeOK, compiler
<1>7. ASSUME NEW late \in BOOLEAN, NEW rd \in BOOLEAN, NEW Y \in Marks, Sound(late, rd, Y)
      PROVE  MarksHold(rd, Y)' /\ KnownOverwritten(Y)'
  <2>1. MarksHold(rd, Y) /\ KnownOverwritten(Y)
    BY <1>0, <1>7, RunFacts
  <2>2. pc[1] \in Pred(b)
    BY <1>1, <1>2 DEF Pred
  <2>3. \A r \in Y[<<b, 1>>] : r \in Y[End(pc[1])]
    BY <1>3, <1>7, <2>2 DEF Sound
  <2>4. \A r \in Y[pc'] : r \in Y[pc]
    BY <1>1, <1>4, <2>3
  <2>5. MarksHold(rd, Y)'
    BY <1>0, <2>1, <2>4 DEF MarksHold
  <2>6. KnownOverwritten(Y)'
    BY <1>0, <1>5, <2>1 DEF KnownOverwritten
  <2> QED
    BY <2>5, <2>6
<1> QED
  BY <1>0, <1>5, <1>6, <1>7, RunStep

-----------------------------------------------------------------------------
(* The specification.                                                      *)

LEMMA InitIInv == Init => IInv
<1> SUFFICES ASSUME Init PROVE IInv
  OBVIOUS
<1> USE DEF Init
<1>1. /\ prog \in Programs /\ N \in Nat /\ 1 \in Blocks
      /\ Len(prog.code[1]) \in Nat
  BY MethodFacts
<1>2. TypeOK
  <2>1. Empty \in [Blocks -> SUBSET Regs] /\ <<1, 1>> \in Blocks \X Nat
        /\ <<0, 0>> \in (0..N) \X Nat /\ 1 \in 1..(N + 1)
    BY <1>1 DEF Empty
  <2> QED
    BY <2>1 DEF TypeOK
<1>3. InMethod
  BY <1>1 DEF InMethod
<1>4. PassSound
  <2>1. PICK Y \in Marks : (\A late, rd : Sound(late, rd, Y)) /\ \A b \in Blocks : Y[End(b)] = Empty[b]
    BY <1>1, EmptySound
  <2>2. Sound(phase = "late", reads, Y)
    BY <2>1
  <2> QED
    BY <2>1, <2>2 DEF PassSound
<1>5. RedJustified /\ BarriersJustified /\ CallsKept /\ NotStarted /\ Executed
  BY DEF RedJustified, BarriersJustified, CallsKept, NotStarted, Executed
<1> QED
  BY <1>2, <1>3, <1>4, <1>5 DEF IInv, Compiled

LEMMA StutterKeeps ==
    ASSUME IInv, UNCHANGED vars
    PROVE  IInv'
<1>0. UNCHANGED <<prog, phase, reads, bb, changed, scratch, red, barrier, calls>>
      /\ UNCHANGED <<pc, env, ok, origin, over>>
  BY DEF vars
<1>1. PassSound' /\ RedJustified' /\ BarriersJustified' /\ CallsKept'
  BY <1>0, SamePass
<1>2. /\ Positions' = Positions /\ \A p : At(p)' = At(p)
      /\ \A late, rd, Y : Sound(late, rd, Y)' <=> Sound(late, rd, Y)
  BY <1>0, SameMethod
<1>3. TypeOK' /\ InMethod' /\ NotStarted'
  BY <1>0, <1>2 DEF IInv, TypeOK, InMethod, Compiled, NotStarted
<1>4. Executed'
  <2>1. \A rd, Y : (MarksHold(rd, Y)' <=> MarksHold(rd, Y))
                   /\ (KnownOverwritten(Y)' <=> KnownOverwritten(Y))
    BY <1>0, <1>2 DEF MarksHold, KnownOverwritten
  <2> QED
    BY <1>0, <1>2, <2>1 DEF IInv, Executed
<1> QED
  BY <1>1, <1>3, <1>4 DEF IInv, Compiled

LEMMA NextIInv == IInv /\ [Next]_vars => IInv'
  BY AnalyseKeeps, NextRoundKeeps, WritesPassKeeps, ExpandKeeps, RemoveKeeps, GetKeeps,
     PutKeeps, NewKeeps, MoveKeeps, BranchKeeps, ThrowKeeps, StutterKeeps DEF Next, Compile

LEMMA SpecIInv == Spec => []IInv
  BY InitIInv, NextIInv, PTL DEF Spec

\* The variables of the compiler and of the execution keep their types.
THEOREM TypeCorrect == Spec => []TypeOK
<1>1. IInv => TypeOK
  BY DEF IInv
<1> QED
  BY <1>1, SpecIInv, PTL

\* computeRedundantReadBarriers and computeRedundantBarriers remove no barrier
\* that an execution of the method needs, also where it goes through handlers, but
\* for registers that a move or an allocation overwrites and those whose barrier
\* an exception skipped.
THEOREM RemovedWasCheckedHolds == Spec => []RemovedWasChecked
  BY RemovedChecked, SpecIInv, PTL

-----------------------------------------------------------------------------
(* Methods for which there is no exception to make.                        *)

\* A register that a move or an allocation defines is defined nowhere else, and
\* the method catches nothing.
SingleAssignment(p) ==
    /\ \A b \in Blocks : p.handlers[b] = {}
    /\ \A b, c \in Blocks : \A i \in DOMAIN p.code[b], j \in DOMAIN p.code[c] :
         p.code[b][i].op \in {"new", "move"} =>
             /\ p.code[b][i].d \notin Params
             /\ p.code[c][j].d = p.code[b][i].d => c = b /\ j = i

\* RemovedWasChecked without its exceptions.
AlwaysChecked ==
    phase = "run" /\ pc \in Positions \ barrier =>
        LET i == At(pc) IN
        /\ i.op # "new"
        /\ i.op \in {"get", "put"} /\ i.o \in Regs /\ env[i.o] # Null
             => <<env[i.o], IF i.op = "get" THEN "read" ELSE "write">> \in ok

\* A register holds what its one definition has put there.
OwnValue ==
    /\ over = {}
    /\ \A r \in Regs \ Params :
         env[r] # Null => origin[r] \in Positions /\ At(origin[r]).d = r

\* No move or allocation of such a method overwrites a value of another one.
LEMMA NothingReplaced ==
    ASSUME SingleAssignment(prog), IInv, OwnValue, pc \in Positions,
           At(pc).op \in {"new", "move"}
    PROVE  At(pc).d \in Regs \ Params /\ ~Replaced(At(pc).d)
<1>1. prog \in Programs /\ pc[1] \in Blocks /\ pc[2] \in DOMAIN prog.code[pc[1]]
      /\ pc = <<pc[1], pc[2]>> /\ At(pc) \in Instruction
  BY PositionFacts, MethodFacts DEF IInv, InMethod
<1>2. At(pc).d \in Regs \ Params
  BY <1>1 DEF SingleAssignment, At, Instruction
<1>3. ASSUME env[At(pc).d] # Null PROVE origin[At(pc).d] = pc
  <2> DEFINE q == origin[At(pc).d]
  <2>1. q \in Positions /\ At(q).d = At(pc).d
    BY <1>2, <1>3 DEF OwnValue
  <2> HIDE DEF q
  <2>2. q[1] \in Blocks /\ q[2] \in DOMAIN prog.code[q[1]] /\ q = <<q[1], q[2]>>
    BY <1>1, <2>1, PositionFacts, MethodFacts
  <2>3. q[1] = pc[1] /\ q[2] = pc[2]
    BY <1>1, <2>1, <2>2 DEF SingleAssignment, At
  <2> QED
    BY <1>1, <2>2, <2>3 DEF q
<1> QED
  BY <1>2, <1>3 DEF Replaced

LEMMA OwnValueKept ==
    ASSUME SingleAssignment(prog), IInv, OwnValue, [Next]_vars
    PROVE  OwnValue'
<1>0. /\ prog \in Programs /\ pc[1] \in Blocks /\ env \in [Regs -> Objects \cup {Null}]
      /\ origin \in [Regs -> (0..N) \X Nat]
  BY DEF IInv, InMethod, TypeOK
<1>1. prog' = prog => Positions' = Positions /\ \A p : At(p)' = At(p)
  BY DEF Positions, At
<1>2. CASE UNCHANGED <<prog, env, origin, over>>
  BY <1>1, <1>2 DEF OwnValue
<1>3. CASE Remove
  BY <1>1, <1>3 DEF Remove, OwnValue
<1>4. CASE Get
  <2>1. /\ prog' = prog /\ pc \in Positions /\ over' = over \ {At(pc).d}
        /\ \A r \in Regs : r # At(pc).d => env'[r] = env[r] /\ origin'[r] = origin[r]
        /\ At(pc).d \in Regs => origin'[At(pc).d] = pc
    BY <1>0, <1>4 DEF Get, Running, Defined
  <2> QED
    BY <1>1, <2>1 DEF OwnValue
<1>5. CASE New \/ Move
  <2>1. /\ prog' = prog /\ pc \in Positions /\ At(pc).op \in {"new", "move"}
        /\ Defined(At(pc).d)
        /\ \E from \in {NoReg, At(pc).o} : Overwrites(At(pc).d, from)
        /\ \E v : env' = [env EXCEPT ![At(pc).d] = v]
    BY <1>5 DEF New, Move, Running
  <2>2. At(pc).d \in Regs \ Params /\ ~Replaced(At(pc).d)
    BY <2>1, NothingReplaced
  <2>3. over' = {}
    BY <2>1, <2>2 DEF Overwrites, OwnValue
  <2>4. /\ \A r \in Regs : r # At(pc).d => env'[r] = env[r] /\ origin'[r] = origin[r]
        /\ origin'[At(pc).d] = pc
    BY <1>0, <2>1, <2>2 DEF Defined
  <2> QED
    BY <1>1, <2>1, <2>3, <2>4 DEF OwnValue
<1>6. CASE Throw
  BY <1>0, <1>6 DEF Throw, SingleAssignment
<1>7. CASE AnalyseBlock \/ NextRound \/ WritesPass \/ (\E c \in SUBSET Blocks : Expand(c))
             \/ Put \/ Branch \/ UNCHANGED vars
  <2>1. UNCHANGED <<prog, env, origin, over>>
    BY <1>7 DEF AnalyseBlock, NextRound, WritesPass, Expand, Put, Branch, vars, execution
  <2> QED
    BY <1>2, <2>1
<1> QED
  BY <1>3, <1>4, <1>5, <1>6, <1>7 DEF Next, Compile

\* For a method that assigns its registers once and catches nothing, an access
\* executed without its barrier is always one to an object that passed it, and
\* every object is labeled when it is allocated.
THEOREM AssignedOnceAlwaysChecked ==
    ASSUME \A p \in Programs : SingleAssignment(p)
    PROVE  Spec => []AlwaysChecked
<1>1. Init => OwnValue
  BY DEF Init, OwnValue
<1>2. IInv /\ OwnValue /\ [Next]_vars => OwnValue'
  BY OwnValueKept DEF IInv, InMethod
<1>3. IInv /\ OwnValue => AlwaysChecked
  <2> SUFFICES ASSUME IInv, OwnValue, phase = "run", pc \in Positions \ barrier
               PROVE  LET i == At(pc) IN
                      /\ i.op # "new"
                      /\ i.op \in {"get", "put"} /\ i.o \in Regs /\ env[i.o] # Null
                           => <<env[i.o], IF i.op = "get" THEN "read" ELSE "write">> \in ok
    BY DEF AlwaysChecked
  <2>1. RemovedWasChecked /\ over = {} /\ SingleAssignment(prog)
    BY RemovedChecked DEF OwnValue, IInv, InMethod
  <2>2. At(pc).op = "new" => ~Replaced(At(pc).d)
    BY <2>1, NothingReplaced
  <2> QED
    BY <2>1, <2>2 DEF RemovedWasChecked
<1> QED
  BY <1>1, <1>2, <1>3, SpecIInv, PTL DEF Spec

\* VM._assert(thisFullRedSet.containsAll(oldFullRedSet)) never fails.
THEOREM SetsOnlyGrowHolds == Spec => SetsOnlyGrow
<1>1. ASSUME IInv, [Next]_vars
      PROVE  [bb' = bb + 1 => \A b \in Blocks : scratch[b] \subseteq scratch'[b]]_vars
  <2>1. N \in Nat /\ N >= 1 /\ bb \in Nat
    BY <1>1, MethodFacts DEF IInv, InMethod, TypeOK
  <2>2. CASE AnalyseBlock
    BY <1>1, <2>2, AnalyseKeeps
  <2>3. CASE NextRound \/ WritesPass \/ \E c \in SUBSET Blocks : Expand(c)
    <3>1. bb = N + 1 /\ bb' = 1
      BY <2>3 DEF NextRound, WritesPass, Expand, AtRoundEnd
    <3> QED
      BY <2>1, <3>1
  <2>4. CASE Remove \/ Get \/ Put \/ New \/ Move \/ Branch \/ Throw
    <3>1. bb' = bb
      BY <2>4 DEF Remove, Get, Put, New, Move, Branch, Throw, compiler
    <3> QED
      BY <2>1, <3>1
  <2>5. CASE UNCHANGED vars
    BY <2>5
  <2> QED
    BY <1>1, <2>2, <2>3, <2>4, <2>5 DEF Next, Compile
<1>2. Spec => [][bb' = bb + 1 => \A b \in Blocks : scratch[b] \subseteq scratch'[b]]_vars
  BY <1>1, SpecIInv, PTL DEF Spec
<1> QED
  BY <1>2 DEF SetsOnlyGrow

============================================================================
