----------------------------- MODULE BarrierElim -----------------------------
(***************************************************************************)
(* Redundant barrier elimination in the optimizing compiler.  A method is  *)
(* a graph of basic blocks.  ExpandRuntimeServices puts a barrier before   *)
(* every field or array access and after every allocation, except where a  *)
(* forward analysis finds it redundant: the object in the register was     *)
(* checked, or allocated, on every path to the instruction.  The barriers  *)
(* of hot blocks are inlined; RemoveRedundantDIFCBarriers runs the same    *)
(* analysis over the ones that are still calls and deletes what it finds.  *)
(* The compiled method is then executed.                                   *)
(*                                                                         *)
(* A get, put or new stands for the field and the array form.  A null      *)
(* check, a refused barrier or a failed allocation leaves a block in the   *)
(* middle, for a handler of the method or for the caller.  The phases      *)
(* between the two analyses, which keep the meaning of the code, and calls *)
(* that change the thread's labels are left out.                           *)
(***************************************************************************)
EXTENDS Naturals, Sequences, FiniteSets

CONSTANTS N,          \* the number of basic blocks, 1..N in code order
          Regs,
          Params,     \* the registers that hold arguments
          Objects,
          Const,      \* a constant operand
          NoReg,      \* no operand
          Null,
          Programs    \* the methods to compile: [code, succ, handlers]

Blocks == 1..N

\* o is the object accessed, or the source of a move; d the register defined.
Instruction ==
    {i \in [op : {"get", "put", "new", "move"}, o : Regs \cup {Const, NoReg},
            d : Regs \cup {NoReg}] :
        i.op \in {"new", "move"} => i.d \in Regs}

\* A method starts in a block of its own, the prologue, that no branch and no
\* exception goes to.
ASSUME BarrierElimAssumption ==
    /\ N \in Nat \ {0}
    /\ Params \subseteq Regs
    /\ Const \notin Regs /\ NoReg \notin Regs /\ Const # NoReg
    /\ Null \notin Objects
    /\ \A p \in Programs :
         /\ DOMAIN p.code = Blocks
         /\ p.succ \in [Blocks -> SUBSET Blocks] /\ p.handlers \in [Blocks -> SUBSET Blocks]
         /\ \A b \in Blocks : /\ p.code[b] \in Seq(Instruction)
                              /\ 1 \notin p.succ[b] \cup p.handlers[b]

VARIABLES prog,
          phase,      \* "early" and "late" analysis, then "run"
          reads,      \* which barriers this pass looks at
          bb,         \* the block of the analysis, N + 1 at the end of a round
          changed,
          scratch,    \* scratchObject: the registers checked at a block's end
          red,        \* fullRedInsts, of both passes
          barrier,    \* the instructions that have a barrier
          calls,      \* the ones whose barrier is a call
          pc, env,    \* execution: the next instruction and the registers
          ok,         \* history: <<object, kind>> that passed a barrier
          origin,     \* history: the instruction that last defined a register
          over        \* history: registers overwritten by a move or an allocation,
                      \* and those of the code that an exception skipped

vars == <<prog, phase, reads, bb, changed, scratch, red, barrier, calls, pc, env, ok, origin, over>>
compiler == <<phase, reads, bb, changed, scratch, red, barrier, calls>>
execution == <<pc, env, ok, origin, over>>

-----------------------------------------------------------------------------
Positions == UNION {{b} \X DOMAIN prog.code[b] : b \in Blocks}
At(p) == prog.code[p[1]][p[2]]

\* bb.getIn() has the exceptional edges as well as the normal ones.
Pred(b) == {q \in Blocks : b \in prog.succ[q] \cup prog.handlers[q]}

Empty == [b \in Blocks |-> {}]

Init ==
    /\ prog \in Programs
    /\ phase = "early" /\ reads = TRUE /\ bb = 1 /\ changed = FALSE
    /\ scratch = Empty
    /\ red = {} /\ barrier = {} /\ calls = {}
    /\ pc = <<1, 1>> /\ env = [r \in Regs |-> Null] /\ ok = {}
    /\ origin = [r \in Regs |-> <<0, 0>>] /\ over = {}

-----------------------------------------------------------------------------
(* The analysis.                                                           *)

\* The operand whose barrier the current pass looks at, or NoReg.
UseOperand(p) ==
    LET i == At(p) IN
    IF phase = "late" /\ p \notin calls THEN NoReg
    ELSE IF i.op = "new" THEN i.d
    ELSE IF i.op = (IF reads THEN "get" ELSE "put") THEN i.o ELSE NoReg

\* Mutant: constants go into the set.
AfterUseConstants(p, S) == S \cup {UseOperand(p)}

AfterUse(p, S) == S \cup ({UseOperand(p)} \cap Regs)

\* A move copies the fact and never takes one away; other definitions do.
AfterDef(p, S) ==
    LET i == At(p) IN
    IF i.op = "move" THEN IF i.o \in S THEN S \cup {i.d} ELSE S
    ELSE S \ {i.d}

\* The early pass sees the access itself and looks at its definition last; the
\* barrier of an allocation comes after the instruction that defines the result.
Through(p, S) ==
    IF phase = "late" /\ At(p).op = "new" THEN AfterUse(p, AfterDef(p, S))
    ELSE AfterDef(p, AfterUse(p, S))

\* Mutant: a register checked on one of the paths counts.
AtTopAny(b) == {r \in Regs : \E q \in Pred(b) : r \in scratch[q]}

\* The registers checked at the end of every predecessor.
AtTop(b) == {r \in Regs : Pred(b) # {} /\ \A q \in Pred(b) : r \in scratch[q]}

\* The set before each instruction of a block, and after the last one.
Before(b) ==
    LET before[i \in 1..(Len(prog.code[b]) + 1)] ==
            IF i = 1 THEN AtTop(b) ELSE Through(<<b, i - 1>>, before[i - 1])
    IN  before

\* An allocation barrier is a use in the early pass and not in the late one.
Redundant(p, S) ==
    \/ UseOperand(p) = Const
    \/ UseOperand(p) \in S /\ (phase = "early" \/ At(p).op # "new")

AnalyseBlock ==
    LET before == Before(bb)
        bottom == before[Len(prog.code[bb]) + 1]
    IN  /\ phase \in {"early", "late"} /\ bb \in Blocks
        /\ red' = red \cup {p \in Positions : p[1] = bb /\ Redundant(p, before[p[2]])}
        /\ scratch' = [scratch EXCEPT ![bb] = bottom]
        /\ changed' = (changed \/ bottom # scratch[bb])
        /\ bb' = bb + 1
        /\ UNCHANGED <<prog, phase, reads, barrier, calls, execution>>

AtRoundEnd == phase \in {"early", "late"} /\ bb = N + 1

\* Mutant: the flag is not reset.
NextRoundNoReset ==
    /\ AtRoundEnd /\ changed
    /\ changed' = changed /\ bb' = 1
    /\ UNCHANGED <<prog, phase, reads, scratch, red, barrier, calls, execution>>

\* while (changed)
NextRound ==
    /\ AtRoundEnd /\ changed
    /\ changed' = FALSE /\ bb' = 1
    /\ UNCHANGED <<prog, phase, reads, scratch, red, barrier, calls, execution>>

\* Mutant: the sets start out full.
WritesPassFull ==
    /\ AtRoundEnd /\ ~changed /\ reads
    /\ reads' = FALSE /\ bb' = 1
    /\ scratch' = [b \in Blocks |-> Regs]
    /\ UNCHANGED <<prog, phase, changed, red, barrier, calls, execution>>

\* The second call, for writes, starts from empty sets.
WritesPass ==
    /\ AtRoundEnd /\ ~changed /\ reads
    /\ reads' = FALSE /\ bb' = 1
    /\ scratch' = Empty
    /\ UNCHANGED <<prog, phase, changed, red, barrier, calls, execution>>

\* Barriers are inserted; those in cold blocks, and in methods known to be in a
\* security region, are not inlined.
Expand(cold) ==
    /\ AtRoundEnd /\ ~changed /\ ~reads /\ phase = "early"
    /\ barrier' = {p \in Positions : At(p).op # "move"} \ red
    /\ calls' = {p \in barrier' : p[1] \in cold}
    /\ phase' = "late" /\ reads' = TRUE /\ bb' = 1
    /\ scratch' = Empty /\ red' = {}
    /\ UNCHANGED <<prog, changed, execution>>

\* The redundant calls are deleted; the method is called with any arguments.
Remove ==
    /\ AtRoundEnd /\ ~changed /\ ~reads /\ phase = "late"
    /\ barrier' = barrier \ red
    /\ phase' = "run" /\ scratch' = Empty
    /\ \E args \in [Params -> Objects] :
         env' = [r \in Regs |-> IF r \in Params THEN args[r] ELSE Null]
    /\ UNCHANGED <<prog, reads, bb, changed, red, calls, pc, ok, origin, over>>

-----------------------------------------------------------------------------
(* Execution.                                                              *)

Running(op) == phase = "run" /\ pc \in Positions /\ At(pc).op = op
Advance == pc' = <<pc[1], pc[2] + 1>>

\* A barrier that passes, for an access through a register.
Checked(o, kind) == IF pc \in barrier /\ o \in Regs THEN ok \cup {<<env[o], kind>>} ELSE ok

\* The null check comes first.
NotNull(o) == o \in Regs => env[o] # Null

\* The instruction overwrites a value that another one, or the call, put in d.
Replaced(d) == env[d] # Null /\ origin[d] # pc
Defined(d) == origin' = IF d \in Regs THEN [origin EXCEPT ![d] = pc] ELSE origin
Overwrites(d, from) ==
    over' = IF Replaced(d) \/ from \in over THEN over \cup {d} ELSE over

Get ==
    LET i == At(pc) IN
    /\ Running("get") /\ NotNull(i.o)
    /\ ok' = Checked(i.o, "read")
    /\ \E v \in Objects : env' = [r \in Regs |-> IF r = i.d THEN v ELSE env[r]]
    /\ Defined(i.d) /\ over' = over \ {i.d}
    /\ Advance /\ UNCHANGED <<prog, compiler>>

Put ==
    /\ Running("put") /\ NotNull(At(pc).o)
    /\ ok' = Checked(At(pc).o, "write")
    /\ Advance /\ UNCHANGED <<prog, compiler, env, origin, over>>

\* A new object has passed nothing before its barrier labels it.
New ==
    /\ Running("new")
    /\ \E v \in Objects \ {env[r] : r \in Regs} :
         /\ env' = [env EXCEPT ![At(pc).d] = v]
         /\ ok' = {c \in ok : c[1] # v}
                    \cup (IF pc \in barrier THEN {v} \X {"read", "write"} ELSE {})
    /\ Defined(At(pc).d) /\ Overwrites(At(pc).d, NoReg)
    /\ Advance /\ UNCHANGED <<prog, compiler>>

\* A constant operand is null or some object.
Move ==
    LET i == At(pc) IN
    /\ Running("move")
    /\ \E v \in IF i.o \in Regs THEN {env[i.o]} ELSE Objects \cup {Null} :
         env' = [env EXCEPT ![i.d] = v]
    /\ Defined(i.d) /\ Overwrites(i.d, i.o)
    /\ Advance /\ UNCHANGED <<prog, compiler, ok>>

Branch ==
    /\ phase = "run" /\ pc \notin Positions
    /\ \E b \in prog.succ[pc[1]] : pc' = <<b, 1>>
    /\ UNCHANGED <<prog, compiler, env, ok, origin, over>>

\* The registers that the analysis may find checked in the rest of the block.
Skipped ==
    {r \in Regs : \E k \in pc[2]..Len(prog.code[pc[1]]) :
        LET i == At(<<pc[1], k>>) IN r = IF i.op \in {"get", "put"} THEN i.o ELSE i.d}

\* An access or an allocation throws and has no effect.  A handler goes on, for
\* which the analysis took the set at the end of the block.
Throw ==
    /\ phase = "run" /\ pc \in Positions /\ At(pc).op # "move"
    /\ \E b \in prog.handlers[pc[1]] : pc' = <<b, 1>>
    /\ over' = over \cup Skipped
    /\ UNCHANGED <<prog, compiler, env, ok, origin>>

-----------------------------------------------------------------------------
Compile == AnalyseBlock \/ NextRound \/ WritesPass \/ (\E c \in SUBSET Blocks : Expand(c)) \/ Remove

Next == Compile \/ Get \/ Put \/ New \/ Move \/ Branch \/ Throw

\* The compiler runs on.
Spec == Init /\ [][Next]_vars /\ WF_vars(Compile)

-----------------------------------------------------------------------------
(* Properties.                                                             *)

\* The types.
TypeOK ==
    /\ phase \in {"early", "late", "run"}
    /\ reads \in BOOLEAN /\ changed \in BOOLEAN
    /\ bb \in 1..(N + 1)
    /\ scratch \in [Blocks -> SUBSET Regs]
    /\ red \subseteq Positions /\ barrier \subseteq Positions /\ calls \subseteq Positions
    /\ pc \in Blocks \X Nat
    /\ env \in [Regs -> Objects \cup {Null}]
    /\ ok \subseteq Objects \X {"read", "write"}
    /\ origin \in [Regs -> (0..N) \X Nat] /\ over \subseteq Regs

\* "Remove redundant barriers": an access that is executed without its barrier
\* is one to an object that passed the same kind of barrier, or was labeled when
\* it was allocated, earlier in this execution; and no object is allocated
\* without being labeled.  The code does not ensure it of a register that a move
\* or an allocation has overwritten, where the analysis keeps what it knew of the
\* old value, and of one whose barrier an exception skipped, where the handler
\* starts from the set at the end of the block that threw.  These are the only
\* two: of every other register the removal is right, in handlers too.
RemovedWasChecked ==
    phase = "run" /\ pc \in Positions \ barrier =>
        LET i == At(pc) IN
        /\ i.op = "new" => i.d \in over \/ Replaced(i.d)
        /\ i.op \in {"get", "put"} /\ i.o \in Regs \ over /\ env[i.o] # Null
             => <<env[i.o], IF i.op = "get" THEN "read" ELSE "write">> \in ok

\* VM._assert(thisFullRedSet.containsAll(oldFullRedSet)): within a pass no round
\* takes a register out of the set of a block, so an instruction recorded as
\* redundant in an early round still is in the last one.
SetsOnlyGrow ==
    [][bb' = bb + 1 => \A b \in Blocks : scratch[b] \subseteq scratch'[b]]_vars

\* The rounds of all four passes come to an end, whatever loops the method has.
AnalysisEnds == <>(phase = "run")

============================================================================
