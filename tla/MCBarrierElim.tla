---------------------------- MODULE MCBarrierElim ----------------------------
(* Constant values for model checking BarrierElim.                         *)
EXTENDS BarrierElim

Ins(op, o, d) == [op |-> op, o |-> o, d |-> d]

\* p holds an argument, q does not.
Accesses == {Ins("get", "p", NoReg), Ins("get", "q", NoReg), Ins("put", "p", NoReg),
             Ins("put", "q", NoReg), Ins("get", Const, NoReg)}
Definitions == {Ins("get", "p", "p"), Ins("get", "p", "q"), Ins("new", NoReg, "q"),
                Ins("move", "p", "q"), Ins("move", Const, "q")}

Last == {Ins("get", "q", NoReg), Ins("put", "q", NoReg), Ins("get", "p", NoReg)}

\* A branch around block 2, a loop over it, and a block 3 that follows block 2
\* and catches what it throws.
None == <<{}, {}, {}>>
Skip == [succ |-> <<{2, 3}, {3}, {}>>, handlers |-> None]
Loop == [succ |-> <<{2}, {2, 3}, {}>>, handlers |-> None]
Finally == [succ |-> <<{2}, {3}, {}>>, handlers |-> <<{}, {3}, {}>>]

\* One instruction before and two in block 2, and an access after it.
MCMethods ==
    {[code |-> <<<<a>>, <<b, c>>, <<d>>>>, succ |-> g.succ, handlers |-> g.handlers] :
        a, b, c \in Accesses \cup Definitions, d \in Last, g \in {Skip, Loop, Finally}}
============================================================================
