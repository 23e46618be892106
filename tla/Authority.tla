----------------------------- MODULE Authority -----------------------------
(***************************************************************************)
(* What the capabilities of a set of tasks promise, without lists, buffers *)
(* or locks: a task holds a set of rights, part of it active and part of   *)
(* it parked, and may have been promised the rights to a label that is     *)
(* being handed out.  A right is a pair of a tag and "plus" or "minus".    *)
(* Rights arise when a fresh tag is allocated; after that they only pass   *)
(* between the parts of one task, from a task to another that it sends     *)
(* them to, and from a parent to its child.  What a move names is not      *)
(* checked against what is there, so it may also bring in any of the       *)
(* rights in Claims; with no Claims, allocation is the only origin.  A     *)
(* label changes only on the strength of rights that are active at that    *)
(* very moment.                                                            *)
(***************************************************************************)
EXTENDS Naturals

CONSTANTS Tasks,     \* all tasks that ever run
          Root,      \* tasks that may vouch for the trusted base
          TCB,       \* the tag of the trusted base
          Claims     \* the rights that tasks claim without having them

VARIABLES live,      \* the tasks that run
          active,    \* the rights each task can use
          parked,    \* the rights each task has put aside or been sent
          promised,  \* the rights of a fresh tag still to be handed out
          sec, int,  \* the secrecy and integrity labels of each task
          trusted,   \* whether a task may set its label freely
          last       \* the last tag allocated

vars == <<live, active, parked, promised, sec, int, trusted, last>>

Rights == {"plus", "minus"}
None == [t \in Tasks |-> {}]

Init ==
    /\ live \subseteq Tasks
    /\ active = None /\ parked = None /\ promised = None
    /\ sec = None /\ int = None
    /\ trusted = [t \in Tasks |-> FALSE]
    /\ last \in Nat

\* A tag nobody has any right to yet, for some of the running tasks.
Allocate(S, T) ==
    /\ last' = last + 1
    /\ promised' = [u \in Tasks |->
                      IF u \in S THEN promised[u] \cup ({last'} \X T) ELSE promised[u]]
    /\ UNCHANGED <<live, active, parked, sec, int, trusted>>

\* What was promised becomes active, once.
Receive(u) ==
    /\ UNCHANGED <<live, trusted, last>>
    /\ promised'[u] \subseteq promised[u]
    /\ active'[u] = active[u] \cup (promised[u] \ promised'[u])
    /\ \A v \in Tasks \ {u} : active'[v] = active[v] /\ promised'[v] = promised[v]
    /\ UNCHANGED <<parked, sec, int>>

\* Rights are given up for good, or put aside.
Drop(t) ==
    /\ UNCHANGED <<live, trusted, last>>
    /\ active'[t] \subseteq active[t]
    /\ parked[t] \subseteq parked'[t]
    /\ parked'[t] \subseteq parked[t] \cup active[t] \cup Claims
    /\ \A u \in Tasks \ {t} : active'[u] = active[u] /\ parked'[u] = parked[u]
    /\ UNCHANGED <<promised, sec, int>>

\* Rights that were put aside are taken up again.
Resume(t) ==
    /\ UNCHANGED <<live, trusted, last>>
    /\ parked'[t] \subseteq parked[t]
    /\ active[t] \subseteq active'[t]
    /\ active'[t] \subseteq active[t] \cup parked[t] \cup Claims
    /\ \A u \in Tasks \ {t} : active'[u] = active[u] /\ parked'[u] = parked[u]
    /\ UNCHANGED <<promised, sec, int>>

\* The receiver gets active rights of the sender or claimed ones, and parks them.
Send(t, d) ==
    /\ UNCHANGED <<live, trusted, last>>
    /\ active'[t] \subseteq active[t]
    /\ parked[d] \subseteq parked'[d]
    /\ parked'[d] \subseteq parked[d] \cup active[t] \cup Claims
    /\ \A u \in Tasks \ {t} : active'[u] = active[u]
    /\ \A u \in Tasks \ {d} : parked'[u] = parked[u]
    /\ UNCHANGED <<promised, sec, int>>

\* A child starts with its parent's active rights and no label.
Fork(p, c) ==
    /\ p \in live /\ c \notin live
    /\ live' = live \cup {c}
    /\ active' = [active EXCEPT ![c] = active[p]]
    /\ parked' = [parked EXCEPT ![c] = {}]
    /\ sec' = [sec EXCEPT ![c] = {}]
    /\ int' = [int EXCEPT ![c] = {}]
    /\ trusted' = [trusted EXCEPT ![c] = trusted[p]]
    /\ UNCHANGED <<promised, last>>

\* Whether t may move to the labels it has in the next state.
Justified(t) ==
    /\ (sec'[t] \ sec[t]) \X {"plus"} \subseteq active[t]
    /\ ((sec[t] \ sec'[t]) \cup (int[t] \ int'[t])) \X {"minus"} \subseteq active[t]
    /\ \/ (int'[t] \ int[t]) \X {"plus"} \subseteq active[t]
       \/ t \in Root /\ TCB \in int'[t]

Relabel(t) ==
    /\ UNCHANGED <<live, trusted, last>>
    /\ t \in live
    /\ trusted[t] \/ Justified(t)
    /\ \A u \in Tasks \ {t} : sec'[u] = sec[u] /\ int'[u] = int[u]
    /\ UNCHANGED <<active, parked, promised>>

\* Loading a program decides whether the task is part of the trusted base.
Exec(t) ==
    /\ UNCHANGED <<live, last>>
    /\ t \in live
    /\ \A u \in Tasks \ {t} : trusted'[u] = trusted[u]
    /\ UNCHANGED <<active, parked, promised, sec, int>>

Next ==
    \/ \E t \in Tasks : Receive(t) \/ Drop(t) \/ Resume(t) \/ Relabel(t) \/ Exec(t)
    \/ \E t, u \in Tasks : Send(t, u) \/ Fork(t, u)
    \/ \E S \in SUBSET live, T \in SUBSET Rights : Allocate(S, T)

Spec == Init /\ [][Next]_vars

============================================================================
