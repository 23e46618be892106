---------------------------- MODULE MCDifcTasks ----------------------------
(* Instances of DifcTasks for TLC.  Task i's cap_lock lies at address i.   *)
EXTENDS DifcTasks

MCAddr == [t \in Tasks |-> t]

\* All tasks are threads of one process.
MCGroup == [t \in Tasks |-> Tasks]

\* A label_struct with the TCB integrity label.
MCLabels == {[sec |-> <<>>, int |-> <<LABEL_TCB>>]}

Bare == [tag |-> 2, rights |-> {}]
Claiming(R) == [tag |-> 2, rights |-> R]

\* Buffers of one bare label; of one word that carries both rights; and, for calls
\* that name the + right, a longer buffer with a word that carries the - right.
MCBareBufs == {<<Bare>>}
MCClaimBufs == {<<Claiming(Rights)>>}
MCBufs == {<<Bare>>, <<Claiming({"minus"}), Bare>>}

\* The types sys.C passes, and + alone.
MCTypes == {{"plus"}, {"minus"}, {"plus", "minus"}}
MCPlus == {{"plus"}}

============================================================================
