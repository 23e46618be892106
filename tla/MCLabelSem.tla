----------------------------- MODULE MCLabelSem -----------------------------
(* Constant values for model checking LabelSem.                            *)
EXTENDS LabelSem, TLC

Secret == [sec |-> {"s"}, int |-> {}]
Trusted == [sec |-> {}, int |-> {"tcb"}]
MCLabels == {Unlabeled, Secret}
MCInodeLabels == {Unlabeled, Secret, Trusted}

\* Every inode but a directory has one dentry in each directory.
MCParents == [i \in Inodes |-> IF i \in Dirs \cup Socks THEN {} ELSE Dirs]

\* Every task can declassify and classify; none has a capability for TCB.
MCPlus == [t \in Tasks |-> {"s"}]
MCMinus == [t \in Tasks |-> {"s"}]

\* Tasks have the same capabilities.
MCSymmetry == Permutations(Tasks)
============================================================================
