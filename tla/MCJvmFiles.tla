----------------------------- MODULE MCJvmFiles -----------------------------
(* Constant values for model checking JvmFiles.                            *)
EXTENDS JvmFiles

\* The file is secret, the thread "timed" reads it with a time limit, and the
\* thread "other" reads and writes without one.
MCFileSec == [f \in Fds |-> {"s"}]
MCPlus == [t \in Threads |-> {"s"}]
MCMinus == [t \in Threads |-> {}]
MCRequests ==
    [t \in Threads |->
       IF t = "timed" THEN {[op |-> "read", cnt |-> 2, wait |-> MaxWait]}
       ELSE {[op |-> "read", cnt |-> 1, wait |-> Infinite],
             [op |-> "write", cnt |-> 1, wait |-> Infinite]}]

\* Regions with and without the label of the file, and one that asks for a
\* capability that no thread has and is refused, as is a region without the
\* label inside one with it.
MCStarts == {[S |-> {"s"}, P |-> {}, M |-> {}], [S |-> {}, P |-> {}, M |-> {}],
             [S |-> {}, P |-> {}, M |-> {"s"}]}
MCDepth == [t \in Threads |-> IF t = "timed" THEN 2 ELSE 3]
============================================================================
