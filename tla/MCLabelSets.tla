---------------------------- MODULE MCLabelSets ----------------------------
(* Constant values for model checking LabelSets.                           *)
EXTENDS LabelSets, FiniteSets

\* Every label set over Labels.
MCOperands ==
    {s \in UNION {[1..n -> Labels] : n \in 0..Cardinality(Labels)} : Sorted(s)}

============================================================================
