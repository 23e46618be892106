----------------------------- MODULE LabelSets -----------------------------
(***************************************************************************)
(* The immutable label sets of the virtual machine (LabelSet.java): arrays *)
(* of labels, "guaranteed sorted", and the operations that walk them with  *)
(* one cursor per array.  One step is one iteration of a loop.             *)
(*                                                                         *)
(* A label set is the sequence of its labels.  The code tells the object   *)
(* EMPTY from other sets by identity; here EMPTY is the empty sequence,    *)
(* which NewNonempty justifies.  Whether two operands with the same labels *)
(* are the same object is a parameter of the call (same).                  *)
(***************************************************************************)
EXTENDS Integers, Sequences

CONSTANTS Labels,     \* the labels that occur
          Operands    \* the sets that a program calls the operations with

Sorted(s) == \A i, j \in DOMAIN s : i < j => s[i] < s[j]
LabelSet == {s \in Seq(Labels) : Sorted(s)}
EMPTY == <<>>

ASSUME LabelSetsAssumption == Labels \subseteq Int /\ Operands \subseteq LabelSet

Elems(s) == {s[i] : i \in DOMAIN s}

VARIABLES call,        \* the operation that was called, and its operands
          pc,          \* the loop that runs
          l1, l2,      \* the sets it walks, from pos1 and pos2
          pos, pos1, pos2,
          newLabels,   \* newLabels[0 .. newPos - 1]
          ret          \* what the call returned

vars == <<call, pc, l1, l2, pos, pos1, pos2, newLabels, ret>>

Ops == {"none", "union", "unionLabel", "minus", "isSubsetOf", "checkInUnion"}
Loops == {"union", "unionLabel", "minus", "isSubsetOf", "checkInUnion"}

\* A returned set, or truth value; new tells a set created by the call.
Result == [set : Seq(Labels), new : BOOLEAN, truth : BOOLEAN]
SetResult(set, new) == [set |-> set, new |-> new, truth |-> FALSE]
Truth(b) == [set |-> EMPTY, new |-> FALSE, truth |-> b]

NoCall == [op |-> "none", this |-> EMPTY, x |-> EMPTY, y |-> EMPTY]

Init ==
    /\ call = NoCall
    /\ pc = "idle"
    /\ l1 = EMPTY /\ l2 = EMPTY
    /\ pos = 0 /\ pos1 = 0 /\ pos2 = 0
    /\ newLabels = <<>>
    /\ ret = Truth(FALSE)

-----------------------------------------------------------------------------
(* Calls: the short-circuit checks, else the loop.                         *)

Called(op, this, x, y) ==
    /\ pc = "idle"
    /\ call' = [op |-> op, this |-> this, x |-> x, y |-> y]

AtOnce(result) ==
    /\ pc' = "done" /\ ret' = result
    /\ UNCHANGED <<l1, l2, pos, pos1, pos2, newLabels>>

Walk(loop, a, b) ==
    /\ pc' = loop /\ l1' = a /\ l2' = b
    /\ pos' = 0 /\ pos1' = 0 /\ pos2' = 0
    /\ newLabels' = <<>>
    /\ UNCHANGED ret

SubsetCheck(a, b, same) == IF a = EMPTY \/ same THEN AtOnce(Truth(TRUE))
                                               ELSE Walk("isSubsetOf", a, b)

isSubsetOf(a, b, same) ==
    /\ Called("isSubsetOf", a, b, EMPTY)
    /\ same => a = b
    /\ SubsetCheck(a, b, same)

union(a, b, same) ==
    /\ Called("union", EMPTY, a, b)
    /\ same => a = b
    /\ IF b = EMPTY THEN AtOnce(SetResult(a, FALSE))
       ELSE IF a = EMPTY THEN AtOnce(SetResult(b, FALSE))
       ELSE IF same THEN AtOnce(SetResult(a, FALSE))
       ELSE Walk("union", a, b)

unionLabel(a, label) ==
    /\ Called("unionLabel", EMPTY, a, <<label>>)
    /\ Walk("unionLabel", a, <<label>>)

minus(a, b, same) ==
    /\ Called("minus", EMPTY, a, b)
    /\ same => a = b
    /\ IF a = EMPTY \/ b = EMPTY THEN AtOnce(SetResult(a, FALSE))
       ELSE IF same THEN AtOnce(SetResult(EMPTY, FALSE))
       ELSE Walk("minus", a, b)

\* same: whether the calling set is the one isSubsetOf is asked about.
checkInUnion(this, a, b, same) ==
    /\ Called("checkInUnion", this, a, b)
    /\ same => this = (IF a = EMPTY THEN b ELSE a)
    /\ IF this = EMPTY THEN AtOnce(Truth(TRUE))
       ELSE IF a = EMPTY THEN SubsetCheck(this, b, same)
       ELSE IF b = EMPTY THEN SubsetCheck(this, a, same)
       ELSE Walk("checkInUnion", a, b)

-----------------------------------------------------------------------------
(* Loops.                                                                  *)

At1 == l1[pos1 + 1]
At2 == l2[pos2 + 1]
AtThis == call.this[pos + 1]

Return(result) ==
    /\ pc' = "done" /\ ret' = result
    /\ UNCHANGED <<call, l1, l2, pos, pos1, pos2, newLabels>>

Advance(by1, by2) ==
    /\ pos1' = pos1 + by1 /\ pos2' = pos2 + by2
    /\ UNCHANGED <<call, pc, l1, l2, ret>>

\* Mutant: a label that is in both sets is taken from the first only.
UnionStepTwice ==
    /\ pc \in {"union", "unionLabel"}
    /\ pos1 < Len(l1) \/ pos2 < Len(l2)
    /\ \/ /\ pos2 = Len(l2) \/ (pos1 < Len(l1) /\ pos2 < Len(l2) /\ At1 <= At2)
          /\ newLabels' = Append(newLabels, At1) /\ Advance(1, 0)
       \/ /\ pos1 = Len(l1) \/ (pos1 < Len(l1) /\ pos2 < Len(l2) /\ At2 < At1)
          /\ newLabels' = Append(newLabels, At2) /\ Advance(0, 1)
    /\ UNCHANGED pos

\* "pick the lesser (or take both if equal)".
UnionStep ==
    /\ pc \in {"union", "unionLabel"}
    /\ pos1 < Len(l1) \/ pos2 < Len(l2)
    /\ \/ /\ pos2 = Len(l2) \/ (pos1 < Len(l1) /\ pos2 < Len(l2) /\ At1 < At2)
          /\ newLabels' = Append(newLabels, At1) /\ Advance(1, 0)
       \/ /\ pos1 = Len(l1) \/ (pos1 < Len(l1) /\ pos2 < Len(l2) /\ At2 < At1)
          /\ newLabels' = Append(newLabels, At2) /\ Advance(0, 1)
       \/ /\ pos1 < Len(l1) /\ pos2 < Len(l2) /\ At1 = At2
          /\ newLabels' = Append(newLabels, At1) /\ Advance(1, 1)
    /\ UNCHANGED pos

\* "skip if an existing label will do".
UnionEnd ==
    /\ pc \in {"union", "unionLabel"}
    /\ pos1 = Len(l1) /\ pos2 = Len(l2)
    /\ Return(IF Len(newLabels) = Len(l1) THEN SetResult(l1, FALSE)
              ELSE IF pc = "union" /\ Len(newLabels) = Len(l2) THEN SetResult(l2, FALSE)
              ELSE SetResult(newLabels, TRUE))

\* Mutant: a label of the second set is dropped only if it comes first.
MinusStepKeep ==
    /\ pc = "minus" /\ pos1 < Len(l1)
    /\ \/ /\ pos2 = Len(l2) \/ (pos2 < Len(l2) /\ At1 <= At2)
          /\ newLabels' = Append(newLabels, At1) /\ Advance(1, 0)
       \/ /\ pos2 < Len(l2) /\ At2 < At1
          /\ Advance(0, 1) /\ UNCHANGED newLabels
    /\ UNCHANGED pos

MinusStep ==
    /\ pc = "minus" /\ pos1 < Len(l1)
    /\ \/ /\ pos2 = Len(l2) \/ (pos2 < Len(l2) /\ At1 < At2)
          /\ newLabels' = Append(newLabels, At1) /\ Advance(1, 0)
       \/ /\ pos2 < Len(l2) /\ At2 < At1
          /\ Advance(0, 1) /\ UNCHANGED newLabels
       \/ /\ pos2 < Len(l2) /\ At1 = At2
          /\ Advance(1, 1) /\ UNCHANGED newLabels
    /\ UNCHANGED pos

\* Mutant: the result is always a new set.
MinusEndNew ==
    /\ pc = "minus" /\ pos1 = Len(l1)
    /\ Return(SetResult(newLabels, TRUE))

MinusEnd ==
    /\ pc = "minus" /\ pos1 = Len(l1)
    /\ Return(IF newLabels = <<>> THEN SetResult(EMPTY, FALSE)
                                  ELSE SetResult(newLabels, TRUE))

SubsetStep ==
    /\ pc = "isSubsetOf" /\ pos1 < Len(l1) /\ pos2 < Len(l2)
    /\ \/ At2 < At1 /\ Advance(0, 1)
       \/ At2 = At1 /\ Advance(1, 1)
    /\ UNCHANGED <<pos, newLabels>>

\* Mutant: the first label of the other set that differs ends the loop.
SubsetEndEarly ==
    /\ pc = "isSubsetOf"
    /\ \/ pos1 = Len(l1) /\ Return(Truth(TRUE))
       \/ /\ pos1 < Len(l1)
          /\ pos2 = Len(l2) \/ (pos2 < Len(l2) /\ At2 # At1)
          /\ Return(Truth(FALSE))

SubsetEnd ==
    /\ pc = "isSubsetOf"
    /\ \/ pos1 = Len(l1) /\ Return(Truth(TRUE))
       \/ /\ pos1 < Len(l1)
          /\ pos2 = Len(l2) \/ (pos2 < Len(l2) /\ At2 > At1)
          /\ Return(Truth(FALSE))

\* The cursors of the two sets move, in one iteration, past labels that are not
\* beyond the label at pos.
Passed1 == pos1 < Len(l1) /\ At1 <= AtThis
Passed2 == pos2 < Len(l2) /\ At2 <= AtThis
Found == (Passed1 /\ At1 = AtThis) \/ (Passed2 /\ At2 = AtThis)

\* Mutant: a label that was found moves both cursors.
InUnionStepBoth ==
    /\ pc = "checkInUnion" /\ pos < Len(call.this)
    /\ Passed1 \/ Passed2
    /\ pos' = IF Found THEN pos + 1 ELSE pos
    /\ Advance(IF Passed1 \/ Found THEN 1 ELSE 0, IF Passed2 \/ Found THEN 1 ELSE 0)
    /\ UNCHANGED newLabels

InUnionStep ==
    /\ pc = "checkInUnion" /\ pos < Len(call.this)
    /\ Passed1 \/ Passed2
    /\ pos' = IF Found THEN pos + 1 ELSE pos
    /\ Advance(IF Passed1 THEN 1 ELSE 0, IF Passed2 THEN 1 ELSE 0)
    /\ UNCHANGED newLabels

\* Mutant: no test for a label that is in neither set.
InUnionEndFound ==
    /\ pc = "checkInUnion"
    /\ pos = Len(call.this) /\ Return(Truth(TRUE))

InUnionEnd ==
    /\ pc = "checkInUnion"
    /\ \/ pos = Len(call.this) /\ Return(Truth(TRUE))
       \/ pos < Len(call.this) /\ ~Passed1 /\ ~Passed2 /\ Return(Truth(FALSE))

-----------------------------------------------------------------------------
LoopStep ==
    \/ UnionStep \/ UnionEnd
    \/ MinusStep \/ MinusEnd
    \/ SubsetStep \/ SubsetEnd
    \/ InUnionStep \/ InUnionEnd

CallStep ==
    \/ \E a, b \in Operands, same \in BOOLEAN :
         isSubsetOf(a, b, same) \/ union(a, b, same) \/ minus(a, b, same)
    \/ \E a \in Operands, label \in Labels : unionLabel(a, label)
    \/ \E this, a, b \in Operands, same \in BOOLEAN : checkInUnion(this, a, b, same)

\* The caller has the result.
Finish ==
    /\ pc = "done"
    /\ pc' = "idle" /\ call' = NoCall
    /\ l1' = EMPTY /\ l2' = EMPTY
    /\ pos' = 0 /\ pos1' = 0 /\ pos2' = 0
    /\ newLabels' = <<>>
    /\ ret' = Truth(FALSE)

Next == LoopStep \/ CallStep \/ Finish

\* The thread that is in a loop goes on.
Spec == Init /\ [][Next]_vars /\ WF_vars(LoopStep)

-----------------------------------------------------------------------------
(* Properties.                                                             *)

\* The types; in particular no cursor runs past the length of its set, and no
\* more labels are produced than union and minus have allocated room for.
TypeOK ==
    /\ call \in [op : Ops, this : LabelSet, x : LabelSet, y : LabelSet]
    /\ pc \in Loops \cup {"idle", "done"}
    /\ l1 \in LabelSet /\ l2 \in LabelSet
    /\ pos \in 0..Len(call.this) /\ pos1 \in 0..Len(l1) /\ pos2 \in 0..Len(l2)
    /\ newLabels \in Seq(Labels)
    /\ Len(newLabels) <= IF pc = "minus" THEN Len(l1) ELSE Len(l1) + Len(l2)
    /\ ret \in Result

Returned(op) == pc = "done" /\ call.op = op

\* union returns a label set again, sorted and without duplicates, that holds the
\* labels of both operands, also where it hands back one of the operands.
UnionCorrect ==
    (Returned("union") \/ Returned("unionLabel")) =>
        /\ ret.set \in LabelSet
        /\ Elems(ret.set) = Elems(call.x) \cup Elems(call.y)

\* minus returns a label set that holds the labels of the first operand that are
\* not in the second.
MinusCorrect ==
    Returned("minus") =>
        /\ ret.set \in LabelSet
        /\ Elems(ret.set) = Elems(call.x) \ Elems(call.y)

\* isSubsetOf and checkInUnion, which decide every start of a region, every
\* relabelling and every barrier, answer as the set relations do, on the
\* short-circuit paths and in the loops.
ChecksCorrect ==
    /\ Returned("isSubsetOf") => (ret.truth <=> Elems(call.this) \subseteq Elems(call.x))
    /\ Returned("checkInUnion") =>
         (ret.truth <=> Elems(call.this) \subseteq Elems(call.x) \cup Elems(call.y))

\* "Use EMPTY instead of creating new empty label set": no operation creates a
\* second empty set, so a test for EMPTY by identity is a test for emptiness.
NewNonempty == pc = "done" /\ ret.new => ret.set # EMPTY

\* Every loop ends.
LoopsEnd == pc \in Loops ~> pc = "done"

============================================================================
