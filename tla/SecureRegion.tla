---------------------------- MODULE SecureRegion ----------------------------
(***************************************************************************)
(* Security regions in the Java virtual machine (scheduler/DIFC.java): the *)
(* stack of region states of each green thread, the calls that start and   *)
(* end regions and change their labels and capabilities, the barriers on   *)
(* object reads, writes and allocations, and the label of the kernel task  *)
(* that carries all green threads (one virtual processor).                 *)
(*                                                                         *)
(* Label sets are sets of tags.  SRState objects form a linked stack whose *)
(* entries are reset whenever they are reused, so a stack is a sequence;   *)
(* its first element is the thread's own state.  Barriers are the ones of  *)
(* the dynamic-barrier build, which test inSecureRegion at run time.  A    *)
(* call that throws without changing anything has no action.               *)
(***************************************************************************)
EXTENDS Naturals, Sequences, FiniteSets

CONSTANTS Threads,    \* green threads
          Objects,    \* heap cells
          MaxTag,     \* bound: tags the kernel hands out
          MaxDepth,   \* bound: entries of an SRState stack
          SecArgs,    \* secrecy sets a program passes in
          IntArgs,    \* integrity sets a program passes in
          CapArgs,    \* capability sets a program starts regions with
          GiveArgs,   \* capability sets a program drops or gives to a thread
          CapTypes,   \* capability types a program passes in
          AllocArgs   \* secrecy sets a program passes in as allocation labels

Tags == 1..MaxTag

ASSUME SecureRegionAssumption ==
    /\ MaxTag \in Nat
    /\ MaxDepth \in Nat \ {0}
    /\ SecArgs \subseteq SUBSET Tags
    /\ IntArgs \subseteq SUBSET Tags
    /\ CapArgs \subseteq SUBSET Tags
    /\ GiveArgs \subseteq SUBSET Tags
    /\ CapTypes \subseteq SUBSET {"plus", "minus"}
    /\ AllocArgs \subseteq SUBSET Tags

VARIABLES stack,          \* currentSRState and its parents, per thread
          inSecureRegion, \* per thread
          common,         \* commonPlusCapabilitySet, commonMinusCapabilitySet
          heap,           \* objects and their labels
          os,             \* the kernel task: its label and its capabilities
          nextTag,        \* the next label the kernel allocates
          granted,        \* history: rights conveyed to a thread and not dropped by it
          missed,         \* history: dropped rights that its own state did not lose
          ever,           \* history: rights ever conveyed to a thread
          dirt,           \* history: the secrecy of the data in each object
          escaped         \* history: tags whose data was relabelled or met a failed start

vars == <<stack, inSecureRegion, common, heap, os, nextTag, granted, missed, ever, dirt, escaped>>

Label == [sec : SUBSET Tags, int : SUBSET Tags]
Caps == [plus : SUBSET Tags, minus : SUBSET Tags]
Unlabeled == [sec |-> {}, int |-> {}]
NoCaps == [plus |-> {}, minus |-> {}]

\* secrecyAllocLabels and integrityAllocLabels; by default both are null.
Default == [given |-> FALSE, sec |-> {}, int |-> {}]
AllocLabels(sSet, iSet) == [given |-> TRUE, sec |-> sSet, int |-> iSet]

SRState == [plus : SUBSET Tags, minus : SUBSET Tags,
            sec : SUBSET Tags, int : SUBSET Tags,
            alloc : [given : BOOLEAN, sec : SUBSET Tags, int : SUBSET Tags],
            RESTORE_LABELS : BOOLEAN,
            held : SUBSET Tags]   \* history: the secrecy of the data in its locals

Object == [used : BOOLEAN, labeled : BOOLEAN, sec : SUBSET Tags, int : SUBSET Tags,
           asked : Label]         \* history: the labels it was to have

-----------------------------------------------------------------------------
(* The region stack.                                                       *)

Depth(t) == Len(stack[t])
Cur(t) == stack[t][Depth(t)]

setState(plus, minus, sec, int, held) ==
    [plus |-> plus, minus |-> minus, sec |-> sec, int |-> int,
     alloc |-> Default, RESTORE_LABELS |-> FALSE, held |-> held]

\* A thread's own state: new SRState(EMPTY, EMPTY).
ThreadState == [setState({}, {}, {}, {}, {}) EXCEPT !.alloc = AllocLabels({}, {})]

SetCur(t, state) == stack' = [stack EXCEPT ![t] = [@ EXCEPT ![Depth(t)] = state]]
Push(t, state) == stack' = [stack EXCEPT ![t] = Append(@, state)]

NoObject == [used |-> FALSE, labeled |-> FALSE, sec |-> {}, int |-> {}, asked |-> Unlabeled]

Init ==
    /\ stack = [t \in Threads |-> <<ThreadState>>]
    /\ inSecureRegion = [t \in Threads |-> FALSE]
    /\ common = NoCaps
    /\ heap = [o \in Objects |-> NoObject]
    /\ os = [label |-> Unlabeled, caps |-> NoCaps]
    /\ nextTag = 1
    /\ granted = [t \in Threads |-> NoCaps]
    /\ missed = [t \in Threads |-> NoCaps]
    /\ ever = [t \in Threads |-> NoCaps]
    /\ dirt = [o \in Objects |-> {}]
    /\ escaped = {}

-----------------------------------------------------------------------------
(* Starting and ending regions.                                            *)

\* The capabilities a new region is checked against.
ParentCaps(t) ==
    IF inSecureRegion[t] THEN [plus |-> Cur(t).plus, minus |-> Cur(t).minus]
    ELSE [plus |-> Cur(t).plus \cup common.plus, minus |-> Cur(t).minus \cup common.minus]

\* Mutant: the capability sets passed in are not checked.
StartAllowedLabelsOnly(t, plus, minus, sec, int) ==
    /\ sec \subseteq ParentCaps(t).plus \cup Cur(t).sec
    /\ Cur(t).sec \subseteq ParentCaps(t).minus \cup sec
    /\ int \subseteq ParentCaps(t).plus \cup Cur(t).int
    /\ Cur(t).int \subseteq ParentCaps(t).minus \cup int

\* The six tests of startSecureRegionHelper.
StartAllowed(t, plus, minus, sec, int) ==
    /\ sec \subseteq ParentCaps(t).plus \cup Cur(t).sec
    /\ Cur(t).sec \subseteq ParentCaps(t).minus \cup sec
    /\ int \subseteq ParentCaps(t).plus \cup Cur(t).int
    /\ Cur(t).int \subseteq ParentCaps(t).minus \cup int
    /\ plus \subseteq ParentCaps(t).plus
    /\ minus \subseteq ParentCaps(t).minus

\* The region's data is at least as secret as its label and its arguments.
startSecureRegion(t, plus, minus, sec, int) ==
    /\ Depth(t) < MaxDepth
    /\ StartAllowed(t, plus, minus, sec, int)
    /\ Push(t, setState(plus, minus, sec, int, Cur(t).held \cup sec))
    /\ inSecureRegion' = [inSecureRegion EXCEPT ![t] = TRUE]
    /\ UNCHANGED <<common, heap, os, nextTag, granted, missed, ever, dirt, escaped>>

\* A refused start pushes an empty state and throws; the flag stays as it is.
throwStartError(t, plus, minus, sec, int) ==
    /\ Depth(t) < MaxDepth
    /\ ~StartAllowed(t, plus, minus, sec, int)
    /\ Push(t, setState({}, {}, {}, {}, Cur(t).held))
    /\ escaped' = escaped \cup Cur(t).held
    /\ UNCHANGED <<inSecureRegion, common, heap, os, nextTag, granted, missed, ever, dirt>>

\* sysPassLabels: the kernel replaces the label of the task if its
\* capabilities allow the change, else leaves it.
MayReplace(new) ==
    /\ (new.sec \ os.label.sec) \cup (new.int \ os.label.int) \subseteq os.caps.plus
    /\ (os.label.sec \ new.sec) \cup (os.label.int \ new.int) \subseteq os.caps.minus
sysPassLabels(new) == os' = IF MayReplace(new) THEN [os EXCEPT !.label = new] ELSE os

\* Mutant: the flag is never cleared.
endSecureRegionKeepFlag(t) ==
    /\ inSecureRegion[t]
    /\ stack' = [stack EXCEPT ![t] = SubSeq(@, 1, Len(@) - 1)]
    /\ IF Cur(t).RESTORE_LABELS THEN sysPassLabels(Unlabeled) ELSE UNCHANGED os
    /\ UNCHANGED <<inSecureRegion, common, heap, nextTag, granted, missed, ever, dirt, escaped>>

\* Mutant: the kernel's label is not restored.
endSecureRegionNoRestore(t) ==
    /\ inSecureRegion[t]
    /\ stack' = [stack EXCEPT ![t] = SubSeq(@, 1, Len(@) - 1)]
    /\ inSecureRegion' = [inSecureRegion EXCEPT ![t] = Depth(t) # 2]
    /\ UNCHANGED <<common, heap, os, nextTag, granted, missed, ever, dirt, escaped>>

\* Without the flag the call returns at once.  The result of sysPassLabels is
\* ignored.  The region's locals are gone: data leaves it only through objects.
endSecureRegion(t) ==
    /\ inSecureRegion[t]
    /\ stack' = [stack EXCEPT ![t] = SubSeq(@, 1, Len(@) - 1)]
    /\ inSecureRegion' = [inSecureRegion EXCEPT ![t] = Depth(t) # 2]
    /\ IF Cur(t).RESTORE_LABELS THEN sysPassLabels(Unlabeled) ELSE UNCHANGED os
    /\ UNCHANGED <<common, heap, nextTag, granted, missed, ever, dirt, escaped>>

\* A file operation hands the region's labels to the kernel first.
OSpassCurrentLabels(t) ==
    LET new == [sec |-> Cur(t).sec, int |-> Cur(t).int] IN
    /\ inSecureRegion[t]
    /\ MayReplace(new)
    /\ sysPassLabels(new)
    /\ SetCur(t, [Cur(t) EXCEPT !.RESTORE_LABELS = TRUE])
    /\ UNCHANGED <<inSecureRegion, common, heap, nextTag, granted, missed, ever, dirt, escaped>>

-----------------------------------------------------------------------------
(* Labels and capabilities of the current scope.                           *)

addSecrecyLabel(t, label) ==
    /\ inSecureRegion[t]
    /\ label \subseteq Cur(t).plus
    /\ SetCur(t, [Cur(t) EXCEPT !.sec = @ \cup label, !.held = @ \cup label])
    /\ UNCHANGED <<inSecureRegion, common, heap, os, nextTag, granted, missed, ever, dirt, escaped>>

addIntegrityLabel(t, label) ==
    /\ inSecureRegion[t]
    /\ label \subseteq Cur(t).plus
    /\ SetCur(t, [Cur(t) EXCEPT !.int = @ \cup label])
    /\ UNCHANGED <<inSecureRegion, common, heap, os, nextTag, granted, missed, ever, dirt, escaped>>

removeSecrecyLabel(t, label) ==
    /\ inSecureRegion[t]
    /\ label \subseteq Cur(t).minus
    /\ SetCur(t, [Cur(t) EXCEPT !.sec = @ \ label])
    /\ UNCHANGED <<inSecureRegion, common, heap, os, nextTag, granted, missed, ever, dirt, escaped>>

removeIntegrityLabel(t, label) ==
    /\ inSecureRegion[t]
    /\ label \subseteq Cur(t).minus
    /\ SetCur(t, [Cur(t) EXCEPT !.int = @ \ label])
    /\ UNCHANGED <<inSecureRegion, common, heap, os, nextTag, granted, missed, ever, dirt, escaped>>

\* A type is the set of rights that PLUS_, MINUS_ or BOTH_CAPABILITY names.
Without(caps, label, type) ==
    [caps EXCEPT !.plus = IF "plus" \in type THEN @ \ label ELSE @,
                 !.minus = IF "minus" \in type THEN @ \ label ELSE @]
With(caps, label, type) ==
    [caps EXCEPT !.plus = IF "plus" \in type THEN @ \cup label ELSE @,
                 !.minus = IF "minus" \in type THEN @ \cup label ELSE @]

\* The states at the given depths lose the rights.
Lose(t, label, type, depths) ==
    /\ stack' = [stack EXCEPT ![t] =
                   [d \in DOMAIN @ |-> IF d \in depths THEN Without(@[d], label, type) ELSE @[d]]]
    /\ UNCHANGED <<inSecureRegion, common, heap, os, nextTag, ever, dirt, escaped>>

\* The thread's own state is the current one, or the one below a first region.
OwnNear(t) == Depth(t) <= IF inSecureRegion[t] THEN 2 ELSE 1

\* The thread gives the rights up; where its own state is further down, that state
\* does not lose them.
GiveUp(t, label, type) ==
    /\ granted' = [granted EXCEPT ![t] = Without(@, label, type)]
    /\ missed' = [missed EXCEPT ![t] =
                    IF OwnNear(t) THEN Without(@, label, type)
                    ELSE [plus |-> @.plus \cup (granted[t].plus \ granted'[t].plus),
                          minus |-> @.minus \cup (granted[t].minus \ granted'[t].minus)]]

\* The current scope loses the rights: the thread, or the region alone.
dropCapability(t, label, type) ==
    /\ Lose(t, label, type, {Depth(t)})
    /\ IF Depth(t) = 1 THEN GiveUp(t, label, type) ELSE UNCHANGED <<granted, missed>>

\* Mutant: inside a region the thread keeps the rights.
dropThreadCapabilityRegionOnly(t, label, type) ==
    /\ Cur(t).sec = {}
    /\ Lose(t, label, type, {Depth(t)})
    /\ GiveUp(t, label, type)

\* The thread drops the rights; inside a region its state and the one below it
\* lose them.  Only with an empty secrecy label.
dropThreadCapability(t, label, type) ==
    LET depths == IF inSecureRegion[t] THEN {Depth(t) - 1, Depth(t)} ELSE {Depth(t)} IN
    /\ Cur(t).sec = {}
    /\ Lose(t, label, type, depths)
    /\ GiveUp(t, label, type)

Regions == {"REGION_NONE", "REGION_SELF", "REGION_GROUP"}

\* The kernel allocates the tag and, unless the region is NONE, gives its task
\* the capability; the current scope gets it in any case.
createCapability(t, type, region) ==
    LET tag == {nextTag}
        depths == IF inSecureRegion[t] /\ region = "REGION_SELF"
                  THEN {Depth(t) - 1, Depth(t)} ELSE {Depth(t)}
    IN
    /\ Cur(t).sec = {}
    /\ nextTag <= MaxTag
    /\ nextTag' = nextTag + 1
    /\ os' = IF region = "REGION_NONE" THEN os
             ELSE [os EXCEPT !.caps = With(@, tag, type)]
    /\ stack' = [stack EXCEPT ![t] =
                   [d \in DOMAIN @ |-> IF d \in depths THEN With(@[d], tag, type) ELSE @[d]]]
    /\ common' = IF region = "REGION_GROUP" THEN With(common, tag, type) ELSE common
    /\ granted' = [granted EXCEPT ![t] = With(@, tag, type)]
    /\ ever' = [ever EXCEPT ![t] = With(@, tag, type)]
    /\ UNCHANGED <<inSecureRegion, heap, missed, dirt, escaped>>

\* The trapdoor that gives a thread its first capabilities.
initializeThreadCapability(t, cap, type) ==
    /\ ~inSecureRegion[t]
    /\ SetCur(t, With(Without(Cur(t), Tags, type), cap, type))
    /\ granted' = [granted EXCEPT ![t] = With(@, cap, type)]
    /\ ever' = [ever EXCEPT ![t] = With(@, cap, type)]
    /\ UNCHANGED <<inSecureRegion, common, heap, os, nextTag, missed, dirt, escaped>>

setAllocationLabels(t, alloc) ==
    /\ SetCur(t, [Cur(t) EXCEPT !.alloc = alloc])
    /\ UNCHANGED <<inSecureRegion, common, heap, os, nextTag, granted, missed, ever, dirt, escaped>>

-----------------------------------------------------------------------------
(* Barriers.                                                               *)

checkAllowed(src, dest) == src.sec \subseteq dest.sec /\ dest.int \subseteq src.int

readBarrier(t, o) ==
    IF heap[o].labeled THEN inSecureRegion[t] /\ checkAllowed(heap[o], Cur(t))
    ELSE inSecureRegion[t] => Cur(t).int = {}

\* Mutant: a region with a secrecy label may write unlabeled objects.
writeBarrierLabeledOnly(t, o) ==
    heap[o].labeled => inSecureRegion[t] /\ checkAllowed(Cur(t), heap[o])

writeBarrier(t, o) ==
    IF heap[o].labeled THEN inSecureRegion[t] /\ checkAllowed(Cur(t), heap[o])
    ELSE inSecureRegion[t] => Cur(t).sec = {}

Read(t, o) ==
    /\ heap[o].used
    /\ readBarrier(t, o)
    /\ SetCur(t, [Cur(t) EXCEPT !.held = @ \cup dirt[o]])
    /\ UNCHANGED <<inSecureRegion, common, heap, os, nextTag, granted, missed, ever, dirt, escaped>>

Write(t, o) ==
    /\ heap[o].used
    /\ writeBarrier(t, o)
    /\ dirt' = [dirt EXCEPT ![o] = @ \cup Cur(t).held]
    /\ UNCHANGED <<stack, inSecureRegion, common, heap, os, nextTag, granted, missed, ever, escaped>>

\* The state whose alloc is alloc allows its labels on a new object.
checkAllocLabels(state) ==
    /\ checkAllowed(state, state.alloc)
    /\ state.alloc.sec \subseteq state.sec \cup state.plus
    /\ state.int \subseteq state.alloc.int \cup state.minus

shouldAllocLabeledObjectInSR(alloc) == ~(alloc.given /\ alloc.sec = {} /\ alloc.int = {})

\* The object that "new" makes in instrumented code, in a region whose
\* state is given: the allocator's choice of space and allocBarrierInsideSR.
NewInRegion(state) ==
    LET label == IF state.alloc.given
                 THEN [sec |-> state.alloc.sec, int |-> state.alloc.int]
                 ELSE [sec |-> state.sec, int |-> state.int]
    IN  [used |-> TRUE, labeled |-> shouldAllocLabeledObjectInSR(state.alloc),
         sec |-> label.sec, int |-> label.int, asked |-> label]

\* An object in an ordinary space, which was to have the labels asked.
Plain(asked) == [NoObject EXCEPT !.used = TRUE, !.asked = asked]

New(t, o) ==
    /\ ~heap[o].used
    /\ inSecureRegion[t] /\ Cur(t).alloc.given => checkAllocLabels(Cur(t))
    /\ heap' = [heap EXCEPT ![o] =
                  IF inSecureRegion[t] THEN NewInRegion(Cur(t)) ELSE Plain(Unlabeled)]
    /\ UNCHANGED <<stack, inSecureRegion, common, os, nextTag, granted, missed, ever, dirt, escaped>>

-----------------------------------------------------------------------------
(* changeObjectLabel copies an object under new labels.                    *)

ChangeAllowed(t, o, new) ==
    /\ heap[o].used
    /\ heap[o].labeled \/ new # Unlabeled
    /\ new.sec \subseteq heap[o].sec \cup Cur(t).plus
    /\ heap[o].sec \subseteq new.sec \cup Cur(t).minus
    /\ new.int \subseteq heap[o].int \cup Cur(t).plus
    /\ heap[o].int \subseteq new.int \cup Cur(t).minus

\* The class has a clone() of its own that uses "new": the copy is allocated
\* with the new labels and filled through the barriers; checkAllocLabels implies
\* that the region may write to it.
changeObjectLabelByNew(t, o, c, new) ==
    LET state == [Cur(t) EXCEPT !.alloc = AllocLabels(new.sec, new.int)] IN
    /\ ChangeAllowed(t, o, new)
    /\ ~heap[c].used
    /\ inSecureRegion[t]
    /\ checkAllocLabels(state)
    /\ readBarrier(t, o)
    /\ heap' = [heap EXCEPT ![c] = NewInRegion(state)]
    /\ SetCur(t, [Cur(t) EXCEPT !.held = @ \cup dirt[o]])
    /\ dirt' = [dirt EXCEPT ![c] = dirt[o] \cup Cur(t).held]
    /\ UNCHANGED <<inSecureRegion, common, os, nextTag, granted, missed, ever, escaped>>

\* Otherwise cloneClass2 copies the fields, without barriers, into an object
\* of an ordinary space: its allocation site is not LABELED.
changeObjectLabelByClass(t, o, c, new) ==
    /\ ChangeAllowed(t, o, new)
    /\ ~heap[c].used
    /\ heap' = [heap EXCEPT ![c] = Plain(new)]
    /\ dirt' = [dirt EXCEPT ![c] = dirt[o]]
    /\ escaped' = escaped \cup dirt[o]
    /\ UNCHANGED <<stack, inSecureRegion, common, os, nextTag, granted, missed, ever>>

-----------------------------------------------------------------------------
RegionStep(t) ==
    \/ \E plus, minus \in CapArgs, sec \in SecArgs, int \in IntArgs :
         \/ startSecureRegion(t, plus, minus, sec, int)
         \/ throwStartError(t, plus, minus, sec, int)
    \/ endSecureRegion(t)
    \/ OSpassCurrentLabels(t)

LabelStep(t) ==
    \/ \E label \in SecArgs : addSecrecyLabel(t, label) \/ removeSecrecyLabel(t, label)
    \/ \E label \in IntArgs : addIntegrityLabel(t, label) \/ removeIntegrityLabel(t, label)

CapStep(t) ==
    \/ \E label \in GiveArgs, type \in CapTypes :
         \/ dropCapability(t, label, type)
         \/ dropThreadCapability(t, label, type)
         \/ initializeThreadCapability(t, label, type)
    \/ \E type \in CapTypes, region \in Regions : createCapability(t, type, region)

ObjectStep(t) ==
    \/ \E o \in Objects : Read(t, o) \/ Write(t, o) \/ New(t, o)
    \/ setAllocationLabels(t, Default)
    \/ \E sSet \in AllocArgs, iSet \in IntArgs : setAllocationLabels(t, AllocLabels(sSet, iSet))
    \/ \E o, c \in Objects, sSet \in SecArgs, iSet \in IntArgs :
         LET new == [sec |-> sSet, int |-> iSet] IN
         changeObjectLabelByNew(t, o, c, new) \/ changeObjectLabelByClass(t, o, c, new)

Next == \E t \in Threads : RegionStep(t) \/ LabelStep(t) \/ CapStep(t) \/ ObjectStep(t)

Spec == Init /\ [][Next]_vars

-----------------------------------------------------------------------------
(* Properties.                                                             *)

\* The types; in particular a stack never loses the thread's own state.
TypeOK ==
    /\ stack \in [Threads -> Seq(SRState) \ {<<>>}]
    /\ inSecureRegion \in [Threads -> BOOLEAN]
    /\ common \in Caps
    /\ heap \in [Objects -> Object]
    /\ os \in [label : Label, caps : Caps]
    /\ nextTag \in 1..(MaxTag + 1)
    /\ granted \in [Threads -> Caps]
    /\ missed \in [Threads -> Caps]
    /\ ever \in [Threads -> Caps]
    /\ dirt \in [Objects -> SUBSET Tags]
    /\ escaped \subseteq Tags

\* endSecureRegion dereferences the parent of the current state: whenever the
\* flag lets it run there is one, also after refused starts and extra ends.
FlagMeansRegion == \A t \in Threads : inSecureRegion[t] => Depth(t) >= 2

\* A thread and its regions have only capabilities that were conveyed to the thread
\* and that it has not dropped, or that all threads share; and only labels that
\* such a capability once allowed.  Excepted are the rights in missed: called in a
\* nested region, dropThreadCapability "will drop the capability of both the thread
\* and the current secure region" only by its comment; the thread's own state and
\* the regions between keep it.
Grounded ==
    \A t \in Threads : \A d \in 1..Depth(t) :
        /\ stack[t][d].plus \subseteq granted[t].plus \cup missed[t].plus \cup common.plus
        /\ stack[t][d].minus \subseteq granted[t].minus \cup missed[t].minus \cup common.minus
        /\ stack[t][d].sec \cup stack[t][d].int \subseteq ever[t].plus \cup common.plus

\* The tags that some thread was at some time entitled to remove.
Removable == common.minus \cup UNION {ever[t].minus : t \in Threads}

\* Secrets stay behind their label: data of a tag that nobody was ever given the
\* right to remove is only in objects with that secrecy label, however regions
\* nest and whatever threads exchange through the heap.  Excepted is the data
\* that a refused start inside a region, which goes on without labels, or
\* changeObjectLabel has let go (see RelabelLabelsCopy).
Contained ==
    \A o \in Objects : dirt[o] \ (Removable \cup escaped) \subseteq heap[o].sec

\* The kernel's label outlives no region: unless the kernel task lacks a right
\* to remove it, it is empty once no region that passed labels is left.
NoLeftoverLabel ==
    os.label = Unlabeled
      \/ ~(os.label.sec \cup os.label.int \subseteq os.caps.minus)
      \/ \E t \in Threads : \E d \in 1..Depth(t) : stack[t][d].RESTORE_LABELS

\* "if this is not total declassification then label the ret obj": an object has
\* the labels that its allocation or changeObjectLabel was asked to give it.
RelabelLabelsCopy ==
    \A o \in Objects : [sec |-> heap[o].sec, int |-> heap[o].int] = heap[o].asked

============================================================================
