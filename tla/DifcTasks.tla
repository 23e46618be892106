----------------------------- MODULE DifcTasks -----------------------------
(***************************************************************************)
(* The task side of the Laminar security module (security/difc.c of the    *)
(* kernel): each task's label, its capability lists, the spinlock that     *)
(* guards them, and the system calls that change them.                     *)
(*                                                                         *)
(* A capability is a 64-bit word: a label number with the + and - bits in  *)
(* the upper part.  It is modelled as a record [tag, rights]; so is each   *)
(* word of a buffer that a program passes in, which the code takes as it   *)
(* is.  A capList is a chain of fixed-size segments, so a capability list  *)
(* is a sequence of sequences; the order of entries is kept, because the   *)
(* code always uses the first entry that carries a label.                  *)
(*                                                                         *)
(* A call that holds only its own cap_lock for one lookup is one action,   *)
(* enabled when that lock is free.  The calls that walk a user buffer      *)
(* (drop, resume, send) and the group allocation are split where another   *)
(* task can act: they take their locks, handle one entry at a time, and    *)
(* release.  A call that fails without changing anything is a stuttering   *)
(* step and has no action.                                                 *)
(***************************************************************************)
EXTENDS Naturals, Sequences, FiniteSets

CONSTANTS Tasks,          \* task_security_structs: running tasks and fork slots
          InitTasks,      \* the tasks that run initially
          Root,           \* the tasks whose uid is 0
          Addr,           \* the address of each task's cap_lock
          AddrTop,        \* the top of the address space
          Group,          \* the thread group of each task
          NoTask,         \* the owner of a free cap_lock
          SegCaps,        \* CAP_LIST_MAX_ENTRIES
          LabelMax,       \* LABEL_LIST_MAX_ENTRIES
          CapMax,         \* bound: the largest label number ever allocated
          MaxEntries,     \* bound: calls add entries while fewer are on the lists
          UserLabels,     \* the label_structs of programs and of labelled files
          SetTypes,       \* the lists a program adds to and removes from: sec, int
          UserBufs,       \* the buffers of capability words a program passes in
          Types,          \* the type arguments (+, -, both) a program passes in
          SelfSend        \* whether a program sends capabilities to itself

LABEL_TCB == 0
CAP_START_VAL == 1
Rights == {"plus", "minus"}
Tags == 0..CapMax
LabelTypes == {"sec", "int"}

Cap == [tag : Tags, rights : SUBSET Rights]
\* A segment of a capability list is an array of SegCaps entries.  The count of a
\* label list comes from the program unchecked, so its length has no bound.
Segments == {seg \in Seq(Cap) : Len(seg) <= SegCaps}
CapLists == Seq(Segments)
Labels == [sec : Seq(Tags), int : Seq(Tags)]

ASSUME ConstantsAssumption ==
    /\ InitTasks \subseteq Tasks
    /\ Root \subseteq Tasks
    /\ NoTask \notin Tasks
    /\ AddrTop \in Nat
    /\ Addr \in [Tasks -> 0..AddrTop]
    /\ \A t, u \in Tasks : t # u => Addr[t] # Addr[u]
    /\ Group \in [Tasks -> SUBSET Tasks]
    /\ \A t \in Tasks : t \in Group[t]
    /\ SegCaps \in Nat \ {0}
    /\ LabelMax \in Nat
    /\ CapMax \in Nat \ {0}
    /\ MaxEntries \in Nat
    /\ UserLabels \subseteq Labels
    /\ SetTypes \subseteq LabelTypes
    /\ UserBufs \subseteq Seq(Cap) \ {<<>>}
    /\ Types \subseteq SUBSET Rights
    /\ SelfSend \in BOOLEAN

VARIABLES live,                 \* the tasks that exist
          label,                \* tsec->label, per task
          capList,              \* tsec->capList, per task
          capSuspendList,       \* tsec->capSuspendList, per task
          cap_lock,             \* the owner of tsec->cap_lock, per task
          tcb,                  \* tsec->tcb, per task
          cur_max_capability,   \* the last label number handed out
          call,                 \* the buffer-walking call each task is in
          grant,                \* history: rights ever conveyed, per task and tag
          claimed               \* history: rights that words of buffers brought in

vars == <<live, label, capList, capSuspendList, cap_lock, tcb,
          cur_max_capability, call, grant, claimed>>

-----------------------------------------------------------------------------
(* Lists.                                                                  *)

Elems(list) == {list[i] : i \in DOMAIN list}

\* The indices at which a predicate first holds: loops with a break.
First(S) == CHOOSE i \in S : \A j \in S : i <= j

\* "Shift everyone down one, writing over" the entry at idx.
ShiftDown(list, idx) ==
    [i \in 1..(Len(list) - 1) |-> IF i < idx THEN list[i] ELSE list[i + 1]]

\* The capabilities of a segmented list.
Entries(list) == UNION {Elems(list[n]) : n \in DOMAIN list}

\* The positions in one segment that carry a label, and the first of them.
Matches(seg, tag) == {i \in DOMAIN seg : seg[i].tag = tag}
MatchIn(seg, tag) == seg[First(Matches(seg, tag))]

\* The segments of a list that carry a label.
MatchSegs(list, tag) == {n \in DOMAIN list : Matches(list[n], tag) # {}}

\* The rights of the first capability for a label; none if there is none.
task_find_capability(list, tag) ==
    IF MatchSegs(list, tag) = {} THEN {}
    ELSE MatchIn(list[First(MatchSegs(list, tag))], tag).rights

\* Mutant: the capacity test admits one entry too many.
AppendCapOverfull(list, cap) ==
    LET roomy == {n \in DOMAIN list : Len(list[n]) <= SegCaps}
    IN  IF roomy = {} THEN Append(list, <<cap>>)
        ELSE [list EXCEPT ![First(roomy)] = Append(@, cap)]

\* A capability goes into the first segment with room, else into a new one.
AppendCap(list, cap) ==
    LET roomy == {n \in DOMAIN list : Len(list[n]) < SegCaps}
    IN  IF roomy = {} THEN Append(list, <<cap>>)
        ELSE [list EXCEPT ![First(roomy)] = Append(@, cap)]

-----------------------------------------------------------------------------
(* The walk of list_for_each_cap that drop, resume and send share, for one *)
(* label and the rights T of the call.  Its break leaves the inner loop    *)
(* only: every later segment is walked as well, and still matches as long  *)
(* as no right has been taken.  The loop variable is a copy, so an entry   *)
(* keeps its rights unless it is removed whole.                            *)

TakingSegs(list, tag, T) ==
    {n \in MatchSegs(list, tag) : T \cap MatchIn(list[n], tag).rights # {}}

\* The matching segments the walk acts on.
WalkedSegs(list, tag, T) ==
    {n \in MatchSegs(list, tag) :
        \A m \in TakingSegs(list, tag, T) : n <= First(TakingSegs(list, tag, T))}

\* Mutant: moves what was asked for, whether or not the entry has it.
TakenUnchecked(list, tag, T) == IF MatchSegs(list, tag) = {} THEN {} ELSE T

\* The rights that are moved.
Taken(list, tag, T) ==
    IF TakingSegs(list, tag, T) = {} THEN {}
    ELSE T \cap MatchIn(list[First(TakingSegs(list, tag, T))], tag).rights

\* Mutant: removes the first entry for the label although rights of it remain.
AfterTakeWhole(list, tag, T) ==
    LET n == First(MatchSegs(list, tag))
    IN  IF MatchSegs(list, tag) # {}
        THEN [list EXCEPT ![n] = ShiftDown(@, First(Matches(@, tag)))]
        ELSE list

\* The list afterwards: the entry goes only if no right of it is left.
AfterTake(list, tag, T) ==
    LET n == First(TakingSegs(list, tag, T))
    IN  IF /\ TakingSegs(list, tag, T) # {}
           /\ MatchIn(list[n], tag).rights \subseteq T
        THEN [list EXCEPT ![n] = ShiftDown(@, First(Matches(@, tag)))]
        ELSE list

\* -ENOENT: no match, or a requested right that a walked entry lacks.  The +
\* branch leaves the loop when it removes the entry, before - is looked at.
TakeFails(list, tag, T) ==
    \/ MatchSegs(list, tag) = {}
    \/ \E n \in WalkedSegs(list, tag, T) :
         LET R == MatchIn(list[n], tag).rights
         IN  \/ "plus" \in T \ R
             \/ "minus" \in T \ R /\ "plus" \notin T \cap R

-----------------------------------------------------------------------------
(* Labels.                                                                 *)

\* 0 exactly if secrecy only grows and integrity only shrinks along the flow.
check_allowed(src, dest) ==
    /\ Elems(src.sec) \subseteq Elems(dest.sec)
    /\ Elems(dest.int) \subseteq Elems(src.int)

MayAdd(t, tag) == "plus" \in task_find_capability(capList[t], tag)
MayRemove(t, tag) == "minus" \in task_find_capability(capList[t], tag)

\* The integrity labels whose addition is checked: the loop stops at TCB.
CheckedInts(list) ==
    {list[i] : i \in {j \in DOMAIN list : \A k \in 1..j : list[k] # LABEL_TCB}}

\* Mutant: the loop over removed secrecy labels is missing.
ReplaceWithoutRemovals(t, old, new) ==
    /\ LABEL_TCB \in Elems(new.sec) \cup Elems(new.int) => t \in Root
    /\ \A l \in Elems(new.sec) \ Elems(old.sec) : MayAdd(t, l)
    /\ \A l \in CheckedInts(new.int) \ Elems(old.int) : MayAdd(t, l)
    /\ \A l \in Elems(old.int) \ Elems(new.int) : MayRemove(t, l)

\* 0 exactly if the task may turn the label old into new.
check_label_replace(t, old, new) ==
    /\ LABEL_TCB \in Elems(new.sec) \cup Elems(new.int) => t \in Root
    /\ \A l \in Elems(new.sec) \ Elems(old.sec) : MayAdd(t, l)
    /\ \A l \in Elems(old.sec) \ Elems(new.sec) : MayRemove(t, l)
    /\ \A l \in CheckedInts(new.int) \ Elems(old.int) : MayAdd(t, l)
    /\ \A l \in Elems(old.int) \ Elems(new.int) : MayRemove(t, l)

Unlabeled == [sec |-> <<>>, int |-> <<>>]

-----------------------------------------------------------------------------
(* Calls in progress.                                                      *)

Ops == {"none", "alloc", "drop", "resume", "send"}
Stages == {"idle", "grant", "lock1", "lock2", "walk"}

Call == [op   : Ops,            \* the system call
         pc   : Stages,         \* where in it the task is
         buf  : Seq(Cap),       \* capList[], copied from the user; for alloc, new_cap
         type : SUBSET Rights,  \* the type argument
         temp : BOOLEAN,        \* flag = CAP_OP_FLAG_TEMPORARY
         dest : Tasks,          \* the receiver; the task itself if not a send
         i    : Nat,            \* the next entry of buf, from 1
         rv   : {"0", "ENOENT"},
         todo : SUBSET Tasks]   \* threads a group allocation has yet to reach

CallOf(op, pc, buf, T, temp, dest, todo) ==
    [op |-> op, pc |-> pc, buf |-> buf, type |-> T, temp |-> temp, dest |-> dest,
     i |-> 1, rv |-> "0", todo |-> todo]

NoCall(t) == CallOf("none", "idle", <<>>, {}, FALSE, t, {})

Ready(t) == t \in live /\ call[t].pc = "idle"

\* The bound MaxEntries is on the entries of all lists together, with those that
\* calls in progress may still add.
Positions(list) == UNION {{n} \X DOMAIN list[n] : n \in DOMAIN list}
Pending(t) == (call[t].i .. Len(call[t].buf)) \X (call[t].todo \cup {t})
Room ==
    Cardinality(UNION {{<<t, p>> : p \in Positions(capList[t])} : t \in Tasks})
      + Cardinality(UNION {{<<t, p>> : p \in Positions(capSuspendList[t])} : t \in Tasks})
      + Cardinality(UNION {{<<t, p>> : p \in Pending(t)} : t \in Tasks})
      < MaxEntries

\* Mutant: the sender's lock always comes first.
LockOrderSenderFirst(t) == <<t, call[t].dest>>

\* The two cap_locks of a send, in the order they are taken.
LockOrder(t) == IF Addr[t] < Addr[call[t].dest] THEN <<t, call[t].dest>>
                                                ELSE <<call[t].dest, t>>
FirstLock(t) == LockOrder(t)[1]
SecondLock(t) == LockOrder(t)[2]

Init ==
    /\ live = InitTasks
    /\ label = [t \in Tasks |-> Unlabeled]
    /\ capList = [t \in Tasks |-> <<>>]
    /\ capSuspendList = [t \in Tasks |-> <<>>]
    /\ cap_lock = [t \in Tasks |-> NoTask]
    /\ tcb = [t \in Tasks |-> FALSE]
    /\ cur_max_capability = CAP_START_VAL
    /\ call = [t \in Tasks |-> NoCall(t)]
    /\ grant = [t \in Tasks |-> [l \in Tags |-> {}]]
    /\ claimed = [t \in Tasks |-> [l \in Tags |-> {}]]

-----------------------------------------------------------------------------
(* difc_alloc_label: a fresh label, whose capability goes to nobody, to    *)
(* the task, or to the task and then, one by one, to its thread group.     *)

Regions == {"REGION_NONE", "REGION_SELF", "REGION_GROUP"}

Members(t, region) ==
    CASE region = "REGION_NONE"  -> {}
      [] region = "REGION_SELF"  -> {t}
      [] region = "REGION_GROUP" -> Group[t] \cap live

difc_alloc_label(t, T, region) ==
    /\ Ready(t)
    /\ cur_max_capability < CapMax
    /\ Room
    /\ cur_max_capability' = cur_max_capability + 1
    /\ call' = [call EXCEPT ![t] =
                  IF region = "REGION_NONE" THEN NoCall(t)
                  ELSE CallOf("alloc", "grant",
                              <<[tag |-> cur_max_capability + 1, rights |-> T]>>,
                              T, FALSE, t, Members(t, region))]
    /\ grant' = [u \in Tasks |->
                   IF u \in Members(t, region)
                   THEN [grant[u] EXCEPT ![cur_max_capability + 1] = T]
                   ELSE grant[u]]
    /\ UNCHANGED <<live, label, capList, capSuspendList, cap_lock, tcb, claimed>>

\* __difc_alloc_label for one thread, the caller first.
__difc_alloc_label(t, u) ==
    /\ call[t].pc = "grant"
    /\ u \in call[t].todo
    /\ t \in call[t].todo => u = t
    /\ cap_lock[u] = NoTask
    /\ capList' = [capList EXCEPT ![u] = AppendCap(@, call[t].buf[1])]
    /\ call' = [call EXCEPT ![t] =
                  IF call[t].todo = {u} THEN NoCall(t)
                  ELSE [call[t] EXCEPT !.todo = call[t].todo \ {u}]]
    /\ UNCHANGED <<live, label, capSuspendList, cap_lock, tcb, cur_max_capability,
                   grant, claimed>>

-----------------------------------------------------------------------------
(* difc_set_task_label.  Only the task itself writes its label; its own    *)
(* cap_lock is taken for each capability lookup.                           *)

__difc_set_label_add(t, tag, ty) ==
    /\ Ready(t)
    /\ cap_lock[t] = NoTask
    /\ MayAdd(t, tag)
    /\ tag \notin Elems(label[t][ty])
    /\ Len(label[t][ty]) # LabelMax
    /\ label' = [label EXCEPT ![t][ty] = Append(@, tag)]
    /\ UNCHANGED <<live, capList, capSuspendList, cap_lock, tcb,
                   cur_max_capability, call, grant, claimed>>

\* Only the first occurrence goes.
__difc_set_label_remove(t, tag, ty) ==
    /\ Ready(t)
    /\ cap_lock[t] = NoTask
    /\ MayRemove(t, tag)
    /\ tag \in Elems(label[t][ty])
    /\ label' = [label EXCEPT ![t][ty] =
                   ShiftDown(@, First({i \in DOMAIN @ : @[i] = tag}))]
    /\ UNCHANGED <<live, capList, capSuspendList, cap_lock, tcb,
                   cur_max_capability, call, grant, claimed>>

set_task_label_replace(t, new) ==
    /\ Ready(t)
    /\ cap_lock[t] = NoTask
    /\ check_label_replace(t, label[t], new)
    /\ label' = [label EXCEPT ![t] = new]
    /\ UNCHANGED <<live, capList, capSuspendList, cap_lock, tcb,
                   cur_max_capability, call, grant, claimed>>

\* The trusted virtual machine sets a thread's label without any check.
difc_replace_label_tcb(t, new) ==
    /\ Ready(t)
    /\ tcb[t]
    /\ label' = [label EXCEPT ![t] = new]
    /\ UNCHANGED <<live, capList, capSuspendList, cap_lock, tcb,
                   cur_max_capability, call, grant, claimed>>

-----------------------------------------------------------------------------
(* Fork and exec.                                                          *)

\* fork or clone: the child gets the parent's capabilities and tcb bit; its label
\* and its suspended capabilities start empty.  A thread joins its group while no
\* allocation is walking over that group.
difc_task_alloc_security(p, c) ==
    /\ Ready(p)
    /\ c \notin live
    /\ \A t \in live : call[t].pc = "grant" => c \notin Group[t]
    /\ cap_lock[p] = NoTask
    /\ live' = live \cup {c}
    /\ label' = [label EXCEPT ![c] = Unlabeled]
    /\ capList' = [capList EXCEPT ![c] = capList[p]]
    /\ capSuspendList' = [capSuspendList EXCEPT ![c] = <<>>]
    /\ cap_lock' = [cap_lock EXCEPT ![c] = NoTask]
    /\ tcb' = [tcb EXCEPT ![c] = tcb[p]]
    /\ grant' = [grant EXCEPT ![c] = grant[p]]
    /\ claimed' = [claimed EXCEPT ![c] = claimed[p]]
    /\ UNCHANGED <<cur_max_capability, call>>

\* exec of a file whose integrity label is intList: the label, the capability
\* lists and pending state stay as they are.
difc_bprm_apply_creds(t, intList) ==
    /\ Ready(t)
    /\ tcb' = [tcb EXCEPT ![t] = LABEL_TCB \in Elems(intList)]
    /\ UNCHANGED <<live, label, capList, capSuspendList, cap_lock,
                   cur_max_capability, call, grant, claimed>>

-----------------------------------------------------------------------------
(* drop, resume and send.  Before its first lock a drop or a resume only   *)
(* copies the user's buffer, so entering the call and taking the lock is   *)
(* one step; a send reads the receiver's label first.                      *)

Begin(t, op, pc, buf, T, temp, dest) ==
    call' = [call EXCEPT ![t] = CallOf(op, pc, buf, T, temp, dest, {})]

difc_drop_capabilities(t, buf, T, temp) ==
    /\ Ready(t)
    /\ cap_lock[t] = NoTask
    /\ temp => Room
    /\ cap_lock' = [cap_lock EXCEPT ![t] = t]
    /\ Begin(t, "drop", "walk", buf, T, temp, t)
    /\ UNCHANGED <<live, label, capList, capSuspendList, tcb, cur_max_capability,
                   grant, claimed>>

difc_resume_capabilities(t, buf, T) ==
    /\ Ready(t)
    /\ cap_lock[t] = NoTask
    /\ Room
    /\ cap_lock' = [cap_lock EXCEPT ![t] = t]
    /\ Begin(t, "resume", "walk", buf, T, FALSE, t)
    /\ UNCHANGED <<live, label, capList, capSuspendList, tcb, cur_max_capability,
                   grant, claimed>>

\* "Verify that the sender can write to the receiver": the labels are compared
\* before any lock is taken.
difc_send_capabilities(t, dest, buf, T) ==
    /\ Ready(t)
    /\ dest \in live
    /\ SelfSend \/ dest # t
    /\ check_allowed(label[t], label[dest])
    /\ Room
    /\ Begin(t, "send", "lock1", buf, T, FALSE, dest)
    /\ UNCHANGED <<live, label, capList, capSuspendList, cap_lock, tcb,
                   cur_max_capability, grant, claimed>>

\* Mutant: the second lock is not taken.
AcquireOnlyFirst(t) ==
    /\ call[t].pc = "lock1"
    /\ cap_lock[FirstLock(t)] = NoTask
    /\ cap_lock' = [cap_lock EXCEPT ![FirstLock(t)] = t]
    /\ call' = [call EXCEPT ![t].pc = "walk"]
    /\ UNCHANGED <<live, label, capList, capSuspendList, tcb, cur_max_capability,
                   grant, claimed>>

\* The two spin_locks of a send, in ascending order of address.
AcquireFirst(t) ==
    /\ call[t].pc = "lock1"
    /\ cap_lock[FirstLock(t)] = NoTask
    /\ cap_lock' = [cap_lock EXCEPT ![FirstLock(t)] = t]
    /\ call' = [call EXCEPT ![t].pc = "lock2"]
    /\ UNCHANGED <<live, label, capList, capSuspendList, tcb, cur_max_capability,
                   grant, claimed>>

AcquireSecond(t) ==
    /\ call[t].pc = "lock2"
    /\ cap_lock[SecondLock(t)] = NoTask
    /\ cap_lock' = [cap_lock EXCEPT ![SecondLock(t)] = t]
    /\ call' = [call EXCEPT ![t].pc = "walk"]
    /\ UNCHANGED <<live, label, capList, capSuspendList, tcb, cur_max_capability,
                   grant, claimed>>

(* One iteration of the loop over the user's buffer.                       *)

InWalk(t, op) == call[t].pc = "walk" /\ call[t].op = op
Entry(t) == call[t].buf[call[t].i]

\* What the labels of a list are compared with: the whole word, so that one with
\* the bit of a right set matches no label.
NoTag == CapMax + 1
Key(word) == IF word.rights = {} THEN word.tag ELSE NoTag

\* What is appended to the other list, even if nothing was found: the program's
\* word, with the bits of the rights that were taken set in it.
Moved(t, source) ==
    [tag |-> Entry(t).tag,
     rights |-> Entry(t).rights \cup Taken(source, Key(Entry(t)), call[t].type)]

\* rv after the iteration: an error stays.
ResultOf(t, source) ==
    IF TakeFails(source, Key(Entry(t)), call[t].type) THEN "ENOENT" ELSE call[t].rv

\* The word brings its rights to the task u.
Claim(t, u) == claimed' = [claimed EXCEPT ![u][Entry(t).tag] = @ \cup Entry(t).rights]

\* On to the next entry; after the last one the locks are released and the
\* call returns.
EndEntry(t, source) ==
    IF call[t].i < Len(call[t].buf)
    THEN /\ call' = [call EXCEPT ![t] = [call[t] EXCEPT !.i = call[t].i + 1,
                                                        !.rv = ResultOf(t, source)]]
         /\ UNCHANGED cap_lock
    ELSE /\ call' = [call EXCEPT ![t] = NoCall(t)]
         /\ cap_lock' = [u \in Tasks |->
                           IF u \in {t, call[t].dest} THEN NoTask ELSE cap_lock[u]]

DropEntry(t) ==
    /\ InWalk(t, "drop")
    /\ capList' = [capList EXCEPT ![t] = AfterTake(@, Key(Entry(t)), call[t].type)]
    /\ IF call[t].temp
       THEN /\ capSuspendList' = [capSuspendList EXCEPT ![t] =
                                    AppendCap(@, Moved(t, capList[t]))]
            /\ Claim(t, t)
       ELSE UNCHANGED <<capSuspendList, claimed>>
    /\ EndEntry(t, capList[t])
    /\ UNCHANGED <<live, label, tcb, cur_max_capability, grant>>

ResumeEntry(t) ==
    /\ InWalk(t, "resume")
    /\ capSuspendList' = [capSuspendList EXCEPT ![t] =
                            AfterTake(@, Key(Entry(t)), call[t].type)]
    /\ capList' = [capList EXCEPT ![t] = AppendCap(@, Moved(t, capSuspendList[t]))]
    /\ Claim(t, t)
    /\ EndEntry(t, capSuspendList[t])
    /\ UNCHANGED <<live, label, tcb, cur_max_capability, grant>>

\* The receiver finds the capability on its suspend list.  What was conveyed to
\* the sender, and what it once claimed, passes on with the rights of the call.
SendEntry(t) ==
    /\ InWalk(t, "send")
    /\ capList' = [capList EXCEPT ![t] = AfterTake(@, Key(Entry(t)), call[t].type)]
    /\ capSuspendList' = [capSuspendList EXCEPT ![call[t].dest] =
                            AppendCap(@, Moved(t, capList[t]))]
    /\ grant' = [grant EXCEPT ![call[t].dest][Entry(t).tag] =
                   @ \cup (call[t].type \cap grant[t][Entry(t).tag])]
    /\ claimed' = [claimed EXCEPT ![call[t].dest][Entry(t).tag] =
                     @ \cup Entry(t).rights
                       \cup (call[t].type \cap claimed[t][Entry(t).tag])]
    /\ EndEntry(t, capList[t])
    /\ UNCHANGED <<live, label, tcb, cur_max_capability>>

-----------------------------------------------------------------------------
AllocStep(t) ==
    \/ \E T \in Types, region \in Regions : difc_alloc_label(t, T, region)
    \/ \E u \in Tasks : __difc_alloc_label(t, u)

LabelStep(t) ==
    \/ \E tag \in Tags, ty \in SetTypes : __difc_set_label_add(t, tag, ty)
    \/ \E tag \in Tags, ty \in SetTypes : __difc_set_label_remove(t, tag, ty)
    \/ \E new \in UserLabels : set_task_label_replace(t, new)
    \/ \E new \in UserLabels : difc_replace_label_tcb(t, new)

ProcessStep(t) ==
    \/ \E c \in Tasks : difc_task_alloc_security(t, c)
    \/ \E file \in UserLabels \cup {Unlabeled} : difc_bprm_apply_creds(t, file.int)

WalkStep(t) ==
    \/ \E buf \in UserBufs, T \in Types, temp \in BOOLEAN :
         difc_drop_capabilities(t, buf, T, temp)
    \/ \E buf \in UserBufs, T \in Types : difc_resume_capabilities(t, buf, T)
    \/ \E dest \in Tasks, buf \in UserBufs, T \in Types :
         difc_send_capabilities(t, dest, buf, T)
    \/ AcquireFirst(t)
    \/ AcquireSecond(t)
    \/ DropEntry(t)
    \/ ResumeEntry(t)
    \/ SendEntry(t)

Next == \E t \in Tasks : AllocStep(t) \/ LabelStep(t) \/ ProcessStep(t) \/ WalkStep(t)

Spec == Init /\ [][Next]_vars

-----------------------------------------------------------------------------
(* Properties.                                                             *)

\* The types; in particular no segment outgrows its array (AppendCap).
TypeOK ==
    /\ live \subseteq Tasks
    /\ label \in [Tasks -> Labels]
    /\ capList \in [Tasks -> CapLists]
    /\ capSuspendList \in [Tasks -> CapLists]
    /\ cap_lock \in [Tasks -> Tasks \cup {NoTask}]
    /\ tcb \in [Tasks -> BOOLEAN]
    /\ cur_max_capability \in Tags
    /\ call \in [Tasks -> Call]
    /\ grant \in [Tasks -> [Tags -> SUBSET Rights]]
    /\ claimed \in [Tasks -> [Tags -> SUBSET Rights]]

\* The capabilities of a task, active and suspended.
Holding(t) == Entries(capList[t]) \cup Entries(capSuspendList[t])

\* "Don't resume a cap that isn't there": every right on a task's active or
\* suspended list came from the label's allocation (difc_alloc_label), from its
\* parent (difc_task_alloc_security) or from a send by a task the right had been
\* conveyed to (difc_send_capabilities).
NoForgery ==
    \A t \in Tasks : \A c \in Holding(t) : c.rights \subseteq grant[t][c.tag]

\* A right that was never conveyed to a task stems from one source only, a word
\* with that right's bit set that the task, or a task whose capabilities reached
\* it, passed to a temporary drop, a resume or a send: no interleaving or partial
\* failure of the calls forges a right in any other way.
OnlyWordsForge ==
    \A t \in Tasks : \A c \in Holding(t) :
        c.rights \subseteq grant[t][c.tag] \cup claimed[t][c.tag]

\* A call that is editing capability lists owns the cap_lock of every task
\* whose list it edits, so no two calls edit the same list at once.
WalkHoldsLocks ==
    \A t \in Tasks :
        call[t].pc = "walk" => cap_lock[t] = t /\ cap_lock[call[t].dest] = t

\* The task whose cap_lock the task t is spinning on.
WaitsFor(t, u) ==
    \/ call[t].pc = "lock1" /\ cap_lock[FirstLock(t)] = u
    \/ call[t].pc = "lock2" /\ cap_lock[SecondLock(t)] = u

\* The ascending-address order of difc_send_capabilities keeps the spinlocks
\* free of deadlock: no set of tasks spins only on locks held inside the set.
NoSpinDeadlock ==
    \A S \in (SUBSET Tasks) \ {{}} :
        \E t \in S : \A u \in S : ~WaitsFor(t, u)

\* Outside the trusted base a task's label gains a tag only if the + right to
\* it was conveyed to the task or claimed by a word, and loses a tag only if the -
\* right was: the authority traces back to an allocation or to a claim, however
\* the capability moved since.  The one exception is a root task that installs the
\* TCB integrity label.
LabelChangesBacked ==
    [][\A t \in live, ty \in LabelTypes :
         LET was == Elems(label[t][ty])
             now == Elems(label'[t][ty])
         IN  \/ tcb[t]
             \/ /\ \A l \in now \ was :
                     \/ "plus" \in grant[t][l] \cup claimed[t][l]
                     \/ t \in Root /\ LABEL_TCB \in Elems(label'[t].int)
                /\ \A l \in was \ now : "minus" \in grant[t][l] \cup claimed[t][l]]_vars

\* Some task holds the right r to the label l, active or suspended.
HeldSomewhere(l, r) ==
    \E t \in Tasks : \E c \in Holding(t) : c.tag = l /\ r \in c.rights

\* Moving capabilities between lists never loses the last copy of a right: only
\* a permanent drop that names the label and the right can destroy it.
NoRightLost ==
    [][\A l \in Tags, r \in Rights :
         HeldSomewhere(l, r) /\ ~HeldSomewhere(l, r)'
           => \E t \in Tasks : /\ InWalk(t, "drop")
                               /\ ~call[t].temp
                               /\ Key(Entry(t)) = l
                               /\ r \in call[t].type]_vars

\* "Drop the capabilities associated with a task": when the call returns 0, a
\* later lookup finds none of the rights it was asked to drop.
DropTakesEffect ==
    [][\A t \in Tasks :
         InWalk(t, "drop") /\ call'[t].op = "none" /\ ResultOf(t, capList[t]) = "0"
           => \A word \in Elems(call[t].buf) :
                task_find_capability(capList'[t], word.tag) \cap call[t].type = {}]_vars

-----------------------------------------------------------------------------
(* The promise behind the lists: the capabilities of a task as sets of     *)
(* rights.                                                                 *)

\* The rights on a capability list.
RightsOn(list) == UNION {{c.tag} \X c.rights : c \in Entries(list)}

\* The rights that an allocation in progress has yet to hand to u.
Promised(u) ==
    UNION {{call[t].buf[1].tag} \X call[t].buf[1].rights :
             t \in {v \in Tasks : call[v].pc = "grant" /\ u \in call[v].todo}}

\* The rights whose bits are set in some word of a buffer; none if programs pass
\* label numbers only, as sys.C does.
Claims == UNION {UNION {{word.tag} \X word.rights : word \in Elems(buf)} : buf \in UserBufs}

Abstract == INSTANCE Authority WITH
    TCB      <- LABEL_TCB,
    active   <- [t \in Tasks |-> RightsOn(capList[t])],
    parked   <- [t \in Tasks |-> RightsOn(capSuspendList[t])],
    promised <- [t \in Tasks |-> Promised(t)],
    sec      <- [t \in Tasks |-> Elems(label[t].sec)],
    int      <- [t \in Tasks |-> Elems(label[t].int)],
    trusted  <- tcb,
    last     <- cur_max_capability

\* The lists, buffers, locks and the order of their steps implement plain sets
\* of rights: at every step the rights of a task came from a fresh allocation,
\* from its other list, from its parent, from the active list of the sender at that
\* moment or from the words of the buffer, and a label changes only by rights
\* active at that moment, whatever other calls are in progress.
ImplementsAuthority == Abstract!Spec

============================================================================
