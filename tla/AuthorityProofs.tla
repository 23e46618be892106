-------------------------- MODULE AuthorityProofs --------------------------
(***************************************************************************)
(* DifcTasks implements Authority: every step of the lists, buffers and    *)
(* locks is a step on sets of rights, or changes none of them.             *)
(***************************************************************************)
EXTENDS DifcTasksProofs

-----------------------------------------------------------------------------
(* Sets of rights of lists.                                                *)

\* A pair is on a list if some entry carries the tag with the right.
LEMMA RightsOnMember ==
    ASSUME NEW list, NEW l, NEW r
    PROVE  <<l, r>> \in RightsOn(list) <=> \E c \in Entries(list) : c.tag = l /\ r \in c.rights
  BY DEF RightsOn

\* Rights are pairs.
LEMMA RightsOnPairs ==
    ASSUME NEW list, NEW x \in RightsOn(list)
    PROVE  x = <<x[1], x[2]>>
  BY DEF RightsOn

\* Appending adds the rights of the new entry.
LEMMA RightsOnAppend ==
    ASSUME NEW list \in CapLists, NEW cap \in Cap
    PROVE  RightsOn(AppendCap(list, cap)) = RightsOn(list) \cup ({cap.tag} \X cap.rights)
  BY AppendCapFacts DEF RightsOn

\* Taking an entry away adds none.
LEMMA RightsOnAfterTake ==
    ASSUME NEW list \in CapLists, NEW tag, NEW T \in SUBSET Rights
    PROVE  RightsOn(AfterTake(list, tag, T)) \subseteq RightsOn(list)
  BY AfterTakeFacts DEF RightsOn

\* What is moved was on the list.
LEMMA RightsOnTaken ==
    ASSUME NEW list \in CapLists, NEW tag, NEW T \in SUBSET Rights
    PROVE  {tag} \X Taken(list, tag, T) \subseteq RightsOn(list)
<1> SUFFICES ASSUME NEW x \in {tag} \X Taken(list, tag, T)
             PROVE  x \in RightsOn(list)
  OBVIOUS
<1>1. x = <<tag, x[2]>> /\ x[2] \in Taken(list, tag, T)
  OBVIOUS
<1>2. \E c \in Entries(list) : c.tag = tag /\ x[2] \in c.rights
  BY <1>1, TakenFacts
<1> QED
  BY <1>1, <1>2, RightsOnMember

\* A lookup finds only rights on the list.
LEMMA LookupActive ==
    ASSUME NEW list \in CapLists, NEW l, NEW r \in task_find_capability(list, l)
    PROVE  <<l, r>> \in RightsOn(list)
  BY FindFacts, RightsOnMember

-----------------------------------------------------------------------------
(* Allocations in progress.                                                *)

\* Two allocations in progress hand out different tags, all allocated.
PendingFresh ==
    /\ \A t \in Tasks : call[t].pc = "grant" => call[t].buf[1].tag <= cur_max_capability
    /\ \A t, u \in Tasks : t # u /\ call[t].pc = "grant" /\ call[u].pc = "grant"
                             => call[t].buf[1].tag # call[u].buf[1].tag

RInv == IInv /\ PendingFresh /\ BufsPassed

\* Steps that neither begin nor serve an allocation.
CallsQuiet ==
    \A v \in Tasks : \/ call'[v] = call[v]
                     \/ call[v].pc # "grant" /\ call'[v].pc # "grant"

\* They leave what is promised alone.
LEMMA PromisedKept ==
    ASSUME CallsQuiet
    PROVE  \A u \in Tasks : Promised(u)' = Promised(u)
<1> SUFFICES ASSUME NEW u \in Tasks PROVE Promised(u)' = Promised(u)
  OBVIOUS
<1> DEFINE S == {v \in Tasks : call[v].pc = "grant" /\ u \in call[v].todo}
           S2 == {v \in Tasks : call'[v].pc = "grant" /\ u \in call'[v].todo}
<1>1. S2 = S
  BY DEF CallsQuiet
<1>2. \A v \in S : call'[v] = call[v]
  BY DEF CallsQuiet
<1>3. {{call'[t].buf[1].tag} \X call'[t].buf[1].rights : t \in S2}
        = {{call[t].buf[1].tag} \X call[t].buf[1].rights : t \in S}
  BY <1>1, <1>2
<1> QED
  BY <1>3 DEF Promised

\* The step of a buffer-walking call, the entry of one, and a lock are quiet.
LEMMA QuietSteps ==
    ASSUME IInv, NEW t \in Tasks, LabelStep(t) \/ ProcessStep(t) \/ WalkStep(t)
    PROVE  CallsQuiet /\ cur_max_capability' = cur_max_capability
<1>0. call \in [Tasks -> Call] /\ call[t] \in Call
  BY DEF IInv, TypeOK
<1>1. CASE LabelStep(t) \/ ProcessStep(t)
  BY <1>1 DEF LabelStep, ProcessStep, __difc_set_label_add, __difc_set_label_remove,
         set_task_label_replace, difc_replace_label_tcb, difc_task_alloc_security,
         difc_bprm_apply_creds, CallsQuiet
<1>3. CASE AcquireFirst(t) \/ AcquireSecond(t)
  BY <1>0, <1>3 DEF AcquireFirst, AcquireSecond, CallsQuiet, Call
<1>4. ASSUME NEW source, call[t].pc = "walk", EndEntry(t, source)
      PROVE  CallsQuiet
  <2>1. CASE call[t].i < Len(call[t].buf)
    <3>1. call' = [call EXCEPT ![t] = [call[t] EXCEPT !.i = call[t].i + 1,
                                                       !.rv = ResultOf(t, source)]]
      BY <1>4, <2>1 DEF EndEntry
    <3>2. call'[t].pc = call[t].pc
      BY <1>0, <3>1 DEF Call
    <3> QED
      BY <1>0, <1>4, <3>1, <3>2 DEF CallsQuiet
  <2>2. CASE ~(call[t].i < Len(call[t].buf))
    BY <1>0, <1>4, <2>2 DEF EndEntry, CallsQuiet, NoCall, CallOf
  <2> QED
    BY <2>1, <2>2
<1>5. CASE DropEntry(t) \/ ResumeEntry(t) \/ SendEntry(t)
  BY <1>4, <1>5 DEF DropEntry, ResumeEntry, SendEntry, InWalk
<1>6. CASE WalkStep(t)
  <2>1. ASSUME \E buf \in UserBufs, T \in Types, temp \in BOOLEAN :
                 difc_drop_capabilities(t, buf, T, temp)
        PROVE  CallsQuiet
    BY <1>0, <2>1 DEF difc_drop_capabilities, Ready, Begin, CallOf, CallsQuiet
  <2>2. ASSUME \E buf \in UserBufs, T \in Types : difc_resume_capabilities(t, buf, T)
        PROVE  CallsQuiet
    BY <1>0, <2>2 DEF difc_resume_capabilities, Ready, Begin, CallOf, CallsQuiet
  <2>3. ASSUME \E dest \in Tasks, buf \in UserBufs, T \in Types :
                 difc_send_capabilities(t, dest, buf, T)
        PROVE  CallsQuiet
    BY <1>0, <2>3 DEF difc_send_capabilities, Ready, Begin, CallOf, CallsQuiet
  <2>4. cur_max_capability' = cur_max_capability
    BY <1>6 DEF WalkStep, difc_drop_capabilities, difc_resume_capabilities,
           difc_send_capabilities, AcquireFirst, AcquireSecond, DropEntry, ResumeEntry,
           SendEntry
  <2> QED
    BY <1>6, <1>3, <1>5, <2>1, <2>2, <2>3, <2>4 DEF WalkStep
<1> QED
  BY <1>1, <1>6 DEF LabelStep, ProcessStep, __difc_set_label_add, __difc_set_label_remove,
         set_task_label_replace, difc_replace_label_tcb, difc_task_alloc_security,
         difc_bprm_apply_creds

\* Distinct tags for distinct allocations, in every reachable state.
LEMMA PendingFreshInv == RInv /\ [Next]_vars => RInv'
<1> SUFFICES ASSUME IInv, PendingFresh, BufsPassed, [Next]_vars PROVE PendingFresh'
  BY NextInv, BufsStep DEF RInv
<1>0. call \in [Tasks -> Call] /\ cur_max_capability \in Nat
  BY DEF IInv, TypeOK, Tags
<1>1. ASSUME CallsQuiet, cur_max_capability' = cur_max_capability
      PROVE  PendingFresh'
  BY <1>1 DEF CallsQuiet, PendingFresh
<1>2. CASE UNCHANGED vars
  BY <1>1, <1>2 DEF vars, CallsQuiet
<1>3. ASSUME NEW t \in Tasks, NEW T \in Types, NEW region \in Regions,
             difc_alloc_label(t, T, region)
      PROVE  PendingFresh'
  <2>1. /\ cur_max_capability' = cur_max_capability + 1
        /\ \A v \in Tasks \ {t} : call'[v] = call[v]
        /\ call'[t].pc = "grant" => call'[t].buf[1].tag = cur_max_capability + 1
    BY <1>0, <1>3 DEF difc_alloc_label, NoCall, CallOf
  <2>2. \A v \in Tasks : call[v].pc = "grant" => call[v].buf[1].tag \in Nat
    <3> SUFFICES ASSUME NEW v \in Tasks, call[v].pc = "grant" PROVE call[v].buf[1].tag \in Nat
      OBVIOUS
    <3>1. call[v].buf \in Seq(Cap) /\ Len(call[v].buf) = 1
      BY <1>0 DEF IInv, CallsOK, Call
    <3>2. call[v].buf[1] \in Cap
      BY <3>1
    <3> QED
      BY <3>2, ConstantsAssumption DEF Cap, Tags
  <2> QED
    BY <1>0, <2>1, <2>2 DEF PendingFresh
<1>4. ASSUME NEW t \in Tasks, NEW u \in Tasks, __difc_alloc_label(t, u)
      PROVE  PendingFresh'
  <2>1. /\ cur_max_capability' = cur_max_capability
        /\ \A v \in Tasks \ {t} : call'[v] = call[v]
        /\ call'[t].pc = "grant" => call[t].pc = "grant" /\ call'[t].buf = call[t].buf
    <3>1. /\ call[t].pc = "grant" /\ call[t] \in Call
          /\ call' = [call EXCEPT ![t] =
                        IF call[t].todo = {u} THEN NoCall(t)
                        ELSE [call[t] EXCEPT !.todo = call[t].todo \ {u}]]
          /\ cur_max_capability' = cur_max_capability
      BY <1>0, <1>4 DEF __difc_alloc_label
    <3>2. CASE call[t].todo = {u}
      BY <1>0, <3>1, <3>2 DEF NoCall, CallOf
    <3>3. CASE call[t].todo # {u}
      <4>1. call'[t] = [call[t] EXCEPT !.todo = call[t].todo \ {u}]
        BY <1>0, <3>1, <3>3
      <4>2. call'[t].buf = call[t].buf
        BY <3>1, <4>1 DEF Call
      <4> QED
        BY <1>0, <3>1, <4>2
    <3> QED
      BY <3>2, <3>3
  <2> QED
    BY <2>1 DEF PendingFresh
<1> QED
  BY <1>1, <1>2, <1>3, <1>4, QuietSteps DEF Next, AllocStep

\* No allocation is in progress initially.
LEMMA RInvariance == Spec => []RInv
<1>1. Init => RInv
  BY InitInv DEF RInv, Init, PendingFresh, BufsPassed, NoCall, CallOf
<1> QED
  BY <1>1, PendingFreshInv, PTL DEF Spec

-----------------------------------------------------------------------------
(* The initial state and the steps.                                        *)

LEMMA InitAbstract == Init => Abstract!Init
<1> SUFFICES ASSUME Init PROVE Abstract!Init
  OBVIOUS
<1>1. RightsOn(<<>>) = {}
  BY DEF RightsOn, Entries
<1>2. \A t \in Tasks : Promised(t) = {}
  BY DEF Init, Promised, NoCall, CallOf
<1>3. \A t \in Tasks : Elems(label[t].sec) = {} /\ Elems(label[t].int) = {}
  BY DEF Init, Unlabeled, Elems
<1>4. cur_max_capability \in Nat /\ live \subseteq Tasks
  BY ConstantsAssumption DEF Init, CAP_START_VAL
<1> QED
  BY <1>1, <1>2, <1>3, <1>4 DEF Init, Abstract!Init, Abstract!None

\* Allocation of a label: the rights are promised to the members.
LEMMA AllocAbstract ==
    ASSUME RInv, NEW t \in Tasks, NEW T \in Types, NEW region \in Regions,
           difc_alloc_label(t, T, region)
    PROVE  Abstract!Allocate(Members(t, region), T)
<1> DEFINE S == Members(t, region)
           l == cur_max_capability + 1
<1>0. call \in [Tasks -> Call] /\ call[t].pc = "idle" /\ t \in live
  BY DEF RInv, IInv, TypeOK, difc_alloc_label, Ready
<1>1. /\ cur_max_capability' = l
      /\ call' = [call EXCEPT ![t] =
                     IF region = "REGION_NONE" THEN NoCall(t)
                     ELSE CallOf("alloc", "grant", <<[tag |-> l, rights |-> T]>>, T, FALSE, t, S)]
      /\ UNCHANGED <<live, label, capList, capSuspendList, tcb>>
  BY DEF difc_alloc_label
<1>2. region = "REGION_NONE" => S = {}
  BY DEF Members
<1>3. ASSUME NEW u \in Tasks
      PROVE  Promised(u)' = IF u \in S THEN Promised(u) \cup ({l} \X T) ELSE Promised(u)
  <2> DEFINE W == {v \in Tasks : call[v].pc = "grant" /\ u \in call[v].todo}
             W2 == {v \in Tasks : call'[v].pc = "grant" /\ u \in call'[v].todo}
             g(v) == {call[v].buf[1].tag} \X call[v].buf[1].rights
             g2(v) == {call'[v].buf[1].tag} \X call'[v].buf[1].rights
  <2>1. \A v \in Tasks \ {t} : call'[v] = call[v]
    BY <1>0, <1>1
  <2>2. t \notin W
    BY <1>0
  <2>3. \A v \in W : v \in W2 /\ g2(v) = g(v)
    BY <2>1, <2>2
  <2>4. \A v \in W2 \ {t} : v \in W /\ g2(v) = g(v)
    BY <2>1
  <2>5. Promised(u) = UNION {g(v) : v \in W} /\ Promised(u)' = UNION {g2(v) : v \in W2}
    BY DEF Promised
  <2>6. CASE u \in S
    <3>1. call'[t] = CallOf("alloc", "grant", <<[tag |-> l, rights |-> T]>>, T, FALSE, t, S)
      BY <1>0, <1>1, <1>2, <2>6
    <3>2. t \in W2 /\ g2(t) = {l} \X T
      BY <3>1, <2>6 DEF CallOf
    <3> HIDE DEF W, W2, g, g2
    <3> QED
      BY <2>3, <2>4, <2>5, <2>6, <3>2
  <2>7. CASE u \notin S
    <3>1. t \notin W2
      BY <1>0, <1>1, <2>7 DEF CallOf, NoCall
    <3> HIDE DEF W, W2, g, g2
    <3> QED
      BY <2>3, <2>4, <2>5, <2>7, <3>1
  <2> QED
    BY <2>6, <2>7
<1> HIDE DEF S
<1> QED
  BY <1>1, <1>3 DEF Abstract!Allocate, S

\* Serving one thread of an allocation: what it was promised becomes active.
LEMMA GrantAbstract ==
    ASSUME RInv, NEW t \in Tasks, NEW u \in Tasks, __difc_alloc_label(t, u)
    PROVE  Abstract!Receive(u)
<1> DEFINE cap == call[t].buf[1]
           l == cap.tag
           T == cap.rights
<1>0. /\ call \in [Tasks -> Call] /\ call[t] \in Call
      /\ capList \in [Tasks -> CapLists]
      /\ call[t].pc = "grant" /\ u \in call[t].todo
  BY DEF RInv, IInv, TypeOK, __difc_alloc_label
<1>1. /\ capList' = [capList EXCEPT ![u] = AppendCap(capList[u], cap)]
      /\ call' = [call EXCEPT ![t] =
                    IF call[t].todo = {u} THEN NoCall(t)
                    ELSE [call[t] EXCEPT !.todo = call[t].todo \ {u}]]
      /\ UNCHANGED <<live, label, capSuspendList, tcb, cur_max_capability>>
  BY DEF __difc_alloc_label
<1>2. cap \in Cap
  <2>1. call[t].buf \in Seq(Cap) /\ Len(call[t].buf) = 1
    BY <1>0 DEF RInv, IInv, CallsOK, Call
  <2> QED
    BY <2>1
<1>3. RightsOn(capList'[u]) = RightsOn(capList[u]) \cup ({l} \X T)
  <2>1. capList[u] \in CapLists /\ capList'[u] = AppendCap(capList[u], cap)
    BY <1>0, <1>1
  <2> HIDE DEF cap
  <2> QED
    BY <2>1, <1>2, RightsOnAppend
<1>4. \A v \in Tasks \ {u} : RightsOn(capList'[v]) = RightsOn(capList[v])
  BY <1>0, <1>1
<1>5. /\ \A v \in Tasks \ {t} : call'[v] = call[v]
      /\ call'[t].pc = "grant" => /\ call'[t].buf = call[t].buf
                                  /\ call'[t].type = call[t].type
                                  /\ call'[t].todo = call[t].todo \ {u}
      /\ call'[t].pc # "grant" => call[t].todo = {u}
  <2>1. CASE call[t].todo = {u}
    BY <1>0, <1>1, <2>1 DEF NoCall, CallOf
  <2>2. CASE call[t].todo # {u}
    <3>1. call'[t] = [call[t] EXCEPT !.todo = call[t].todo \ {u}]
      BY <1>0, <1>1, <2>2
    <3>2. /\ call'[t].buf = call[t].buf /\ call'[t].type = call[t].type
          /\ call'[t].todo = call[t].todo \ {u} /\ call'[t].pc = call[t].pc
      BY <1>0, <3>1 DEF Call
    <3> QED
      BY <1>0, <1>1, <3>2
  <2> QED
    BY <2>1, <2>2
<1>6. ASSUME NEW w \in Tasks
      PROVE  Promised(w)' = IF w = u THEN Promised(w) \ ({l} \X T) ELSE Promised(w)
  <2> DEFINE W == {v \in Tasks : call[v].pc = "grant" /\ w \in call[v].todo}
             W2 == {v \in Tasks : call'[v].pc = "grant" /\ w \in call'[v].todo}
             g(v) == {call[v].buf[1].tag} \X call[v].buf[1].rights
             g2(v) == {call'[v].buf[1].tag} \X call'[v].buf[1].rights
  <2>1. \A v \in W2 : v \in W /\ g2(v) = g(v)
    BY <1>0, <1>5
  <2>2. Promised(w) = UNION {g(v) : v \in W} /\ Promised(w)' = UNION {g2(v) : v \in W2}
    BY DEF Promised
  <2>3. CASE w = u
    <3>1. t \in W /\ g(t) = {l} \X T
      BY <1>0, <2>3
    <3>2. t \notin W2
      BY <1>5, <2>3
    <3>3. \A v \in W \ {t} : v \in W2
      BY <1>5
    <3>4. \A v \in W \ {t} : g(v) \cap ({l} \X T) = {}
      <4> SUFFICES ASSUME NEW v \in W \ {t} PROVE call[v].buf[1].tag # l
        OBVIOUS
      <4> QED
        BY <1>0 DEF RInv, PendingFresh
    <3> HIDE DEF W, W2, g, g2
    <3> QED
      BY <2>1, <2>2, <2>3, <3>1, <3>2, <3>3, <3>4
  <2>4. CASE w # u
    <3>1. \A v \in W : v \in W2
      BY <1>0, <1>5, <2>4
    <3> HIDE DEF W, W2, g, g2
    <3> QED
      BY <2>1, <2>2, <2>4, <3>1
  <2> QED
    BY <2>3, <2>4
<1>7. {l} \X T \subseteq Promised(u)
  BY <1>0 DEF Promised
<1> HIDE DEF l, T, cap
<1> QED
  BY <1>1, <1>3, <1>4, <1>6, <1>7 DEF Abstract!Receive

\* The steps that edit capability lists.
LEMMA EditAbstract ==
    ASSUME RInv, NEW t \in Tasks, DropEntry(t) \/ ResumeEntry(t) \/ SendEntry(t)
    PROVE  Abstract!Drop(t) \/ Abstract!Resume(t) \/ Abstract!Send(t, call[t].dest)
<1> DEFINE word == Entry(t)
           l == Key(Entry(t))
           T == call[t].type
           A == capList[t]
           P == capSuspendList[t]
           d == call[t].dest
<1>0. /\ call \in [Tasks -> Call] /\ call[t] \in Call /\ call[t].pc = "walk"
      /\ capList \in [Tasks -> CapLists] /\ capSuspendList \in [Tasks -> CapLists]
  BY DEF RInv, IInv, TypeOK, DropEntry, ResumeEntry, SendEntry, InWalk
<1>1. T \in SUBSET Rights /\ d \in Tasks /\ A \in CapLists /\ P \in CapLists
  BY <1>0 DEF Call
<1>2. word \in Cap /\ {word.tag} \X word.rights \subseteq Claims
  <2>1. /\ call[t].i \in 1..Len(call[t].buf) /\ call[t].buf \in Seq(Cap)
        /\ call[t].buf \in UserBufs
    BY <1>0 DEF RInv, IInv, CallsOK, Call, BufsPassed
  <2>2. word \in Cap /\ word \in Elems(call[t].buf)
    BY <2>1 DEF Entry, Elems
  <2> HIDE DEF word
  <2> QED
    BY <2>1, <2>2 DEF Claims
<1>3. ASSUME NEW u \in Tasks PROVE Promised(u)' = Promised(u)
  <2>1. WalkStep(t)
    BY DEF WalkStep
  <2> QED
    BY <2>1, QuietSteps, PromisedKept DEF RInv
<1>4. ASSUME NEW list \in CapLists, NEW source \in CapLists
      PROVE  /\ RightsOn(list) \subseteq RightsOn(AppendCap(list, Moved(t, source)))
             /\ RightsOn(AppendCap(list, Moved(t, source)))
                  \subseteq RightsOn(list) \cup RightsOn(source) \cup Claims
  <2> DEFINE cap == Moved(t, source)
             took == Taken(source, l, T)
  <2>1. cap.tag = word.tag /\ cap.rights = word.rights \cup took /\ cap \in Cap
    BY <1>1, <1>2, TakenFacts DEF Moved, Cap
  <2>2. took # {} => l = word.tag
    <3>1. ASSUME NEW r \in took PROVE l \in Tags
      BY <3>1, <1>1, TakenFacts, EntriesOf DEF Cap
    <3> QED
      BY <3>1, <1>2, KeyFacts
  <2>3. {l} \X took \subseteq RightsOn(source)
    BY <1>1, RightsOnTaken
  <2> HIDE DEF cap, l, T, took, word
  <2>4. RightsOn(AppendCap(list, cap)) = RightsOn(list) \cup ({cap.tag} \X cap.rights)
    BY <2>1, RightsOnAppend
  <2>5. {cap.tag} \X cap.rights \subseteq ({word.tag} \X word.rights) \cup ({l} \X took)
    BY <2>1, <2>2
  <2> QED
    BY <2>3, <2>4, <2>5, <1>2 DEF cap
<1>5. ASSUME NEW list \in CapLists
      PROVE  RightsOn(AfterTake(list, l, T)) \subseteq RightsOn(list)
  BY <1>1, RightsOnAfterTake
<1>6. CASE DropEntry(t)
  <2>1. /\ capList' = [capList EXCEPT ![t] = AfterTake(A, l, T)]
        /\ capSuspendList' = [capSuspendList EXCEPT ![t] =
                                IF call[t].temp THEN AppendCap(P, Moved(t, A)) ELSE P]
        /\ UNCHANGED <<live, label, tcb, cur_max_capability>>
    BY <1>0, <1>6 DEF DropEntry
  <2>2. RightsOn(capList'[t]) \subseteq RightsOn(capList[t])
    BY <1>0, <1>1, <1>5, <2>1
  <2>3. /\ RightsOn(capSuspendList[t]) \subseteq RightsOn(capSuspendList'[t])
        /\ RightsOn(capSuspendList'[t]) \subseteq RightsOn(capSuspendList[t])
             \cup RightsOn(capList[t]) \cup Claims
    BY <1>0, <1>1, <1>4, <2>1
  <2>4. \A u \in Tasks \ {t} : capList'[u] = capList[u] /\ capSuspendList'[u] = capSuspendList[u]
    BY <1>0, <2>1
  <2> QED
    BY <1>3, <2>1, <2>2, <2>3, <2>4 DEF Abstract!Drop
<1>7. CASE ResumeEntry(t)
  <2>1. /\ capSuspendList' = [capSuspendList EXCEPT ![t] = AfterTake(P, l, T)]
        /\ capList' = [capList EXCEPT ![t] = AppendCap(A, Moved(t, P))]
        /\ UNCHANGED <<live, label, tcb, cur_max_capability>>
    BY <1>7 DEF ResumeEntry
  <2>2. RightsOn(capSuspendList'[t]) \subseteq RightsOn(capSuspendList[t])
    BY <1>0, <1>1, <1>5, <2>1
  <2>3. /\ RightsOn(capList[t]) \subseteq RightsOn(capList'[t])
        /\ RightsOn(capList'[t]) \subseteq RightsOn(capList[t])
             \cup RightsOn(capSuspendList[t]) \cup Claims
    BY <1>0, <1>1, <1>4, <2>1
  <2>4. \A u \in Tasks \ {t} : capList'[u] = capList[u] /\ capSuspendList'[u] = capSuspendList[u]
    BY <1>0, <2>1
  <2> QED
    BY <1>3, <2>1, <2>2, <2>3, <2>4 DEF Abstract!Resume
<1>8. CASE SendEntry(t)
  <2>1. /\ capList' = [capList EXCEPT ![t] = AfterTake(A, l, T)]
        /\ capSuspendList' = [capSuspendList EXCEPT ![d] =
                                AppendCap(capSuspendList[d], Moved(t, A))]
        /\ UNCHANGED <<live, label, tcb, cur_max_capability>>
    BY <1>8 DEF SendEntry
  <2>2. RightsOn(capList'[t]) \subseteq RightsOn(capList[t])
    BY <1>0, <1>1, <1>5, <2>1
  <2>3. /\ RightsOn(capSuspendList[d]) \subseteq RightsOn(capSuspendList'[d])
        /\ RightsOn(capSuspendList'[d]) \subseteq RightsOn(capSuspendList[d])
             \cup RightsOn(capList[t]) \cup Claims
    BY <1>0, <1>1, <1>4, <2>1
  <2>4. /\ \A u \in Tasks \ {t} : capList'[u] = capList[u]
        /\ \A u \in Tasks \ {d} : capSuspendList'[u] = capSuspendList[u]
    BY <1>0, <1>1, <2>1
  <2> QED
    BY <1>1, <1>3, <2>1, <2>2, <2>3, <2>4 DEF Abstract!Send
<1> QED
  BY <1>6, <1>7, <1>8

\* The elements of a list with one more entry.
LEMMA ElemsAppend ==
    ASSUME NEW X, NEW s \in Seq(X), NEW x \in X
    PROVE  Elems(Append(s, x)) = Elems(s) \cup {x}
<1>1. /\ Len(s) \in Nat /\ DOMAIN s = 1..Len(s)
      /\ DOMAIN Append(s, x) = 1..(Len(s) + 1)
      /\ \A i \in 1..Len(s) : Append(s, x)[i] = s[i]
      /\ Append(s, x)[Len(s) + 1] = x
  OBVIOUS
<1>2. Elems(Append(s, x)) \subseteq Elems(s) \cup {x}
  BY <1>1 DEF Elems
<1>3. Elems(s) \cup {x} \subseteq Elems(Append(s, x))
  BY <1>1 DEF Elems
<1> QED
  BY <1>2, <1>3

\* A change of label that Justified accepts, for the labels as sets.
Warranted(t, new) ==
    /\ \A l \in Elems(new.sec) \ Elems(label[t].sec) : <<l, "plus">> \in RightsOn(capList[t])
    /\ \A l \in Elems(label[t].sec) \ Elems(new.sec) : <<l, "minus">> \in RightsOn(capList[t])
    /\ \A l \in Elems(label[t].int) \ Elems(new.int) : <<l, "minus">> \in RightsOn(capList[t])
    /\ \/ \A l \in Elems(new.int) \ Elems(label[t].int) : <<l, "plus">> \in RightsOn(capList[t])
       \/ t \in Root /\ LABEL_TCB \in Elems(new.int)

\* A warranted label, or any label for a trusted task, is a step of Relabel.
LEMMA WarrantedRelabel ==
    ASSUME NEW t \in Tasks, NEW new \in Labels, label \in [Tasks -> Labels], t \in live,
           tcb[t] \/ Warranted(t, new),
           label' = [label EXCEPT ![t] = new],
           UNCHANGED <<live, capList, capSuspendList, tcb, cur_max_capability, call>>
    PROVE  Abstract!Relabel(t)
<1>1. label'[t] = new /\ \A u \in Tasks \ {t} : label'[u] = label[u]
  OBVIOUS
<1>2. \A u \in Tasks : Promised(u)' = Promised(u)
  BY PromisedKept DEF CallsQuiet
<1>3. ASSUME Warranted(t, new) PROVE Abstract!Justified(t)
  <2> DEFINE R == RightsOn(capList[t])
             s0 == Elems(label[t].sec)
             i0 == Elems(label[t].int)
             s1 == Elems(new.sec)
             i1 == Elems(new.int)
  <2>1. /\ \A l \in s1 \ s0 : <<l, "plus">> \in R
        /\ \A l \in (s0 \ s1) \cup (i0 \ i1) : <<l, "minus">> \in R
        /\ \/ \A l \in i1 \ i0 : <<l, "plus">> \in R
           \/ t \in Root /\ LABEL_TCB \in i1
    BY <1>3 DEF Warranted
  <2>2. ASSUME NEW S, NEW r, \A l \in S : <<l, r>> \in R
        PROVE  S \X {r} \subseteq R
    <3> SUFFICES ASSUME NEW x \in S \X {r} PROVE x \in R
      OBVIOUS
    <3>1. x = <<x[1], r>> /\ x[1] \in S
      OBVIOUS
    <3> QED
      BY <2>2, <3>1
  <2> HIDE DEF R, s0, i0, s1, i1
  <2>3. /\ (s1 \ s0) \X {"plus"} \subseteq R
        /\ ((s0 \ s1) \cup (i0 \ i1)) \X {"minus"} \subseteq R
        /\ \/ (i1 \ i0) \X {"plus"} \subseteq R
           \/ t \in Root /\ LABEL_TCB \in i1
    BY <2>1, <2>2
  <2> QED
    BY <1>1, <2>3 DEF Abstract!Justified, R, s0, i0, s1, i1
<1> HIDE DEF Warranted
<1> QED
  BY <1>1, <1>2, <1>3 DEF Abstract!Relabel

\* The four ways to change a label.
LEMMA LabelAbstract ==
    ASSUME RInv, NEW t \in Tasks, LabelStep(t)
    PROVE  Abstract!Relabel(t)
<1>0. label \in [Tasks -> Labels] /\ label[t] \in Labels /\ capList[t] \in CapLists
  BY DEF RInv, IInv, TypeOK
<1>1. /\ t \in live
      /\ UNCHANGED <<live, capList, capSuspendList, tcb, cur_max_capability, call>>
  BY DEF LabelStep, __difc_set_label_add, __difc_set_label_remove,
         set_task_label_replace, difc_replace_label_tcb, Ready
<1>2. label' \in [Tasks -> Labels]
  BY LabelStepInv DEF RInv, IInv, TypeOK
<1>3. \A l : /\ MayAdd(t, l) => <<l, "plus">> \in RightsOn(capList[t])
             /\ MayRemove(t, l) => <<l, "minus">> \in RightsOn(capList[t])
  BY <1>0, LookupActive DEF MayAdd, MayRemove
<1>4. ASSUME NEW tag \in Tags, NEW ty \in LabelTypes, __difc_set_label_add(t, tag, ty)
      PROVE  Abstract!Relabel(t)
  <2> DEFINE new == [label[t] EXCEPT ![ty] = Append(label[t][ty], tag)]
  <2>1. label' = [label EXCEPT ![t] = new] /\ MayAdd(t, tag)
    BY <1>4 DEF __difc_set_label_add
  <2>2. new \in Labels
    BY <1>0, <1>2, <2>1
  <2>3. label[t][ty] \in Seq(Tags)
    BY <1>0 DEF Labels, LabelTypes
  <2>4. Elems(Append(label[t][ty], tag)) = Elems(label[t][ty]) \cup {tag}
    BY <2>3, ElemsAppend
  <2>5. Warranted(t, new)
    <3>1. /\ new[ty] = Append(label[t][ty], tag)
          /\ \A z \in LabelTypes \ {ty} : new[z] = label[t][z]
      BY <1>0 DEF Labels, LabelTypes
    <3> HIDE DEF new
    <3>2. /\ Elems(new[ty]) = Elems(label[t][ty]) \cup {tag}
          /\ \A z \in LabelTypes \ {ty} : Elems(new[z]) = Elems(label[t][z])
      BY <3>1, <2>4
    <3>3. \A z \in LabelTypes :
             /\ \A l \in Elems(new[z]) \ Elems(label[t][z]) : l = tag
             /\ Elems(label[t][z]) \ Elems(new[z]) = {}
      BY <3>2
    <3>4. new.sec = new["sec"] /\ new.int = new["int"] /\ "sec" \in LabelTypes /\ "int" \in LabelTypes
      BY DEF LabelTypes
    <3> QED
      BY <1>3, <2>1, <3>3, <3>4 DEF Warranted
  <2> HIDE DEF new
  <2> QED
    BY <1>0, <1>1, <2>1, <2>2, <2>5, WarrantedRelabel
<1>5. ASSUME NEW tag \in Tags, NEW ty \in LabelTypes, __difc_set_label_remove(t, tag, ty)
      PROVE  Abstract!Relabel(t)
  <2> DEFINE s == label[t][ty]
             k == First({i \in DOMAIN s : s[i] = tag})
             new == [label[t] EXCEPT ![ty] = ShiftDown(s, k)]
  <2>1. label' = [label EXCEPT ![t] = new] /\ MayRemove(t, tag) /\ tag \in Elems(s)
    BY <1>5 DEF __difc_set_label_remove
  <2>2. new \in Labels
    BY <1>0, <1>2, <2>1
  <2>3. s \in Seq(Tags)
    BY <1>0 DEF Labels, LabelTypes
  <2>4. k \in 1..Len(s) /\ s[k] = tag
    <3>1. {i \in DOMAIN s : s[i] = tag} \subseteq Nat /\ {i \in DOMAIN s : s[i] = tag} # {}
      BY <2>1, <2>3 DEF Elems
    <3>2. k \in {i \in DOMAIN s : s[i] = tag}
      BY <3>1, FirstMember
    <3> QED
      BY <3>2, <2>3
  <2>5. /\ Elems(ShiftDown(s, k)) \subseteq Elems(s)
        /\ Elems(s) \ {tag} \subseteq Elems(ShiftDown(s, k))
    BY <2>3, <2>4, ShiftDownFacts
  <2>6. Warranted(t, new)
    <3>1. /\ new[ty] = ShiftDown(s, k)
          /\ \A z \in LabelTypes \ {ty} : new[z] = label[t][z]
      BY <1>0 DEF Labels, LabelTypes
    <3> HIDE DEF new
    <3>3. \A z \in LabelTypes :
             /\ Elems(new[z]) \subseteq Elems(label[t][z])
             /\ \A l \in Elems(label[t][z]) \ Elems(new[z]) : l = tag
      BY <3>1, <2>5
    <3>4. new.sec = new["sec"] /\ new.int = new["int"] /\ "sec" \in LabelTypes /\ "int" \in LabelTypes
      BY DEF LabelTypes
    <3> QED
      BY <1>3, <2>1, <3>3, <3>4 DEF Warranted
  <2> HIDE DEF new
  <2> QED
    BY <1>0, <1>1, <2>1, <2>2, <2>6, WarrantedRelabel
<1>6. ASSUME NEW new \in UserLabels, set_task_label_replace(t, new)
      PROVE  Abstract!Relabel(t)
  <2>1. label' = [label EXCEPT ![t] = new] /\ check_label_replace(t, label[t], new)
    BY <1>6 DEF set_task_label_replace
  <2>2. new \in Labels
    BY <1>0, <1>2, <2>1
  <2>3. LABEL_TCB \notin Elems(new.int) => CheckedInts(new.int) = Elems(new.int)
    <3>1. new.int \in Seq(Tags)
      BY <2>2 DEF Labels
    <3> QED
      BY <3>1 DEF CheckedInts, Elems
  <2>4. Warranted(t, new)
    BY <1>3, <2>1, <2>3 DEF Warranted, check_label_replace
  <2> QED
    BY <1>0, <1>1, <2>1, <2>2, <2>4, WarrantedRelabel
<1>7. ASSUME NEW new \in UserLabels, difc_replace_label_tcb(t, new)
      PROVE  Abstract!Relabel(t)
  <2>1. label' = [label EXCEPT ![t] = new] /\ tcb[t]
    BY <1>7 DEF difc_replace_label_tcb
  <2>2. new \in Labels
    BY <1>0, <1>2, <2>1
  <2> QED
    BY <1>0, <1>1, <2>1, <2>2, WarrantedRelabel
<1> QED
  BY <1>4, <1>5, <1>6, <1>7, ConstantsAssumption DEF LabelStep

\* Fork and exec.
LEMMA ForkAbstract ==
    ASSUME RInv, NEW p \in Tasks, NEW c \in Tasks, difc_task_alloc_security(p, c)
    PROVE  Abstract!Fork(p, c)
<1>0. /\ label \in [Tasks -> Labels] /\ tcb \in [Tasks -> BOOLEAN]
      /\ capList \in [Tasks -> CapLists] /\ capSuspendList \in [Tasks -> CapLists]
  BY DEF RInv, IInv, TypeOK
<1>1. /\ p \in live /\ c \notin live /\ live' = live \cup {c}
      /\ label' = [label EXCEPT ![c] = Unlabeled]
      /\ capList' = [capList EXCEPT ![c] = capList[p]]
      /\ capSuspendList' = [capSuspendList EXCEPT ![c] = <<>>]
      /\ tcb' = [tcb EXCEPT ![c] = tcb[p]]
      /\ UNCHANGED <<cur_max_capability, call>>
  BY DEF difc_task_alloc_security, Ready
<1>2. \A u \in Tasks : Promised(u)' = Promised(u)
  BY <1>1, PromisedKept DEF CallsQuiet
<1>3. RightsOn(<<>>) = {} /\ Elems(Unlabeled.sec) = {} /\ Elems(Unlabeled.int) = {}
  BY DEF RightsOn, Entries, Unlabeled, Elems
<1>4. \A u \in Tasks :
         /\ RightsOn(capList'[u]) = IF u = c THEN RightsOn(capList[p]) ELSE RightsOn(capList[u])
         /\ RightsOn(capSuspendList'[u]) = IF u = c THEN {} ELSE RightsOn(capSuspendList[u])
         /\ Elems(label'[u].sec) = IF u = c THEN {} ELSE Elems(label[u].sec)
         /\ Elems(label'[u].int) = IF u = c THEN {} ELSE Elems(label[u].int)
  BY <1>0, <1>1, <1>3
<1> QED
  BY <1>1, <1>2, <1>4 DEF Abstract!Fork

LEMMA ExecAbstract ==
    ASSUME RInv, NEW t \in Tasks, NEW intList, difc_bprm_apply_creds(t, intList)
    PROVE  Abstract!Exec(t)
<1>1. /\ t \in live /\ tcb' = [tcb EXCEPT ![t] = LABEL_TCB \in Elems(intList)]
      /\ UNCHANGED <<live, label, capList, capSuspendList, cur_max_capability, call>>
  BY DEF difc_bprm_apply_creds, Ready
<1>2. \A u \in Tasks : Promised(u)' = Promised(u)
  BY <1>1, PromisedKept DEF CallsQuiet
<1>3. tcb \in [Tasks -> BOOLEAN]
  BY DEF RInv, IInv, TypeOK
<1>4. \A u \in Tasks \ {t} : tcb'[u] = tcb[u]
  BY <1>1, <1>3
<1> QED
  BY <1>1, <1>2, <1>4 DEF Abstract!Exec

\* Steps that touch no list, no label and no allocation are invisible.
LEMMA HiddenStep ==
    ASSUME CallsQuiet,
           UNCHANGED <<live, label, capList, capSuspendList, tcb, cur_max_capability>>
    PROVE  UNCHANGED Abstract!vars
<1>1. \A u \in Tasks : Promised(u)' = Promised(u)
  BY PromisedKept
<1> QED
  BY <1>1 DEF Abstract!vars

\* Every step is a step on sets of rights, or invisible.
LEMMA StepAbstract ==
    ASSUME RInv, [Next]_vars
    PROVE  [Abstract!Next]_(Abstract!vars)
<1>1. CASE UNCHANGED vars
  BY <1>1, HiddenStep DEF vars, CallsQuiet
<1>2. ASSUME NEW t \in Tasks, AllocStep(t) PROVE Abstract!Next
  <2>1. ASSUME NEW T \in Types, NEW region \in Regions, difc_alloc_label(t, T, region)
        PROVE  Abstract!Next
    <3>1. Members(t, region) \in SUBSET live
      BY <2>1, ConstantsAssumption
      DEF Members, Regions, difc_alloc_label, Ready
    <3>2. T \in SUBSET Abstract!Rights
      BY ConstantsAssumption DEF Rights, Abstract!Rights
    <3>3. Abstract!Allocate(Members(t, region), T)
      BY <2>1, AllocAbstract
    <3> QED
      BY <3>1, <3>2, <3>3 DEF Abstract!Next
  <2> QED
    BY <1>2, <2>1, GrantAbstract DEF AllocStep, Abstract!Next
<1>3. ASSUME NEW t \in Tasks, LabelStep(t) PROVE Abstract!Next
  BY <1>3, LabelAbstract DEF Abstract!Next
<1>4. ASSUME NEW t \in Tasks, ProcessStep(t) PROVE Abstract!Next
  BY <1>4, ForkAbstract, ExecAbstract DEF ProcessStep, Abstract!Next
<1>5. ASSUME NEW t \in Tasks, WalkStep(t) PROVE [Abstract!Next]_(Abstract!vars)
  <2>1. CASE DropEntry(t) \/ ResumeEntry(t) \/ SendEntry(t)
    <3>1. call[t].dest \in Tasks
      BY DEF RInv, IInv, TypeOK, Call
    <3> QED
      BY <2>1, <3>1, EditAbstract DEF Abstract!Next
  <2>2. CASE ~(DropEntry(t) \/ ResumeEntry(t) \/ SendEntry(t))
    <3>1. UNCHANGED <<live, label, capList, capSuspendList, tcb, cur_max_capability>>
      BY <1>5, <2>2 DEF WalkStep, difc_drop_capabilities, difc_resume_capabilities,
             difc_send_capabilities, AcquireFirst, AcquireSecond
    <3>2. CallsQuiet
      BY <1>5, QuietSteps DEF RInv
    <3> QED
      BY <3>1, <3>2, HiddenStep
  <2> QED
    BY <2>1, <2>2
<1> QED
  BY <1>1, <1>2, <1>3, <1>4, <1>5 DEF Next

\* The kernel's capability lists, edited entry by entry under spinlocks while
\* other tasks act, implement sets of rights that only an allocation or a word of
\* a buffer creates (Claims; none of them if programs pass label numbers only):
\* a move brings nothing else, and a label changes only by rights that are active
\* at that moment.
THEOREM AuthorityImplemented == Spec => ImplementsAuthority
<1>1. RInv /\ [Next]_vars => [Abstract!Next]_(Abstract!vars)
  BY StepAbstract
<1> QED
  BY <1>1, InitAbstract, RInvariance, PTL DEF Spec, ImplementsAuthority, Abstract!Spec

============================================================================
