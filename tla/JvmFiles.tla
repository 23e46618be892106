------------------------------ MODULE JvmFiles ------------------------------
(***************************************************************************)
(* File operations of green threads.  All green threads of a virtual       *)
(* processor run on one kernel task, so the kernel checks a read or write  *)
(* against the label that this task carries at that moment.  FileSystem    *)
(* passes the label of the calling thread's security region to the kernel  *)
(* once per call, then reads or writes without blocking, waits on the      *)
(* processor's I/O queue when the descriptor is not ready, and tries again *)
(* until the data is there or the caller's time is over.  Any other thread *)
(* may run between two steps.                                              *)
(*                                                                         *)
(* A label is its secrecy set; integrity is checked in the same way.  A    *)
(* descriptor is a stream of bytes to a peer outside the virtual machine,  *)
(* in nonblocking mode.  Time is kept per call, in ticks, and saturates    *)
(* one tick after the longest time a caller waits.                         *)
(***************************************************************************)
EXTENDS Naturals, Sequences, FiniteSets

CONSTANTS Threads,
          Fds,               \* descriptors in nonblocking mode
          Tags,              \* secrecy tags
          FileSec,           \* the secrecy label of the file of a descriptor
          Plus, Minus,       \* the capabilities of each thread
          OSPlus, OSMinus,   \* the capabilities of the kernel task
          Requests,          \* the calls a thread makes: [op, cnt, wait]
          Starts,            \* the regions a program starts: [S, P, M]
          Infinite,          \* WAIT_INFINITE
          MaxWait,           \* bound: the longest finite wait
          Capacity,          \* bytes that a stream can hold
          MaxDepth           \* bound: entries of each thread's region stack

Time == 0..(MaxWait + 1)
Waits == (0..MaxWait) \cup {Infinite}
NoThread == "none"

ASSUME JvmFilesAssumption ==
    /\ FileSec \in [Fds -> SUBSET Tags]
    /\ Plus \in [Threads -> SUBSET Tags] /\ Minus \in [Threads -> SUBSET Tags]
    /\ OSPlus \subseteq Tags /\ OSMinus \subseteq Tags
    /\ MaxWait \in Nat /\ Infinite \notin 0..MaxWait
    /\ Requests \in [Threads -> SUBSET [op : {"read", "write"}, cnt : Nat \ {0}, wait : Waits]]
    /\ \A t \in Threads : \A r \in Requests[t] : r.op = "write" => r.wait = Infinite
    /\ Starts \subseteq [S : SUBSET Tags, P : SUBSET Tags, M : SUBSET Tags]
    /\ Capacity \in Nat \ {0}
    /\ MaxDepth \in [Threads -> Nat]
    /\ NoThread \notin Threads /\ Fds # {}

VARIABLES stack,           \* the SRStates of each thread, the thread's own first
          inSecureRegion,  \* per thread
          klabel,          \* the label of the kernel task
          call,            \* the file operation each thread is in
          ioQueue,         \* the threads on the processor's ThreadIOQueue
          finished,        \* why a waiting thread may go on, per thread
          data,            \* bytes in each stream
          status,          \* "open", "eof" or "bad", per descriptor
          passer,          \* history: the thread that last set klabel
          refused          \* history: whether a thread's last attempt was refused

vars == <<stack, inSecureRegion, klabel, call, ioQueue, finished, data, status,
          passer, refused>>

-----------------------------------------------------------------------------
SRState == [secrecySet : SUBSET Tags, plus : SUBSET Tags, minus : SUBSET Tags,
            RESTORE_LABELS : BOOLEAN]

Region(S, P, M) == [secrecySet |-> S, plus |-> P, minus |-> M, RESTORE_LABELS |-> FALSE]

Top(s) == s[Len(s)]
Pop(s) == SubSeq(s, 1, Len(s) - 1)

\* "Only secure-regions have labels".
Own(t) == IF inSecureRegion[t] THEN Top(stack[t]).secrecySet ELSE {}

Call == [pc : {"idle", "pass", "sys", "wait"},
         fd : Fds,
         op : {"read", "write"},
         cnt : Nat,         \* bytes still to move
         done : Nat,        \* read, written
         wait : Waits,      \* totalWaitTime, as it was passed in
         left : Waits,      \* totalWaitTime
         last : Time,       \* time since lastWaitTime
         queued : Time,     \* time since the thread went on the queue
         age : Time,        \* history: time since the call began
         res : {"none", "ok", "error", "timeout"}]   \* how the last call ended

NoCall(res) ==
    [pc |-> "idle", fd |-> CHOOSE f \in Fds : TRUE, op |-> "read", cnt |-> 0, done |-> 0,
     wait |-> Infinite, left |-> Infinite, last |-> 0, queued |-> 0, age |-> 0, res |-> res]

Init ==
    /\ stack = [t \in Threads |-> <<Region({}, Plus[t], Minus[t])>>]
    /\ inSecureRegion = [t \in Threads |-> FALSE]
    /\ klabel = {}
    /\ call = [t \in Threads |-> NoCall("none")]
    /\ ioQueue = <<>>
    /\ finished = [t \in Threads |-> "no"]
    /\ data = [f \in Fds |-> 0]
    /\ status = [f \in Fds |-> "open"]
    /\ passer = NoThread
    /\ refused = [t \in Threads |-> FALSE]

-----------------------------------------------------------------------------
(* The kernel's side: sysPassLabels replaces the label of the task if its  *)
(* capabilities allow the change, and a transfer is checked against it.    *)

MaySet(S) == S \ klabel \subseteq OSPlus /\ klabel \ S \subseteq OSMinus

sysPassLabels(t, S) ==
    /\ klabel' = IF MaySet(S) THEN S ELSE klabel
    /\ passer' = IF MaySet(S) THEN t ELSE passer
    /\ refused' = [refused EXCEPT ![t] = ~MaySet(S)]

Permitted(f, op) == IF op = "read" THEN FileSec[f] \subseteq klabel
                                   ELSE klabel \subseteq FileSec[f]

-----------------------------------------------------------------------------
(* Security regions (SecureRegion has their full model).                   *)

\* The checks of startSecureRegionHelper.
MayStart(t, S, P, M) ==
    LET cur == Top(stack[t])
    IN  /\ S \subseteq cur.plus \cup cur.secrecySet
        /\ cur.secrecySet \subseteq cur.minus \cup S
        /\ P \subseteq cur.plus /\ M \subseteq cur.minus

\* A refused start pushes a dummy without labels and leaves the flag alone.
startSecureRegion(t, S, P, M) ==
    /\ call[t].pc = "idle"
    /\ Len(stack[t]) < MaxDepth[t]
    /\ \/ /\ MayStart(t, S, P, M)
          /\ stack' = [stack EXCEPT ![t] = Append(@, Region(S, P, M))]
          /\ inSecureRegion' = [inSecureRegion EXCEPT ![t] = TRUE]
       \/ /\ ~MayStart(t, S, P, M)
          /\ stack' = [stack EXCEPT ![t] = Append(@, Region({}, {}, {}))]
          /\ UNCHANGED inSecureRegion
    /\ UNCHANGED <<klabel, call, ioQueue, finished, data, status, passer, refused>>

\* Mutant: the kernel task keeps the label of the region.
endSecureRegionKeepLabel(t) ==
    /\ call[t].pc = "idle"
    /\ inSecureRegion[t]
    /\ stack' = [stack EXCEPT ![t] = Pop(@)]
    /\ inSecureRegion' = [inSecureRegion EXCEPT ![t] = Len(stack[t]) > 2]
    /\ UNCHANGED <<klabel, passer, refused, call, ioQueue, finished, data, status>>

\* A region that passed its label passes the empty one; the result is ignored.
endSecureRegion(t) ==
    /\ call[t].pc = "idle"
    /\ inSecureRegion[t]
    /\ \/ Top(stack[t]).RESTORE_LABELS /\ sysPassLabels(t, {})
       \/ ~Top(stack[t]).RESTORE_LABELS /\ UNCHANGED <<klabel, passer, refused>>
    /\ stack' = [stack EXCEPT ![t] = Pop(@)]
    /\ inSecureRegion' = [inSecureRegion EXCEPT ![t] = Len(stack[t]) > 2]
    /\ UNCHANGED <<call, ioQueue, finished, data, status>>

-----------------------------------------------------------------------------
(* FileSystem.                                                             *)

Return(t, res) == call' = [call EXCEPT ![t] = NoCall(res)]

\* readByte, readBytes, writeByte, writeBytes.
Enter(t, f, r) ==
    /\ call[t].pc = "idle"
    /\ call' = [call EXCEPT ![t] =
                  [NoCall("none") EXCEPT !.pc = "pass", !.fd = f, !.op = r.op, !.cnt = r.cnt,
                                         !.wait = r.wait, !.left = r.wait]]
    /\ UNCHANGED <<stack, inSecureRegion, klabel, ioQueue, finished, data, status,
                   passer, refused>>

\* The callers in FileSystem ignore the result.
OSpassCurrentLabels(t) ==
    /\ call[t].pc = "pass"
    /\ call' = [call EXCEPT ![t].pc = "sys"]
    /\ \/ /\ inSecureRegion[t]
          /\ sysPassLabels(t, Own(t))
          /\ stack' = IF MaySet(Own(t))
                      THEN [stack EXCEPT ![t][Len(stack[t])].RESTORE_LABELS = TRUE] ELSE stack
       \/ ~inSecureRegion[t] /\ UNCHANGED <<stack, klabel, passer, refused>>
    /\ UNCHANGED <<inSecureRegion, ioQueue, finished, data, status>>

\* The kernel refuses, the descriptor is bad, or the file is at its end.  Bytes
\* that an earlier iteration moved are lost to the caller of a failing call.
SysFails(t) ==
    LET c == call[t] IN
    /\ c.pc = "sys"
    /\ \/ /\ ~Permitted(c.fd, c.op) \/ status[c.fd] = "bad"
          /\ Return(t, "error")
       \/ /\ Permitted(c.fd, c.op) /\ status[c.fd] = "eof"
          /\ data[c.fd] = 0 \/ c.op = "write"
          /\ Return(t, IF c.op = "read" THEN "ok" ELSE "error")
    /\ UNCHANGED <<stack, inSecureRegion, klabel, ioQueue, finished, data, status,
                   passer, refused>>

\* The bytes that can move at once.
Ready(f, op) == IF op = "read" THEN data[f] ELSE Capacity - data[f]

Moves(t) == /\ call[t].pc = "sys"
            /\ Permitted(call[t].fd, call[t].op)
            /\ \/ status[call[t].fd] = "open"
               \/ status[call[t].fd] = "eof" /\ call[t].op = "read"

\* Some bytes, or all of them, are moved.
SysMoves(t) ==
    LET c == call[t]
        rc == IF Ready(c.fd, c.op) < c.cnt THEN Ready(c.fd, c.op) ELSE c.cnt
    IN  /\ Moves(t) /\ rc > 0
        /\ data' = [data EXCEPT ![c.fd] = IF c.op = "read" THEN @ - rc ELSE @ + rc]
        /\ IF rc = c.cnt THEN Return(t, "ok")
           ELSE call' = [call EXCEPT ![t].cnt = @ - rc, ![t].done = @ + rc]
        /\ UNCHANGED <<stack, inSecureRegion, klabel, ioQueue, finished, status,
                       passer, refused>>

\* The call would block.  A read returns what it has; otherwise the thread goes
\* on the I/O queue, with a fresh ThreadIOWaitData.
SysBlocks(t) ==
    LET c == call[t] IN
    /\ Moves(t) /\ status[c.fd] = "open" /\ Ready(c.fd, c.op) = 0
    /\ \/ c.op = "read" /\ c.done > 0 /\ Return(t, "ok") /\ UNCHANGED ioQueue
       \/ /\ c.op = "write" \/ c.done = 0
          /\ call' = [call EXCEPT ![t].pc = "wait", ![t].queued = 0]
          /\ ioQueue' = Append(ioQueue, t)
    /\ UNCHANGED <<stack, inSecureRegion, klabel, finished, data, status, passer, refused>>

-----------------------------------------------------------------------------
(* The I/O queue and the scheduler.                                        *)

Queued == {ioQueue[i] : i \in 1..Len(ioQueue)}
\* ThreadEventWaitQueue.ready
ready == Cardinality({t \in Queued : finished[t] # "no"})

\* Whether the wait of a thread is over: the time first, then the descriptor.
WaitOver(t) ==
    LET c == call[t]
    IN  IF c.left # Infinite /\ c.queued > c.left THEN "timeout"
        ELSE IF status[c.fd] = "bad" THEN "invalid"
        ELSE IF status[c.fd] = "eof" \/ Ready(c.fd, c.op) > 0 THEN "ready" ELSE "no"

\* ThreadEventWaitQueue.isReady: select is asked only when nobody is finished.
isReady == IF ready > 0 THEN finished
           ELSE [t \in Threads |-> IF t \in Queued THEN WaitOver(t) ELSE "no"]

\* Position i of the queue has the first finished thread.
IsNext(i) ==
    /\ isReady[ioQueue[i]] # "no"
    /\ \A j \in 1..(i - 1) : isReady[ioQueue[j]] = "no"

Without(q, i) == [j \in 1..(Len(q) - 1) |-> IF j < i THEN q[j] ELSE q[j + 1]]

\* Mutant: the time already waited is not taken off.
ResumeReadyForever(t) ==
    call' = [call EXCEPT ![t].pc = "sys", ![t].queued = 0, ![t].last = 0]

\* Mutant: lastWaitTime stays at the beginning of the call.
ResumeReadyOldLast(t) ==
    LET c == call[t] IN
    IF c.left = Infinite THEN call' = [call EXCEPT ![t].pc = "sys", ![t].queued = 0]
    ELSE IF c.last > c.left THEN Return(t, "timeout")
    ELSE call' = [call EXCEPT ![t].pc = "sys", ![t].queued = 0, ![t].left = @ - c.last]

\* Mutant: the time left is not compared with zero.
ResumeReadyUnchecked(t) ==
    LET c == call[t] IN
    IF c.left = Infinite THEN call' = [call EXCEPT ![t].pc = "sys", ![t].queued = 0]
    ELSE call' = [call EXCEPT ![t].pc = "sys", ![t].queued = 0, ![t].left = @ - c.last,
                              ![t].last = 0]

\* The descriptor is ready: the rest of the time, then the next attempt.
ResumeReady(t) ==
    LET c == call[t] IN
    IF c.left = Infinite THEN call' = [call EXCEPT ![t].pc = "sys", ![t].queued = 0]
    ELSE IF c.last > c.left THEN Return(t, "timeout")
    ELSE call' = [call EXCEPT ![t].pc = "sys", ![t].queued = 0, ![t].left = @ - c.last,
                              ![t].last = 0]

\* getRunnableThread looks at the I/O queue and takes a thread off it, which
\* goes on from its wait.  The other finished threads stay finished.
dequeue(t) ==
    /\ \E i \in 1..Len(ioQueue) :
         ioQueue[i] = t /\ IsNext(i) /\ ioQueue' = Without(ioQueue, i)
    /\ finished' = [isReady EXCEPT ![t] = "no"]
    /\ \/ isReady[t] = "timeout" /\ Return(t, "timeout")
       \/ isReady[t] = "invalid" /\ Return(t, "error")
       \/ isReady[t] = "ready" /\ ResumeReady(t)
    /\ UNCHANGED <<stack, inSecureRegion, klabel, data, status, passer, refused>>

-----------------------------------------------------------------------------
(* The clock and the peer.                                                 *)

\* Time passes for calls that have a time limit.
Later(n) == IF n <= MaxWait THEN n + 1 ELSE n
Aged(c) ==
    IF c.wait = Infinite \/ c.pc \notin {"sys", "wait"} THEN c
    ELSE [c EXCEPT !.last = Later(@), !.age = Later(@),
                   !.queued = IF c.pc = "wait" THEN Later(@) ELSE @]
Tick ==
    /\ call' = [t \in Threads |-> Aged(call[t])]
    /\ UNCHANGED <<stack, inSecureRegion, klabel, ioQueue, finished, data, status,
                   passer, refused>>

\* The peer of a stream writes and reads one byte, or closes its end; or the
\* descriptor is closed while threads use it.
Peer(f) ==
    /\ \/ status[f] = "open" /\ data[f] < Capacity /\ data' = [data EXCEPT ![f] = @ + 1]
          /\ UNCHANGED status
       \/ status[f] = "open" /\ data[f] > 0 /\ data' = [data EXCEPT ![f] = @ - 1]
          /\ UNCHANGED status
       \/ status[f] = "open" /\ status' = [status EXCEPT ![f] = "eof"] /\ UNCHANGED data
       \/ status[f] # "bad" /\ status' = [status EXCEPT ![f] = "bad"]
          /\ data' = [data EXCEPT ![f] = 0]
    /\ UNCHANGED <<stack, inSecureRegion, klabel, call, ioQueue, finished, passer, refused>>

-----------------------------------------------------------------------------
\* The steps of a file operation that need no waiting.
Step(t) == OSpassCurrentLabels(t) \/ SysFails(t) \/ SysMoves(t) \/ SysBlocks(t)

Regions(t) ==
    \/ \E r \in Starts : startSecureRegion(t, r.S, r.P, r.M)
    \/ endSecureRegion(t)

Next ==
    \/ \E t \in Threads :
         \/ Step(t) \/ dequeue(t) \/ Regions(t)
         \/ \E f \in Fds, r \in Requests[t] : Enter(t, f, r)
    \/ Tick
    \/ \E f \in Fds : Peer(f)

\* Runnable threads run, the scheduler looks at the I/O queue, time passes.
Fairness ==
    /\ \A t \in Threads : WF_vars(Step(t))
    /\ WF_vars(\E t \in Threads : dequeue(t))
    /\ WF_vars(Tick)

Spec == Init /\ [][Next]_vars /\ Fairness

-----------------------------------------------------------------------------
(* Properties.                                                             *)

\* The types; in particular the time left of a call with a limit stays in Waits:
\* readBytes asserts "!hasTimeout || totalWaitTime >= 0.0" before it waits again,
\* and a negative time would be taken for WAIT_INFINITE.
TypeOK ==
    /\ \A t \in Threads : stack[t] \in Seq(SRState) /\ Len(stack[t]) > 0
    /\ inSecureRegion \in [Threads -> BOOLEAN]
    /\ klabel \subseteq Tags
    /\ call \in [Threads -> Call]
    /\ ioQueue \in Seq(Threads)
    /\ finished \in [Threads -> {"no", "ready", "invalid", "timeout"}]
    /\ data \in [Fds -> 0..Capacity]
    /\ status \in [Fds -> {"open", "eof", "bad"}]
    /\ passer \in Threads \cup {NoThread}
    /\ refused \in [Threads -> BOOLEAN]

\* A thread whose next step moves bytes.
Transfers(t) == Moves(t) /\ Ready(call[t].fd, call[t].op) > 0

\* When bytes move under a label that is not the calling thread's, another
\* thread set the label in between, or the kernel refused the thread's own last
\* attempt: passing at the start of a call and restoring at the end of a region
\* suffice for a thread that nobody interrupts.
OnlyOthersInterfere ==
    \A t \in Threads :
        Transfers(t) /\ klabel # Own(t) => passer \notin {t, NoThread} \/ refused[t]

\* TimeoutException: only after the whole time the caller was willing to wait,
\* however often the thread was woken in vain, and with no byte taken from the
\* stream (the exception would lose it).
TimeoutsAreHonest ==
    [][\A t \in Threads :
         call[t].pc # "idle" /\ call'[t].pc = "idle" /\ call'[t].res = "timeout"
           => call[t].age > call[t].wait /\ call[t].done = 0]_vars

\* A read with a time limit returns, even if other threads take the data each
\* time it is woken.
TimedReadsReturn ==
    \A t \in Threads :
        call[t].pc # "idle" /\ call[t].wait # Infinite ~> call[t].pc = "idle"

============================================================================
