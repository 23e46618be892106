------------------------------ MODULE LabelSem ------------------------------
(***************************************************************************)
(* The label of an inode and its label_change_sem: the file operations of  *)
(* the kernel's fs/ directory that check the label and hold the semaphore  *)
(* for reading while they move data, and difc_inode_set_label, which holds *)
(* it for writing while it changes the label.                              *)
(*                                                                         *)
(* difc_file_permission takes the semaphore and keeps it when it allows    *)
(* the access; the file operation gives it back with file_rw_release.      *)
(* Whether every path through every operation does so is up to fs/*.c,     *)
(* so each path of those functions is here: Paths says which ones a run    *)
(* takes.  A step of one task is a stretch between two points where        *)
(* another task's step can matter.                                         *)
(***************************************************************************)
EXTENDS Integers, Sequences, FiniteSets

CONSTANTS Tasks,
          Dirs, Files, Socks, Fifos,   \* the inodes, by kind
          Parents,      \* the directories of an inode's dentries
          Tags,         \* labels that an inode or a task can carry
          TaskLabels,   \* the labels tasks take on
          InodeLabels,  \* the labels inodes are given
          Plus, Minus,  \* the + and - capabilities of each task
          Paths,        \* the code paths that programs exercise
          Root,         \* the tasks that run as root
          TCB,          \* the tag LABEL_TCB
          PIPE_BUFFERS, \* capacity of a FIFO
          MaxLeaks      \* bound: calls on leaking paths start while an inode has fewer leaks

Inodes == Dirs \cup Files \cup Socks \cup Fifos

\* Labels as sets: the code compares label lists as sets (check_allowed).
Labels == [sec : SUBSET Tags, int : SUBSET Tags]
Unlabeled == [sec |-> {}, int |-> {}]

\* "read" and "write" are vfs_read, vfs_write, the vectored forms and a request of
\* io_submit that is set up without an error.
AllPaths == {"read", "write", "sendfile", "sendfile_overflow", "readdir",
             "aio_fail", "exec", "relabel"}

\* The paths that can end without giving back a hold.
LeakPaths == {"sendfile_overflow", "readdir", "aio_fail"}

\* An inode is of one kind.  There are fewer than PID_MAX_DEFAULT = 2^15 tasks, so
\* that the biases of all who can wait fit into the upper half of the count.
ASSUME LabelSemAssumption ==
    /\ \A S \in {Dirs, Files, Socks, Fifos} : IsFiniteSet(S)
    /\ Inodes # {}
    /\ Files \cap Socks = {} /\ (Files \cup Socks) \cap (Dirs \cup Fifos) = {}
    /\ Dirs \cap Fifos = {}
    /\ IsFiniteSet(Tasks) /\ Cardinality(Tasks) < 32768
    /\ Parents \in [Inodes -> SUBSET Dirs]
    /\ TaskLabels \subseteq Labels
    /\ InodeLabels \subseteq Labels
    /\ Plus \in [Tasks -> SUBSET Tags] /\ Minus \in [Tasks -> SUBSET Tags]
    /\ Paths \subseteq AllPaths
    /\ PIPE_BUFFERS \in Nat \ {0}
    /\ MaxLeaks \in Nat

VARIABLES tlabel,   \* tsec->label, per task
          ilabel,   \* isec->label, per inode
          sem,      \* isec->label_change_sem, per inode
          data,     \* pipe->nrbufs, per FIFO
          call,     \* the file operation each task is in
          leaked    \* history: the read holds of each inode that nobody gives back

vars == <<tlabel, ilabel, sem, data, call, leaked>>

-----------------------------------------------------------------------------
(* struct rw_semaphore.  Its count is the number of active holders in the  *)
(* low half-word, plus RWSEM_WAITING_BIAS for each waiter and for an       *)
(* active writer.  wait_list is a FIFO queue.                              *)

RWSEM_WAITING_BIAS == -65536
RWSEM_ACTIVE_WRITE_BIAS == RWSEM_WAITING_BIAS + 1
Active(count) == count % 65536      \* count & RWSEM_ACTIVE_MASK

Semaphore == [count : Int, wait_list : Seq([task : Tasks, mode : {"read", "write"}])]
FreeSem == [count |-> 0, wait_list |-> <<>>]

\* The readers at the front of the queue.
FrontReaders(q) ==
    {i \in DOMAIN q : \A j \in 1..i : q[j].mode = "read"}

\* Grants the semaphore to the writer, or to all the readers, at the front of
\* the queue, unless someone is active.
__rwsem_do_wake(s) ==
    LET q == s.wait_list
        n == Cardinality(FrontReaders(q))
    IN  IF q = <<>> \/ Active(s.count) # 0 THEN s
        ELSE IF n = 0 THEN [count |-> s.count + 1, wait_list |-> Tail(q)]
        ELSE [count |-> s.count + n * (1 - RWSEM_WAITING_BIAS),
              wait_list |-> SubSeq(q, n + 1, Len(q))]

\* The caller goes to the back of the queue.
rwsem_down_failed(s, t, mode) ==
    __rwsem_do_wake([count |-> s.count + RWSEM_WAITING_BIAS,
                     wait_list |-> Append(s.wait_list, [task |-> t, mode |-> mode])])

down_read(s, t) == IF s.count + 1 >= 0 THEN [s EXCEPT !.count = @ + 1]
                                       ELSE rwsem_down_failed(s, t, "read")

down_write(s, t) == IF s.count = 0 THEN [s EXCEPT !.count = RWSEM_ACTIVE_WRITE_BIAS]
                                   ELSE rwsem_down_failed(s, t, "write")

\* Mutant: the last reader leaves without waking the queue.
up_read_no_wake(s) == [s EXCEPT !.count = @ - 1]

up_read(s) ==
    LET left == [s EXCEPT !.count = @ - 1]
    IN  IF left.count < 0 /\ Active(left.count) = 0 THEN __rwsem_do_wake(left) ELSE left

up_write(s) == __rwsem_do_wake([s EXCEPT !.count = @ - RWSEM_ACTIVE_WRITE_BIAS])

-----------------------------------------------------------------------------
(* Label checks (see DifcTasks for the same functions on label lists).     *)

check_allowed(src, dest) == src.sec \subseteq dest.sec /\ dest.int \subseteq src.int

\* The integrity labels whose addition is checked: the loop stops at the TCB
\* label.  A set keeps no order, so the labels listed before it are any of the
\* others.
Listed(int) == IF TCB \in int THEN SUBSET (int \ {TCB}) ELSE {int}

check_label_replace(t, old, new, listed) ==
    /\ TCB \in new.sec \cup new.int => t \in Root
    /\ (new.sec \ old.sec) \cup (listed \ old.int) \subseteq Plus[t]
    /\ (old.sec \ new.sec) \cup (old.int \ new.int) \subseteq Minus[t]

difc_inode_permission(t, i, mode) ==
    IF mode = "read" THEN check_allowed(ilabel[i], tlabel[t])
                     ELSE check_allowed(tlabel[t], ilabel[i])

-----------------------------------------------------------------------------
(* Calls.                                                                  *)

Stages == {"idle", "down", "check", "out", "io", "commit", "up_out", "up"}

Call == [path : AllPaths, pc : Stages,
         file : Inodes,   \* the file, in_file for sendfile
         at   : Inodes,   \* the inode whose semaphore was last asked for
         new  : Labels]   \* the new label of a relabel

\* A task outside any file operation; the rest of the record is irrelevant.
Idle == [path |-> "read", pc |-> "idle", file |-> CHOOSE i \in Inodes : TRUE,
         at |-> CHOOSE i \in Inodes : TRUE, new |-> Unlabeled]

Goto(t, pc) == call' = [call EXCEPT ![t].pc = pc]
Return(t) == call' = [call EXCEPT ![t] = Idle]
Leak(i) == leaked' = [leaked EXCEPT ![i] = @ + 1]

Sendfile(path) == path \in {"sendfile", "sendfile_overflow"}

\* The access that a call asks for on the inode at which it is.
Mode(c) == IF c.path = "write" \/ (Sendfile(c.path) /\ c.at # c.file)
           THEN "write" ELSE "read"

\* The task is still on the wait_list of the semaphore it asked for.
Queued(t) == \E w \in DOMAIN sem[call[t].at].wait_list :
                 sem[call[t].at].wait_list[w].task = t

\* What a path is applied to: sendfile needs f_op->sendfile, readdir a
\* directory; the inode of a path name can be relabelled.
Targets(path) ==
    CASE Sendfile(path) -> Files
      [] path = "readdir" -> Dirs
      [] path = "exec" -> Files
      [] path = "relabel" -> Dirs \cup Files \cup Fifos
      [] OTHER -> Files \cup Fifos

Init ==
    /\ tlabel = [t \in Tasks |-> Unlabeled]
    /\ ilabel = [i \in Inodes |-> Unlabeled]
    /\ sem = [i \in Inodes |-> FreeSem]
    /\ data = [i \in Fifos |-> 0]
    /\ call = [t \in Tasks |-> Idle]
    /\ leaked = [i \in Inodes |-> 0]

-----------------------------------------------------------------------------
\* Entry of a file operation, up to its first semaphore.
Start(t, path, f, new) ==
    /\ call[t].pc = "idle"
    /\ f \in Targets(path)
    /\ path \in LeakPaths => \A i \in Inodes : leaked[i] < MaxLeaks
    /\ call' = [call EXCEPT ![t] = [path |-> path, pc |-> "down", file |-> f, at |-> f,
                                    new |-> new]]
    /\ UNCHANGED <<tlabel, ilabel, sem, data, leaked>>

\* difc_file_permission and difc_bprm_alloc_security: down_read.
DownRead(t) ==
    /\ call[t].pc = "down" /\ call[t].path # "relabel"
    /\ sem' = [sem EXCEPT ![call[t].at] = down_read(@, t)]
    /\ Goto(t, "check")
    /\ UNCHANGED <<tlabel, ilabel, data, leaked>>

\* The rest of difc_file_permission, once the semaphore is granted: a refused
\* access gives it back, an allowed one keeps it.  Exec only copies the label.
Permission(t) ==
    /\ call[t].pc = "check" /\ call[t].path # "relabel" /\ ~Queued(t)
    /\ \/ /\ call[t].path = "exec" \/ difc_inode_permission(t, call[t].at, Mode(call[t]))
          /\ Goto(t, IF Sendfile(call[t].path) /\ Mode(call[t]) = "read"
                     THEN "out" ELSE "io")
          /\ UNCHANGED sem
       \/ /\ call[t].path # "exec"
          /\ ~difc_inode_permission(t, call[t].at, Mode(call[t]))
          /\ sem' = [sem EXCEPT ![call[t].at] = up_read(@)]
          /\ IF Sendfile(call[t].path) /\ Mode(call[t]) = "write"
             THEN Goto(t, "up") ELSE Return(t)
    /\ UNCHANGED <<tlabel, ilabel, data, leaked>>

\* do_sendfile holds in_file's semaphore and looks at out_file: a bad one ends
\* the call at fput_in_sec, a good one is checked for writing.
SendfileOut(t) ==
    /\ call[t].pc = "out"
    /\ \/ Goto(t, "up")
       \/ \E g \in Socks :
            call' = [call EXCEPT ![t] = [@ EXCEPT !.at = g, !.pc = "down"]]
    /\ UNCHANGED <<tlabel, ilabel, sem, data, leaked>>

\* Mutant: the position error ends at fput_in_sec.
SendfileBadPosOneRelease(t) ==
    /\ call[t].pc = "io" /\ Sendfile(call[t].path)
    /\ Goto(t, "up")
    /\ UNCHANGED <<tlabel, ilabel, sem, data, leaked>>

\* The position is negative: fput_out_sec, and no data moves.
SendfileBadPos(t) ==
    /\ call[t].pc = "io" /\ Sendfile(call[t].path)
    /\ Goto(t, "up_out")
    /\ UNCHANGED <<tlabel, ilabel, sem, data, leaked>>

\* The position is at or beyond the maximum: fput_out, which skips the release
\* of out_file.
SendfileOverflow(t) ==
    /\ call[t].pc = "io" /\ call[t].path = "sendfile_overflow"
    /\ Goto(t, "up") /\ Leak(call[t].at)
    /\ UNCHANGED <<tlabel, ilabel, sem, data>>

\* aio_setup_iocb fails after its permission check: io_submit_one returns the
\* error without a release.
AioSetupFails(t) ==
    /\ call[t].pc = "io" /\ call[t].path = "aio_fail"
    /\ Return(t) /\ Leak(call[t].at)
    /\ UNCHANGED <<tlabel, ilabel, sem, data>>

\* Mutant: a buffer is added to a full pipe.
PipeWriteOverfull(n) == IF n <= PIPE_BUFFERS THEN n + 1 ELSE n

\* On a full pipe the data is dropped: difc_pipe_full always returns 1.
PipeWrite(n) == IF n < PIPE_BUFFERS THEN n + 1 ELSE n

\* f_op->read, f_op->write, sendfile, readdir, aio_run_iocb: the data moves.  A
\* read of an empty FIFO blocks here, and so may sendfile, in the sendpage of the
\* socket (see Fairness).  vfs_readdir returns without a release.
Transfer(t) ==
    LET c == call[t] IN
    /\ c.pc = "io" /\ c.path # "aio_fail"
    /\ \/ c.at \notin Fifos /\ UNCHANGED data
       \/ /\ c.at \in Fifos /\ Mode(c) = "read" /\ data[c.at] > 0
          /\ data' = [data EXCEPT ![c.at] = @ - 1]
       \/ /\ c.at \in Fifos /\ Mode(c) = "write"
          /\ data' = [data EXCEPT ![c.at] = PipeWrite(@)]
    /\ \/ c.path = "readdir" /\ Return(t) /\ Leak(c.at)
       \/ Sendfile(c.path) /\ Goto(t, "up_out") /\ UNCHANGED leaked
       \/ c.path # "readdir" /\ ~Sendfile(c.path) /\ Goto(t, "up") /\ UNCHANGED leaked
    /\ UNCHANGED <<tlabel, ilabel, sem>>

\* difc_file_rw_release of sendfile's out_file, then of the file itself.
ReleaseOut(t) ==
    /\ call[t].pc = "up_out"
    /\ sem' = [sem EXCEPT ![call[t].at] = up_read(@)]
    /\ Goto(t, "up")
    /\ UNCHANGED <<tlabel, ilabel, data, leaked>>

Release(t) ==
    /\ call[t].pc = "up" /\ call[t].path # "relabel"
    /\ sem' = [sem EXCEPT ![call[t].file] = up_read(@)]
    /\ Return(t)
    /\ UNCHANGED <<tlabel, ilabel, data, leaked>>

-----------------------------------------------------------------------------
(* difc_inode_set_label.                                                   *)

\* Mutant: the label is changed under the read side of the semaphore.
DownWriteShared(t) ==
    /\ call[t].pc = "down" /\ call[t].path = "relabel"
    /\ sem' = [sem EXCEPT ![call[t].at] = down_read(@, t)]
    /\ Goto(t, "check")
    /\ UNCHANGED <<tlabel, ilabel, data, leaked>>

DownWrite(t) ==
    /\ call[t].pc = "down" /\ call[t].path = "relabel"
    /\ sem' = [sem EXCEPT ![call[t].at] = down_write(@, t)]
    /\ Goto(t, "check")
    /\ UNCHANGED <<tlabel, ilabel, data, leaked>>

\* The change must be within the task's capabilities, and the task must be
\* allowed to write to every directory the inode is in.  Those directories'
\* semaphores are not taken.
CheckRelabel(t) ==
    LET i == call[t].at IN
    /\ call[t].pc = "check" /\ call[t].path = "relabel" /\ ~Queued(t)
    /\ \E listed \in Listed(call[t].new.int) :
         Goto(t, IF /\ check_label_replace(t, ilabel[i], call[t].new, listed)
                    /\ \A p \in Parents[i] : difc_inode_permission(t, p, "write")
                 THEN "commit" ELSE "up")
    /\ UNCHANGED <<tlabel, ilabel, sem, data, leaked>>

Commit(t) ==
    /\ call[t].pc = "commit"
    /\ ilabel' = [ilabel EXCEPT ![call[t].at] = call[t].new]
    /\ Goto(t, "up")
    /\ UNCHANGED <<tlabel, sem, data, leaked>>

ReleaseWrite(t) ==
    /\ call[t].pc = "up" /\ call[t].path = "relabel"
    /\ sem' = [sem EXCEPT ![call[t].file] = up_write(@)]
    /\ Return(t)
    /\ UNCHANGED <<tlabel, ilabel, data, leaked>>

\* difc_set_task_label, between file operations.
SetTaskLabel(t, new) ==
    /\ call[t].pc = "idle"
    /\ \E listed \in Listed(new.int) : check_label_replace(t, tlabel[t], new, listed)
    /\ tlabel' = [tlabel EXCEPT ![t] = new]
    /\ UNCHANGED <<ilabel, sem, data, call, leaked>>

-----------------------------------------------------------------------------
\* The steps of a call that has started.
Step(t) ==
    \/ DownRead(t) \/ Permission(t) \/ SendfileOut(t) \/ SendfileBadPos(t)
    \/ SendfileOverflow(t) \/ AioSetupFails(t) \/ Transfer(t)
    \/ ReleaseOut(t) \/ Release(t)
    \/ DownWrite(t) \/ CheckRelabel(t) \/ Commit(t) \/ ReleaseWrite(t)

Begin(t) ==
    \/ \E path \in Paths \ {"relabel"}, f \in Inodes : Start(t, path, f, Unlabeled)
    \/ "relabel" \in Paths /\ \E f \in Inodes, new \in InodeLabels : Start(t, "relabel", f, new)
    \/ \E new \in TaskLabels : SetTaskLabel(t, new)

Next == \E t \in Tasks : Step(t) \/ Begin(t)

\* The task is in sendfile's transfer, where the socket's sendpage sleeps until
\* its peer takes data: with both semaphores held, for as long as the peer likes.
Sending(t) == call[t].pc = "io" /\ Sendfile(call[t].path)

\* The scheduler runs every task whose call can go on; nothing makes a socket's
\* peer read.
Fairness == \A t \in Tasks : WF_vars(~Sending(t) /\ Step(t))

Spec == Init /\ [][Next]_vars /\ Fairness

-----------------------------------------------------------------------------
(* Properties.                                                             *)

\* The types; in particular a FIFO never holds more than PIPE_BUFFERS buffers.
TypeOK ==
    /\ tlabel \in [Tasks -> Labels]
    /\ ilabel \in [Inodes -> Labels]
    /\ sem \in [Inodes -> Semaphore]
    /\ data \in [Fifos -> 0..PIPE_BUFFERS]
    /\ call \in [Tasks -> Call]
    /\ leaked \in [Inodes -> Nat]

\* The accesses of a call that difc_file_permission has allowed and that the
\* call has not given back.
Cleared(t) ==
    LET c == call[t]
        reading == /\ Sendfile(c.path)
                   /\ c.pc \in {"out", "io"} \/ (c.at # c.file /\ c.pc \in {"down", "check"})
    IN  (IF reading THEN {<<c.file, "read">>} ELSE {})
          \cup (IF c.pc = "io" /\ c.path # "exec"
                THEN {<<c.at, Mode(c)>>} ELSE {})

\* The leaked holds of an inode and those of all tasks fit below the mask of the
\* active half-word.  Beyond it the half-word wraps around, and the semaphore takes
\* its readers for none.
FewLeaks == \A i \in Inodes : leaked[i] + Cardinality(Tasks) < 65535

\* While data moves, and from the check until then, the labels of the task and
\* the inode allow the flow: no relabel slips in between the check of
\* difc_file_permission and the transfer it allowed.
FlowAllowed ==
    \A t \in Tasks : \A a \in Cleared(t) : difc_inode_permission(t, a[1], a[2])

\* When no file operation is in progress no label_change_sem is held: every
\* path gives back exactly the holds it took.
QuiescentFree ==
    (\A t \in Tasks : call[t].pc = "idle") => \A i \in Inodes : sem[i] = FreeSem

\* Every file operation returns if no sendfile is stuck in its socket for ever:
\* readers do not starve a relabel, a relabel does not starve readers, and no set
\* of operations waits for each other.
CallsReturn ==
    (\A t \in Tasks : []<>~Sending(t))
        => \A t \in Tasks : call[t].pc # "idle" ~> call[t].pc = "idle"

\* sys_set_file_label "Sets the label on a file, if allowed and supported": the
\* call returns, whatever else uses the file.
RelabelReturns ==
    \A t \in Tasks : call[t].pc # "idle" /\ call[t].path = "relabel" ~> call[t].pc = "idle"

============================================================================
