# Laminar in TLA+

Laminar enforces decentralised information flow control in two places: a security
module of the Linux kernel (`src/linux-2.6.22.6/security/difc.c` and hooks in `fs/`)
and a Java virtual machine (`src/jikesrvm-3.0.0`, `scheduler/DIFC.java` and the
compiler's barriers). Tasks, threads, inodes and objects carry a *label*, a secrecy set
and an integrity set of tags. Data may flow from A to B when `secrecy(A)` is included in
`secrecy(B)` and `integrity(B)` in `integrity(A)`. A *capability* gives the right to add
(`+`) or remove (`-`) one tag.

This directory holds TLA+ models of the parts that carry this logic, TLC configurations
that check them on small instances, and TLAPS proofs. `PROJECT.json` lists components,
runs, mutants, the map from definitions to source lines, findings, hazards and theorems.

## 1. Inventory

Paths are relative to `linux-2.6.22.6/` and to `jikesrvm-3.0.0/rvm/src/org/jikesrvm/`.

| Component | State | Operations | What is hard | What makes it correct |
|---|---|---|---|---|
| Task labels and capabilities (`security/difc.c`) | per task: label, `capList`, `capSuspendList` (chains of fixed segments), `cap_lock`, `tcb`; global `cur_max_capability` | allocate a label (self or group), add/remove/replace label, trusted replace, drop, suspend, resume, send, fork, exec | walks of user buffers under one or two spinlocks, partial failure within a buffer, label checks outside the locks | rights are not forged or lost; label changes are backed by rights; no deadlock |
| Inode labels (`security/difc.c`, `fs/read_write.c`, `readdir.c`, `aio.c`, `pipe.c`, `namei.c`) | per inode: label, `label_change_sem` | read, write, vectored, sendfile, readdir, aio, exec, FIFO, relabel | the semaphore is taken in one hook and given back in another, with many exits between; relabel in between | no relabel between check and transfer; every hold is given back; calls return |
| Reader-writer semaphore (`include/asm-i386/rwsem.h`, `lib/rwsem.c`) | count, FIFO `wait_list` | down/up, read/write | wake-ups, starvation | exclusion, no lost wake-up |
| Security regions (`scheduler/DIFC.java`, `SRState.java`) | per green thread: stack of `SRState`, `inSecureRegion`; shared capabilities; object labels; the kernel task's label | start/end region, label and capability calls, read/write/allocation barriers, object relabelling, passing labels to the kernel | refused starts, nesting, threads that share objects and one kernel task | regions have only what was granted; secrets stay behind labels; the kernel's label is restored |
| Label sets (`scheduler/LabelSet.java`) | immutable sorted arrays, one `EMPTY` object | `isSubsetOf`, two `union`s, `minus`, `checkInUnion` | merge loops with two or three cursors, results that reuse operands, tests by identity | they compute the set operations; `EMPTY` is unique |
| Redundant barrier elimination (`compilers/opt/hir2lir/ExpandRuntimeServices.java`, `RemoveRedundantDIFCBarriers.java`) | set of checked registers per basic block (`scratchObject`), the redundant instructions | two data-flow passes (reads, writes), before and after barriers are inserted; insertion, inlining, removal | loops, merges, handlers, facts about registers rather than objects | an access without a barrier was checked before; the rounds end |
| Label storage (`security/difc.c`, xattr functions) | extended attribute | pack, unpack, init, get/set | buffer sizes, two lists in one buffer | what is read back was written |
| Green threads and files (`scheduler/greenthreads/FileSystem.java`, `ThreadEventWaitQueue.java`, `ThreadIOQueue.java`, `Wait.java`, `GreenProcessor.java`) | the I/O queue, wait data and readiness of each thread; the kernel task's label; progress and remaining time of each call | read and write bytes, wait, poll, dequeue; pass labels | a thread switch anywhere; partial transfers; readiness that is stale when used; time limits over several waits | the label in force is explained; timeouts are neither early nor lossy; timed reads return |
| Labeled space (MMTk plans) | spaces | allocation, collection | - | an object keeps its labels |

Interactions. A region start checks label sets, pushes an `SRState`, and (when asked)
passes its labels to the kernel with `sysPassLabels`, i.e. `difc_set_task_label` on the
kernel task that carries all green threads. Barriers compare object labels with the
current `SRState`. In the kernel, system calls check the task's label and capabilities;
VFS paths call `security_file_permission`, which leaves `label_change_sem` held for
reading, and `security_file_rw_release`, which gives it back. `exec` of a file with the TCB
integrity label sets `tcb`. `PROJECT.json` lists the hazards line by line.

## 2. Modules

| Module | Models | Proofs |
|---|---|---|
| `DifcTasks` (`MCDifcTasks`) | task labels and capabilities | `DifcTasksProofs` |
| `Authority` | abstract specification of `DifcTasks` | `AuthorityProofs` (refinement) |
| `LabelSem` (`MCLabelSem`) | inode labels, the file operations and the semaphore | `LabelSemProofs` |
| `SecureRegion` (`MCSecureRegion`) | security regions, barriers, heap labels, the kernel task's label | `SecureRegionProofs` |
| `LabelSets` (`MCLabelSets`) | the loops of `LabelSet.java` | `LabelSetsProofs` |
| `JvmFiles` (`MCJvmFiles`) | file operations of green threads on one kernel task | `JvmFilesProofs` |
| `BarrierElim` (`MCBarrierElim`) | barrier insertion and elimination, and the compiled method | `BarrierElimProofs` |

The `MC` modules only give values to constants. Definitions named in comments as *mutant*
are plausible bugs; each shows that a property notices the bug (`PROJECT.json`,
"mutants"). No specification uses them.

### DifcTasks

A capability is `[tag, rights]`, and so is each 64-bit word of a buffer that a program passes in:
the code takes the word as it is. A capability list is a sequence of segments with the code's
first-match lookup, appending and shifting down. A call that needs one lookup under one
lock is one action, enabled when the lock is free. Drop, resume and send are split into
begin (checks before locks), one step per spinlock, one step per buffer entry; the last
entry releases the locks. A group allocation gives the capability to one thread per step.
The history variable `grant` records the rights ever conveyed to each task, `claimed` those that words
of buffers brought in.

Details kept because they matter: a drop clears bits in a *copy* of the entry; the word is compared
whole with the labels of the list, so that one with a right's bit set matches none (`Key`); resume,
suspend and send append the word, with the bits of the rights they took, even if nothing was found
(`Moved`); fork copies capabilities but not labels; a send compares labels before locking.

Assumed (`ConstantsAssumption`): lock addresses are distinct. Buffers are any sequences of words and
label lists any sequences of tags: nothing in the kernel checks the bits of the one or the count of
the other (`difc.c:901-931`), and the limit of a label list is tested with `==` (236), which a longer
list passes. What a list longer than its array does to the memory behind it is not modelled.
`CapMax` and `MaxEntries` bound allocation and list growth. `SelfSend` says whether a
program sends to itself, which takes one spinlock twice; the runs set it to FALSE.
Not modelled: task exit, cloning a thread during a group allocation, overflow of label
numbers after 2^29 allocations, sleeping allocation under a spinlock.

### Authority

What the capability machinery promises, without lists, segments, buffers or locks: each task has a
set of *active* rights, a set of *parked* ones (suspended, or received and not yet resumed) and
rights *promised* by a group allocation still under way. Rights arise with a fresh tag; after that
they only move, and a label changes only by rights that are active at that moment. The one other
source is the constant `Claims`, the rights whose bits words of buffers carry: a suspend, resume
or send may bring them in. With bare words `Claims` is empty. `DifcTasks` ends with the mapping:
`active` and `parked` are the rights that occur on the two lists, `promised` what a group
allocation has still to hand out. A walk of a buffer is one abstract step per entry; an entry that
fails is a stutter, or a claim. Dropping may lose rights, so `Drop` and `Send` allow it, and
`NoRightLost` is a property of its own.

### LabelSem

`sem` is the i386 semaphore: a count with `RWSEM_WAITING_BIAS` and the FIFO wait list, with
`__rwsem_do_wake` granting a front writer or the front readers. Each task runs one file
operation at a time; its `pc` stops between check, transfer, second inode (sendfile) and
release. `Paths` selects the code paths that programs exercise, since three of them keep
the semaphore: readdir, sendfile at the maximum position, and a failing `aio_setup_iocb`.
A FIFO write of a full pipe drops the data (`difc_pipe_full` compares array addresses and
is always true). `CheckRelabel` reads the labels of parent directories without their
semaphores, as the code does. `check_label_replace` asks for root where the TCB tag is set, and stops
at it: labels are sets here, so which tags of the list come before it is a choice (`Listed`).
`leaked` counts the holds that were never given back. Not modelled: asynchronous completion of aio after the
release, mmap, labelled create and mkdir, xattrs. exec copies the label and gives the
semaphore back; what the copy is used for is in `DifcTasks`.

Assumed (`LabelSemAssumption`): an inode is of one kind, and there are fewer than
`PID_MAX_DEFAULT` = 2^15 tasks. Nothing bounds the leaks: readdir leaks a hold on every call. The count
is an integer in the model and equals the 32-bit word as long as leaks and tasks stay below the mask of
the active half-word, which `FewLeaks` says; after some 2^16 leaks of one inode the half-word wraps
around and the semaphore takes its readers for none (a hazard that no property covers). The theorems
say what holds up to there. `MaxLeaks` bounds the leaks of a run.

### SecureRegion

The dynamic-barrier build on one virtual processor (one kernel task). A stack of region states per
thread, the flag `inSecureRegion`, the common capabilities, a heap of objects with labels and the
labels they were asked for, and the kernel task. History variables: `granted` (rights conveyed to
a thread that it has not dropped), `ever` (rights ever conveyed), `missed` (rights that a drop
named and did not take from the thread's own state), `dirt` (secrecy of the data in an object) and
`escaped` (tags let go by a refused nested start, which continues with empty labels, or by
`changeObjectLabel`). A region *holds* the secrecy of its label, of what it has read and of what
the enclosing region held; a write adds all of it to the object. Locals carry nothing out of a
region. `endSecureRegion` ignores the result of `sysPassLabels`; `dropThreadCapability` and
`createCapability` reach only the parent of a nested region. Such a drop shrinks `granted`, as its
comment says it drops the capability of the thread, and puts the rights the thread keeps into
`missed`. Not modelled: static fields (the code enforces nothing), the statically compiled
barriers, labelled files.

### LabelSets

One step is one loop iteration of `isSubsetOfSlowPath`, `unionSlowPath`, `union(LabelSet,
long)`, `minusSlowPath` and `checkInUnionSlowPath`; a call takes the short-circuit checks.
Object identity is a Boolean parameter of the call (`same`), possible only for equal sets.
`SecureRegion` takes label sets as mathematical sets; the theorems here justify that.

### JvmFiles

Composes security regions, `OSpassCurrentLabels`, `FileSystem`, the I/O queue and the kernel's
check. A call is *pass* (hand the region's label to the kernel), then *sys* (one nonblocking
read or write per step) and *wait* (on the queue); any other thread may run in between. An
attempt fails, moves some bytes, or would block; a read that has bytes returns them, others
wait. `dequeue` is `getRunnableThread` looking at the I/O queue: `isReady` asks `select` only if no
finished thread is left from an earlier look, so readiness may be stale when a thread runs. A
failed `select` changes nothing and is a stutter. A woken read takes the time since its last
wait off its limit (`ResumeReady`).

A label is its secrecy set (integrity is checked in the same way, pointwise), the common
capabilities are empty, and `sysPassLabels` is atomic, as the kernel's replace is for a task that
nobody else relabels. Descriptors are in nonblocking mode: standard input and output, which the
VM leaves blocking, are not covered. One clock is assumed, where the code compares `nanoTime` on the
queue and `currentTimeMillis` in `readBytes`. Time is kept per call and saturates one tick after the
longest limit. Left out: `Thread.stop` of a waiting thread, and `sync` and `bytesAvailable`, which do
not wait. History variables: `passer` (who last set the label), `refused` (the kernel refused the
thread's last attempt) and the age of a call.

### BarrierElim

A method is a graph of blocks of gets, puts, allocations and moves. The early analysis
(`computeRedundantReadBarriers`) looks at the accesses, then `Expand` inserts barriers and inlines
those of hot blocks; the late one (`computeRedundantBarriers`) looks at the barriers that are still
calls. Each analysis has a pass for reads and one for writes, each pass rounds over the blocks in
code order, one step per block, until nothing changes. Then the method runs on any
arguments, and `ok` records which objects passed which kind of barrier. A move of a constant
yields null or any object. An access or an allocation may throw before it has any effect: control then
leaves the block in the middle, for one of its handlers. Both analyses join over `getIn()`, which has
these exceptional edges too, and take for a handler the set at the *end* of the block that threw.
`over` records the registers about which the analysis may be wrong: those overwritten by a move or an
allocation, and those it may have found checked in the part of a block that an exception skipped.

Assumed (`BarrierElimAssumption`): a method starts in a block that no branch or exception goes to,
the prologue of `GenerationContext` (blocks are merged only over a single in-edge); allocations
and moves define a register. The first is needed: the analysis gives a block without predecessors
the empty set, but an entry that is also the head of a loop would be judged by its back edge
alone.

In the executions considered the thread's labels do not change within the method, so that a
barrier passed once would pass again; the analysis itself does not look for calls that start or end
a region. Also left out: the phases between the two analyses, and code inlined from library methods,
whose accesses the analysis counts although `addBarriers` gives them no barrier.

## 3. Runs

| Run | Instance | Shows |
|---|---|---|
| `DifcTasks` | a root thread and one it clones, 1 label, segments of 1, bare words and a word that carries a right, label lists of 1, TCB files | `TypeOK`, `OnlyWordsForge`, `WalkHoldsLocks`, `NoSpinDeadlock`, `NoRightLost`, `LabelChangesBacked`, `ImplementsAuthority` |
| `DifcForge` (violation) | 1 task, words that carry rights | `NoForgery` fails |
| `DifcDrop` (violation) | 1 task | `DropTakesEffect` fails |
| `LabelSemPaths` | 2 tasks; directory, file, socket, FIFO; all paths, one leak per inode | `TypeOK`, `FlowAllowed` |
| `LabelSemLive` | 3 tasks, one of them root, file and socket, the TCB tag, the paths that give back their holds | `QuiescentFree`, `FlowAllowed`, `CallsReturn` |
| `LabelSemReaddir` (violation) | 2 tasks, 1 directory | `RelabelReturns` fails |
| `SecureRegionHeap` | 1 thread, 2 objects, 2 nested regions, 1 tag | `TypeOK`, `FlagMeansRegion`, `Grounded`, `Contained` |
| `SecureRegionThreads` | 2 threads, 2 objects, 1 tag | `Grounded`, `Contained`, `NoLeftoverLabel` |
| `SecureRegionRelabel` (violation) | 1 thread, 2 objects | `RelabelLabelsCopy` fails |
| `LabelSets` | all sets over 4 labels, all operations | `TypeOK`, `UnionCorrect`, `MinusCorrect`, `ChecksCorrect`, `NewNonempty`, `LoopsEnd` |
| `JvmFiles` | 2 threads, 1 stream of 1 byte behind a secret file, 1 tag, limit of 1 tick, up to 2 nested regions | `TypeOK`, `OnlyOthersInterfere`, `TimeoutsAreHonest`, `TimedReadsReturn` |
| `BarrierElim` | 9000 methods of 3 blocks and 4 instructions over 2 registers, with a branch, a loop or a handler, all choices of cold blocks | `TypeOK`, `RemovedWasChecked`, `SetsOnlyGrow`, `AnalysisEnds` |

Bounds. Two tasks suffice for every pair of lock holders and for a send in each direction;
segments of one entry make every append cross a segment boundary; a buffer whose first word
carries a right and matches nothing, while the second does, reaches the partial failures and the
entries that shadow later ones. Two entries in all let a capability be suspended or sent and
resumed. Two tasks and four inode kinds give every pairing of a relabel with a path; three tasks
are needed for reader, queued writer and reader behind it. Two nested regions are the least in
which parent and thread differ, and two objects let data move, also from one thread to another.
Four labels let each of two sets have elements before, between, equal to and after the other's.
One tag per run is enough where tags do not interact: each check treats tags pointwise. In
`JvmFiles` a stream of one byte makes a read of two bytes partial and lets the other thread take
what a woken one was promised; a limit of one tick lets a read be woken in vain, wait again with
less time left, and run out. The thread without a limit may nest a second region, or have a start
refused inside or outside one. In `BarrierElim` three blocks give a merge of two paths and a loop
whose body is reached before and after its own effect, or a handler entered from the middle and
from the end of the block before it; three objects are one per register and one to allocate.
`MaxLeaks` stops calls on leaking paths, which would otherwise raise the count for ever: one
leaked hold is enough to make the count differ from the holds of calls.

Deadlock checking is off where the bounds let every task run out of moves, and in `LabelSemPaths`
and `LabelSemReaddir` because leaked holds really stop the system; in `BarrierElim` a method ends.
It is on in `LabelSemLive`, `LabelSets` and `JvmFiles`. Symmetry is used only in runs without
liveness, over tasks with equal capabilities, or over threads and objects, which start alike.

Fairness. `LabelSem` assumes weak fairness of each task's next step within a call: the kernel
schedules runnable tasks, and a task waiting for a semaphore has no step until it is woken. The
transfer of a sendfile is exempt (`Sending`): it blocks for as long as the peer of its socket does
not read (`read_write.c:783`), with both semaphores held. `CallsReturn` is therefore conditional:
if sendfiles come back from their socket again and again, every call returns. It does not assume
that a task starts calls, nor any fairness of the semaphore: FIFO hand-over is modelled.
`LabelSets` assumes that a thread in a loop goes on, `BarrierElim` that the compiler does.
`JvmFiles` assumes that runnable threads run (the ready queue is round robin, switched by timer
ticks), that the processor looks at the I/O queue (`getRunnableThread` does so on every tick when
it is its turn, "to avoid starvation of threads in io wait") and that time passes; it assumes
nothing of the peer, nor that any particular thread is dequeued.

Where a run leaves something out on purpose: `QuiescentFree` and `CallsReturn` cannot hold with
the three leaking paths; `LabelSemLive` therefore does without them, and without FIFOs, since a
reader of an empty FIFO sleeps with the semaphore held (`fs/pipe.c:321`) while the writer waits
behind a queued relabel. `Grounded` excepts the rights in `missed`: `dropThreadCapability` called
in a nested region takes them from the region and its parent and not from the thread, against its
comment (`DIFC.java:365-366`). `Contained` excepts tags in `escaped` and tags somebody may remove;
`NoLeftoverLabel` excepts labels the kernel task cannot remove. `OnlyOthersInterfere` does not
claim that bytes move under the caller's label: all green threads share a kernel task, and another
thread may pass its own between any two steps (the authors say so at `DIFC.java:264`). It says
that nothing else is wrong: nested regions, refused starts, ends and a label left from an earlier
call never are the cause. `RemovedWasChecked` excepts the registers in `over`, about which the
code is wrong (see section 5); it says that it is right about all others, in loops, merges and
handlers.

## 4. Proofs

TLAPS checks these for every value of the constants that satisfies the assumptions.

`DifcTasksProofs`: `TypeCorrect`, `OnlyWordsForgeHolds`, `BareWordsForgeNothing` (`NoForgery` if programs
pass label numbers only), `WalkHoldsLocksHolds`, `NoSpinDeadlockHolds` (if no task sends to itself) and
`LabelChangesBackedHolds`, for any buffers of words. The inductive invariant is

    IInv == TypeOK /\ CallsOK /\ LocksOK /\ OnlyWordsForge /\ PendingBacked /\ FreshUngranted

`OnlyWordsForge` alone is not inductive. A group allocation in progress conveys a label later:
`PendingBacked` says that its rights are already recorded for the tasks still to be served, and
`FreshUngranted` that a label not yet allocated is granted to nobody. `CallsOK` ties a call's
stage to its operation, destination and position in the buffer. `LocksOK` says that a lock is
owned exactly by the call that took it, from which `WalkHoldsLocks` follows. The list lemmas
(`ShiftDownFacts`, `AppendCapFacts`, `TakenFacts`, `AfterTakeFacts`) say what an edit keeps. For
`NoSpinDeadlock`, take in a set of spinning tasks the one that waits for the lock of greatest
address: its owner, if it spins, holds its first lock and waits for one at a greater address. For
`LabelChangesBacked`, a lookup returns only rights on the active list, which `OnlyWordsForge` bounds
by what was granted or claimed.

`NoRightLostHolds` needs one more conjunct, `UnbornEmpty`: the lists of a task that does not exist
yet are empty, so that the copy a fork makes overwrites nothing. The rest is the list lemmas in the
other direction: an append keeps every right (`AppendCarries`), a walk takes a right off a list only
together with everything it moves (`TakeCarries`), and what it took it appends elsewhere unless the
call is a permanent drop.

`AuthorityProofs`: `AuthorityImplemented`, that `DifcTasks` implements `Authority`. Its lemmas say
for each edit of a list (append, shift down, clear bits) which rights the list has afterwards; the
inductive invariant of `DifcTasksProofs` supplies types, stages and the freshness of unallocated
labels.

`JvmFilesProofs`: `TypeCorrect`, `InterferenceOnly` and `TimeoutsHonest`, for any threads,
regions, streams and limits. `TypeOK` is the assertion of `readBytes` that a time limit never goes below
zero, where it would mean no limit. Time: `TimeOK` says of each call that its age is at least what it has
used of its limit plus what has passed since its last wait, that a wait is no older than that, and
that a timed call that waits has no byte; `TInv` adds that a thread found out of time still is,
and that the queue holds waiting threads, each once. Labels: `LabelOK` says that a thread the
kernel has not refused is responsible for a nonempty label only while an entry of its stack is
marked to restore it, and that past `OSpassCurrentLabels` the label is its own unless somebody
else has set it since; `StackOK` says that nothing is marked outside regions. Neither property is
inductive without these: a call outside a region passes nothing and relies on the regions before
it having restored the label.

`LabelSetsProofs`: `LabelSetsTypeCorrect`, `UnionIsCorrect`, `MinusIsCorrect`,
`ChecksAreCorrect` and `EmptyIsUnique`, for label sets of every length over any integers. Each
loop has an invariant relating operands, cursors and output (`UnionOK`, `MinusOK`, `SubsetOK`,
`InUnionOK`); the conjuncts of `UnionOK` on lengths say that an operand as long as the result
includes the other, which is what its reuse needs. `CallOK` ties the loop's operands to the
call, in particular where `checkInUnion` becomes `isSubsetOf`.

`LabelSemProofs`: `TypeCorrect`; `NoRelabelUnderAccess` (`FlowAllowed`) and `RelabelExcludes` in every
state in which `FewLeaks` holds, that is for any number of leaks until the half-word of active holds is
full; and, if `Paths` has none of the three leaking paths, `LeakFreeNoRelabel` (`FlowAllowed` without a
condition) and `LeakFreeQuiescence` (`QuiescentFree`); all for any tasks and inodes. The inductive
invariant is

    IInv == /\ TypeOK /\ CallShape /\ QueuesProper /\ LedgersBalanced /\ FlowAllowed
            /\ NoneLeaked

`FlowAllowed` is not inductive: that a relabel commits while nobody holds the inode is known only to
the count. `LedgersBalanced` is the ledger that ties the two: the count, freed of the biases of the
queue and of the writer, is the number of read holds of the calls plus what was leaked, or 1 for a
writer, and it stays within the half-word while `FewLeaks` holds. Leaks never decrease, so a state with
few leaks has only such states before it. `QueuesProper` says that a wait list holds
each waiting call once and in its mode, so that `__rwsem_do_wake` grants to the right calls, and
`CallShape` at which inode a call is at each stage (sendfile is at two). What `__rwsem_do_wake` does
to a ledger is one lemma (`WakeBalanced`), used by the slow path of the downs and by both ups.

`SecureRegionProofs`: `TypeCorrect`, `FlagMeansRegionHolds`, `GroundedHolds`, `ContainedHolds` and
`NoLeftoverLabelHolds`, for any threads, objects, tags and nesting. The inductive invariant is

    IInv == TypeOK /\ RegionsSound /\ KernelSound /\ HeapSound

Each property needs a fact about another part of the state. `Grounded` speaks of what a thread has
not dropped, or dropped in vain (`Owned`), and needs that this was once conveyed
(`DropsRecorded`). `Contained` needs that each entry of a stack holds only secrets of its own
label, or that were let go (`EntriesSound`), that threads outside regions have no secrecy label
(`OutsideUnlabeled`: there the barriers do not ask for it) and that ordinary objects have none
either (`OrdinaryObjects`). `NoLeftoverLabel` needs that the kernel task has only allocated tags
(`KernelTags`): otherwise `createCapability` could give it the right to remove a label it already
has, and so end the exception for that label.

`BarrierElimProofs`: `TypeCorrect`, `RemovedWasCheckedHolds` and `SetsOnlyGrowHolds`, for any set
of methods, any graphs with any exceptional edges and any choice of cold blocks; and
`AssignedOnceAlwaysChecked`, that there is no exception to make for methods that assign a moved or
allocated register once and catch nothing (`over` stays empty). A *marking* gives each program
point a set of registers; it is *sound* for a pass when no set claims more than the points before
it give (`Sound`). The argument has two halves. `Compiled`: the sets of the current pass extend to
a sound marking at every time, not only when the rounds have ended (`PassSound`), so that an
instruction recorded in any round is found redundant by some sound marking (`RedJustified`,
`BarriersJustified`). `Executed`: in the execution every sound marking of every pass holds: a
marked register was overwritten, or its object passed the barrier (`MarksHold`). An allocation or
move into a known register is what makes it overwritten, and in a loop its own effect comes back
to it, hence `KnownOverwritten`. An exception leaves a block early, and what is marked at the
block's end and was not gained in the skipped part was marked where it was thrown
(`KnownBeforeSkipped`). Since `Executed` quantifies over all markings it needs no fact about how
the analysis arrived at its own. `SetsOnlyGrow` follows from `PassSound`: the transfer function is
monotone, so recomputing a block gives at least what a sound marking claims. What the recursive
function `Before` yields is shown at the least point that would differ (`Iteration`), without the
library's induction rules. The invariant quantifies over all markings, which TLC cannot enumerate;
the run checks its consequences.

Every invariant and action property of a passing run is thus a theorem. Only model-checked:
liveness (`CallsReturn`, `LoopsEnd`, `TimedReadsReturn`, `AnalysisEnds`), which is outside the reach of
the prover, and the four violations. Not proved and only assumed by the models: the bounds named in
section 2.

## 5. Findings

1. `difc_drop_capabilities` does not store a partly dropped capability back (`difc.c:1021`): a
   drop of `+` from a `+-` capability returns 0 and changes nothing (`DifcDrop`).
2. Resume, suspend and send append the program's word even if they find nothing and report -ENOENT:
   a word that carries the bits of rights becomes a capability (`difc.c:1167`, 1074, 1281; `DifcForge`).
3. `vfs_readdir` keeps the directory's label semaphore; a later relabel never returns
   (`LabelSemReaddir`). The same leak is on two error paths of sendfile and aio.
4. `changeObjectLabel` by cloning yields an unlabeled copy (`SecureRegionRelabel`).

Observations made while modelling, each part of a model:

- `difc_send_capabilities` compares labels before it locks, and the locks do not protect labels: the
  receiver's label may have changed when the capabilities arrive.
- After a start refused outside a region `endSecureRegion` returns at its flag test and the dummy entry
  stays on the stack, under the regions that follow.
- Both barrier analyses keep a fact about a register when a move of an unchecked value overwrites it
  (`RemoveRedundantDIFCBarriers.java:204`), and the early one takes an allocation into a checked register for
  redundant (`ExpandRuntimeServices.java:901`). Both are harmless as long as no register that is assigned
  twice holds different objects between a check and a use.
- Both analyses give a handler the set at the end of the block that threw
  (`RemoveRedundantDIFCBarriers.java:138`, `ExpandRuntimeServices.java:869`), as if the block had been executed to its
  end: in the handler a barrier may be removed that the execution never passed. With `Throw` leaving
  `over` alone the run refutes `RemovedWasChecked` at once.
- `dropThreadCapability` in a nested region leaves the capability with the thread, against its comment
  (`DIFC.java:365-366`; the code has a TODO).
- A sendfile that blocks in its socket holds up a relabel of either file, and all calls behind it.
- A read or write that fails after a partial transfer reports the error and not the bytes moved
  (`FileSystem.java:371`).

## 6. What is not modelled

Label storage in extended attributes (`pack_difc_inode_xattr` and its callers) is a set of
functions on one buffer; nothing in this repository reads a label back from disk into an inode, so
no behaviour of the system depends on it. Static-field barriers
enforce nothing in the code. Garbage collection of the labeled space, the rest of Linux (about
18000 files) and the rest of Jikes RVM are third-party code that Laminar is built into; of these
only what Laminar's own code relies on is modelled (the reader-writer semaphore, the VFS paths
with its hooks, the green-thread I/O queue). The Airavat methods are stubs. User-space helpers,
formatting and statistics have no state that a property depends on.

Each module's section above names what it leaves out. Several virtual processors, each with its own
kernel task, would make `JvmFiles` independent copies joined by thread migration, which passes no labels.

## 7. Plan

Done, in the order of importance: `DifcTasks`, `LabelSem`, `SecureRegion`, `LabelSets`, `Authority`,
`JvmFiles` and `BarrierElim`, each with the proofs of all its safety properties. Next:

1. An abstract specification of labelled files, in which check and transfer are one step and a relabel
   another, and the proof that `LabelSem` implements it; exclusion and the ledger of `LabelSemProofs`
   are what the refinement needs.
2. Task exit in `DifcTasks` (a receiver that is freed while a send is under way).
