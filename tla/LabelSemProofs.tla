--------------------------- MODULE LabelSemProofs ---------------------------
(* Theorems about LabelSem, for every number of tasks and inodes: labels do  *)
(* not change under an allowed access while the leaked holds fit into the    *)
(* semaphore's half-word, and leak-free paths free every hold.               *)
EXTENDS LabelSem, FiniteSetTheorems, SequenceTheorems, WellFoundedInduction, TLAPS

-----------------------------------------------------------------------------
(* Who holds a semaphore, and who waits for it.                            *)

Waiters(q) == {q[k].task : k \in DOMAIN q}

\* The task has the semaphore of i for reading: of the inode at which its call
\* is, or of sendfile's in_file while the call is at out_file.
HoldsRead(t, i) ==
    LET c == call[t] IN
    /\ c.path # "relabel"
    /\ \/ /\ c.at = i
          /\ \/ c.pc \in {"out", "io", "up_out"}
             \/ c.pc = "check" /\ t \notin Waiters(sem[i].wait_list)
             \/ c.pc = "up" /\ c.at = c.file
       \/ /\ c.file = i /\ c.at # c.file
          /\ c.pc \in {"down", "check", "io", "up_out", "up"}

HoldsWrite(t, i) ==
    LET c == call[t] IN
    /\ c.path = "relabel" /\ c.at = i
    /\ \/ c.pc \in {"commit", "up"}
       \/ c.pc = "check" /\ t \notin Waiters(sem[i].wait_list)

Readers(i) == {t \in Tasks : HoldsRead(t, i)}
Writers(i) == {t \in Tasks : HoldsWrite(t, i)}

-----------------------------------------------------------------------------
(* The inductive invariant.                                                *)

LeakFree == Paths \cap LeakPaths = {}

\* At which inode a call is at each of its stages.
Shape(c) ==
    /\ c.pc # "idle" => c.path \in Paths
    /\ c.path = "relabel" => c.pc \in {"down", "check", "commit", "up"}
    /\ c.pc = "commit" => c.path = "relabel"
    /\ Sendfile(c.path) => /\ c.file \in Files
                           /\ c.at = c.file \/ c.at \in Socks
                           /\ c.pc = "out" => c.at = c.file
                           /\ c.pc \in {"io", "up_out"} => c.at # c.file
    /\ ~Sendfile(c.path) => c.at = c.file /\ c.pc \notin {"out", "up_out"}

CallShape == \A t \in Tasks : Shape(call[t])

\* A queue has each task once, as a reader or a writer according to its path.
ProperQueue(q, readers) ==
    /\ \A k \in DOMAIN q : q[k].mode = "read" <=> q[k].task \in readers
    /\ \A k, l \in DOMAIN q : q[k].task = q[l].task => k = l

ReadCallers == {t \in Tasks : call[t].path # "relabel"}

QueuesProper ==
    \A i \in Inodes :
        /\ ProperQueue(sem[i].wait_list, ReadCallers)
        /\ \A t \in Waiters(sem[i].wait_list) : call[t].pc = "check" /\ call[t].at = i

\* The active holds that the count of a semaphore stands for, if W has it for
\* writing: what is left of it without the biases of the queue and of W.
ActiveHolds(s, W) == s.count + 65536 * (Len(s.wait_list) + Cardinality(W))

\* The ledger of a semaphore: R has it for reading and W for writing, and lk holds
\* were leaked.  A leaked hold keeps writers out for good.
Balanced(s, R, W, lk) ==
    /\ W # {} => R = {} /\ Cardinality(W) = 1 /\ ActiveHolds(s, W) = 1 /\ lk = 0
    /\ W = {} => ActiveHolds(s, W) = Cardinality(R) + lk

\* So many leaked holds, and one of each task, fit below the active half-word's mask.
Fits(lk) == lk \in Nat /\ lk + Cardinality(Tasks) < 65535

LedgersBalanced ==
    \A i \in Inodes : Balanced(sem[i], Readers(i), Writers(i), leaked[i])

\* Holds are leaked on the leaking paths only.
NoneLeaked == LeakFree => \A i \in Inodes : leaked[i] = 0

IInv == /\ TypeOK /\ CallShape /\ QueuesProper /\ LedgersBalanced /\ FlowAllowed
        /\ NoneLeaked

-----------------------------------------------------------------------------
(* Facts about the operators.                                              *)

\* A nonempty set of naturals has a least member.
LEMMA LeastMember ==
    ASSUME NEW S, S \subseteq Nat, S # {}
    PROVE  \E x \in S : \A y \in S : x <= y
<1>1. PICK x \in S : \A y \in S : ~(<<y, x>> \in OpToRel(<, Nat))
  BY NatLessThanWellFounded, WFMin, Zenon
<1>2. ASSUME NEW y \in S
      PROVE  x <= y
  <2>1. x \in Nat /\ y \in Nat
    OBVIOUS
  <2>2. ASSUME y < x PROVE <<y, x>> \in OpToRel(<, Nat)
    <3>1. <<y, x>> \in Nat \X Nat /\ <<y, x>>[1] < <<y, x>>[2]
      BY <2>1, <2>2
    <3> QED
      BY <3>1, Zenon DEF OpToRel
  <2>3. ~(y < x)
    BY <2>2, <1>1, Zenon
  <2> QED
    BY <2>1, <2>3
<1> QED
  BY <1>2

\* The division of a number by 2^16 has one remainder.
LEMMA OneRemainder ==
    ASSUME NEW d \in Int, NEW e \in Int, NEW m \in Nat, NEW n \in Nat,
           m < 65536, n < 65536, 65536 * d + m = 65536 * e + n
    PROVE  m = n
<1>1. ~(d > e)
  OBVIOUS
<1>2. ~(d < e)
  OBVIOUS
<1> QED
  BY <1>1, <1>2

\* RWSEM_ACTIVE_MASK gives the active holds, as long as they fit.
LEMMA ActiveMask ==
    ASSUME NEW k \in Int, NEW a \in Nat, a < 65536
    PROVE  Active(65536 * k + a) = a
<1> DEFINE c == 65536 * k + a
<1>1. c \in Int
  OBVIOUS
<1>2. Active(c) \in Nat /\ Active(c) < 65536 /\ \E d \in Int : c = 65536 * d + Active(c)
  <2>1. ASSUME NEW x \in Int
        PROVE  /\ x % 65536 \in Nat /\ x % 65536 < 65536 /\ x \div 65536 \in Int
               /\ x = 65536 * (x \div 65536) + (x % 65536)
    OBVIOUS
  <2> HIDE DEF c
  <2> QED
    BY <1>1, <2>1 DEF Active
<1> QED
  BY <1>2, OneRemainder

Waiter == [task : Tasks, mode : {"read", "write"}]

\* The readers at the front of a queue are a prefix of it, which ends at a
\* writer or with the queue.
LEMMA FrontPrefix ==
    ASSUME NEW q \in Seq(Waiter)
    PROVE  LET n == Cardinality(FrontReaders(q)) IN
           /\ n \in Nat /\ n <= Len(q)
           /\ \A k \in 1..n : q[k].mode = "read"
           /\ n < Len(q) => q[n + 1].mode # "read"
<1> DEFINE F == FrontReaders(q)
           late == {k \in 1..Len(q) : q[k].mode # "read"}
<1>0. Len(q) \in Nat /\ DOMAIN q = 1..Len(q)
  OBVIOUS
<1>1. CASE late = {}
  <2>1. F = 1..Len(q)
    BY <1>0, <1>1 DEF FrontReaders
  <2>2. Cardinality(F) = Len(q)
    BY <1>0, <2>1, FS_Interval
  <2> QED
    BY <1>0, <1>1, <2>2
<1>2. CASE late # {}
  <2>0. late \subseteq Nat
    OBVIOUS
  <2> HIDE DEF late
  <2>1. PICK m \in late : \A k \in late : m <= k
    BY <1>2, <2>0, LeastMember
  <2>2. m \in 1..Len(q) /\ q[m].mode # "read" /\ \A k \in 1..(m - 1) : q[k].mode = "read"
    BY <1>0, <2>1 DEF late
  <2>3. F = 1..(m - 1)
    BY <1>0, <2>2 DEF FrontReaders
  <2>4. Cardinality(F) = m - 1
    BY <1>0, <2>2, <2>3, FS_Interval
  <2> QED
    BY <1>0, <2>2, <2>4
<1> QED
  BY <1>1, <1>2

\* What is left of a proper queue when its first m waiters go.
LEMMA QueueSuffix ==
    ASSUME NEW q \in Seq(Waiter), NEW readers, ProperQueue(q, readers),
           NEW m \in Nat, m <= Len(q)
    PROVE  LET rest == SubSeq(q, m + 1, Len(q))
               gone == {q[k].task : k \in 1..m}
           IN  /\ rest \in Seq(Waiter) /\ Len(rest) = Len(q) - m
               /\ ProperQueue(rest, readers)
               /\ Waiters(rest) \subseteq Waiters(q)
               /\ Waiters(q) \ Waiters(rest) = gone
               /\ gone \subseteq Tasks /\ IsFiniteSet(gone) /\ Cardinality(gone) = m
<1> DEFINE rest == SubSeq(q, m + 1, Len(q))
           gone == {q[k].task : k \in 1..m}
<1>0. /\ Len(q) \in Nat /\ DOMAIN q = 1..Len(q)
      /\ \A k \in 1..Len(q) : q[k] \in Waiter
  OBVIOUS
<1>1. /\ rest \in Seq(Waiter) /\ Len(rest) = Len(q) - m
      /\ \A k \in 1..(Len(q) - m) : rest[k] = q[m + k]
  <2>1. \A k \in (m + 1)..Len(q) : q[k] \in Waiter
    BY <1>0
  <2>2. /\ rest \in Seq(Waiter)
        /\ Len(rest) = IF m + 1 <= Len(q) THEN Len(q) - (m + 1) + 1 ELSE 0
        /\ \A k \in 1..(Len(q) - (m + 1) + 1) : rest[k] = q[(m + 1) + k - 1]
    BY <1>0, <2>1, SubSeqProperties
  <2> HIDE DEF rest
  <2>3. Len(rest) = Len(q) - m
    <3>1. CASE m + 1 <= Len(q)
      BY <1>0, <2>2, <3>1
    <3>2. CASE m = Len(q)
      BY <1>0, <2>2, <3>2
    <3>3. Len(q) \in Nat
      OBVIOUS
    <3>4. m + 1 <= Len(q) \/ m = Len(q)
      BY <3>3
    <3> QED
      BY <3>1, <3>2, <3>4
  <2>4. ASSUME NEW k \in 1..(Len(q) - m) PROVE rest[k] = q[m + k]
    <3>1. k \in 1..(Len(q) - (m + 1) + 1) /\ (m + 1) + k - 1 = m + k
      BY <1>0
    <3> QED
      BY <2>2, <3>1
  <2> QED
    BY <2>2, <2>3, <2>4
<1> HIDE DEF rest
<1>2. DOMAIN rest = 1..(Len(q) - m)
  BY <1>1
<1>3. ProperQueue(rest, readers)
  <2>1. ASSUME NEW k \in DOMAIN rest
        PROVE  m + k \in DOMAIN q /\ rest[k] = q[m + k]
    BY <1>0, <1>1, <1>2
  <2>2. ASSUME NEW k \in DOMAIN rest, NEW l \in DOMAIN rest, rest[k].task = rest[l].task
        PROVE  k = l
    <3>1. m + k = m + l
      BY <2>1, <2>2 DEF ProperQueue
    <3> QED
      BY <3>1, <1>0, <1>2
  <2> QED
    BY <2>1, <2>2 DEF ProperQueue
<1>4. Waiters(rest) = {q[k].task : k \in (m + 1)..Len(q)}
  <2>1. ASSUME NEW k \in (m + 1)..Len(q)
        PROVE  q[k].task \in Waiters(rest)
    <3>1. k - m \in DOMAIN rest /\ rest[k - m] = q[k]
      BY <1>0, <1>1, <1>2
    <3> QED
      BY <3>1 DEF Waiters
  <2>2. ASSUME NEW k \in DOMAIN rest
        PROVE  rest[k].task \in {q[j].task : j \in (m + 1)..Len(q)}
    <3>1. m + k \in (m + 1)..Len(q) /\ rest[k] = q[m + k]
      BY <1>0, <1>1, <1>2
    <3> QED
      BY <3>1
  <2> QED
    BY <2>1, <2>2 DEF Waiters
<1>5. Waiters(q) = gone \cup Waiters(rest)
  <2>1. DOMAIN q = (1..m) \cup ((m + 1)..Len(q))
    BY <1>0
  <2> QED
    BY <2>1, <1>4 DEF Waiters
<1>6. gone \cap Waiters(rest) = {}
  <2> SUFFICES ASSUME NEW k \in 1..m, NEW l \in (m + 1)..Len(q), q[k].task = q[l].task
               PROVE  FALSE
    BY <1>4
  <2>1. k \in DOMAIN q /\ l \in DOMAIN q /\ k # l
    BY <1>0
  <2> QED
    BY <2>1 DEF ProperQueue
<1>7. gone \subseteq Tasks
  <2> SUFFICES ASSUME NEW k \in 1..m PROVE q[k].task \in Tasks
    OBVIOUS
  <2>1. q[k] \in Waiter
    BY <1>0
  <2> QED
    BY <2>1 DEF Waiter
<1>8. IsFiniteSet(gone) /\ Cardinality(gone) = m
  <2> DEFINE f == [k \in 1..m |-> q[k].task]
  <2>1. IsFiniteSet(1..m) /\ Cardinality(1..m) = m
    BY FS_Interval
  <2>2. f \in Surjection(1..m, gone)
    BY DEF Surjection
  <2>3. f \in Injection(1..m, gone)
    <3>1. \A k, l \in 1..m : k \in DOMAIN q /\ l \in DOMAIN q
      BY <1>0
    <3>2. \A k, l \in 1..m : f[k] = f[l] => k = l
      BY <3>1 DEF ProperQueue
    <3> QED
      BY <2>2, <3>2 DEF Injection, Surjection, IsInjective
  <2> QED
    BY <2>1, <2>2, <2>3, FS_Surjection
<1> QED
  BY <1>1, <1>3, <1>5, <1>6, <1>7, <1>8 DEF rest

-----------------------------------------------------------------------------
(* The ledger of one semaphore.                                            *)

\* What the ledgers are made of.
LEMMA LedgerTypes ==
    ASSUME NEW S \in SUBSET Tasks
    PROVE  /\ IsFiniteSet(S) /\ Cardinality(S) \in Nat
           /\ Cardinality(S) <= Cardinality(Tasks) /\ Cardinality(Tasks) \in Nat
  BY LabelSemAssumption, FS_Subset, FS_CardinalityType

\* The active holds fit into their half-word while few holds are leaked.
LEMMA HoldsBound ==
    ASSUME NEW s, NEW R \in SUBSET Tasks, NEW W \in SUBSET Tasks,
           NEW lk, Fits(lk), Balanced(s, R, W, lk)
    PROVE  ActiveHolds(s, W) \in Nat /\ ActiveHolds(s, W) < 65535
<1>1. /\ Cardinality(R) \in Nat /\ Cardinality(R) <= Cardinality(Tasks)
      /\ Cardinality(Tasks) \in Nat
  BY LedgerTypes
<1> QED
  BY <1>1 DEF Balanced, Fits

\* A granted semaphore: what __rwsem_do_wake takes from the queue it enters in
\* the ledger.
LEMMA WakeBalanced ==
    ASSUME NEW s \in Semaphore, NEW readers,
           NEW R \in SUBSET Tasks, NEW W \in SUBSET Tasks, NEW lk, Fits(lk),
           ProperQueue(s.wait_list, readers),
           Balanced(s, R, W, lk)
    PROVE  LET r == __rwsem_do_wake(s)
               granted == Waiters(s.wait_list) \ Waiters(r.wait_list)
           IN  /\ r \in Semaphore
               /\ ProperQueue(r.wait_list, readers)
               /\ Waiters(r.wait_list) \subseteq Waiters(s.wait_list)
               /\ Balanced(r, R \cup (granted \cap readers), W \cup (granted \ readers), lk)
<1> DEFINE q == s.wait_list
           r == __rwsem_do_wake(s)
           granted == Waiters(q) \ Waiters(r.wait_list)
           n == Cardinality(FrontReaders(q))
           a == ActiveHolds(s, W)
<1> SUFFICES /\ r \in Semaphore /\ ProperQueue(r.wait_list, readers)
             /\ Waiters(r.wait_list) \subseteq Waiters(q)
             /\ Balanced(r, R \cup (granted \cap readers), W \cup (granted \ readers), lk)
  OBVIOUS
<1>0. /\ q \in Seq(Waiter) /\ Len(q) \in Nat /\ s.count \in Int /\ DOMAIN q = 1..Len(q)
      /\ s = [count |-> s.count, wait_list |-> q]
  BY DEF Semaphore, Waiter
<1>1. /\ IsFiniteSet(Tasks) /\ IsFiniteSet(R) /\ IsFiniteSet(W)
      /\ Cardinality(Tasks) \in Nat /\ Cardinality(R) \in Nat /\ Cardinality(W) \in Nat
  BY LabelSemAssumption, FS_Subset, FS_CardinalityType
<1>2. n \in Nat /\ n <= Len(q) /\ (\A k \in 1..n : q[k].mode = "read")
      /\ (n < Len(q) => q[n + 1].mode # "read")
  BY <1>0, FrontPrefix
<1>3. a \in Nat /\ a < 65536 /\ a = s.count + 65536 * (Len(q) + Cardinality(W))
  <2>1. a \in Nat /\ a < 65535
    BY HoldsBound
  <2> QED
    BY <2>1 DEF ActiveHolds
<1>4. Active(s.count) = a
  <2>1. s.count = 65536 * (0 - (Len(q) + Cardinality(W))) + a
    BY <1>0, <1>1, <1>3
  <2>2. 0 - (Len(q) + Cardinality(W)) \in Int
    BY <1>0, <1>1
  <2> QED
    BY <2>1, <2>2, <1>3, ActiveMask
<1>5. CASE q = <<>> \/ a # 0
  <2>1. r = s
    BY <1>4, <1>5 DEF __rwsem_do_wake
  <2>2. granted = {}
    BY <2>1
  <2> QED
    BY <2>1, <2>2
<1>6. CASE q # <<>> /\ a = 0
  <2>1. W = {} /\ Cardinality(W) = 0
    BY <1>1, <1>6, FS_EmptySet DEF Balanced
  <2>2. R = {} /\ lk = 0
    <3>1. a = Cardinality(R) + lk
      BY <2>1 DEF Balanced
    <3>2. Cardinality(R) = 0 /\ lk = 0
      BY <1>1, <1>6, <3>1 DEF Fits
    <3> QED
      BY <1>1, <3>2, FS_EmptySet
  <2>3. s.count = 0 - 65536 * Len(q) /\ Len(q) >= 1
    <3>1. Len(q) # 0
      BY <1>0, <1>6, EmptySeq
    <3>2. 0 = s.count + 65536 * (Len(q) + 0)
      BY <1>3, <1>6, <2>1, SMT
    <3> HIDE DEF q
    <3> QED
      BY <1>0, <3>1, <3>2, SMT
  <2>4. r = IF n = 0 THEN [count |-> s.count + 1, wait_list |-> Tail(q)]
            ELSE [count |-> s.count + n * (1 - RWSEM_WAITING_BIAS),
                  wait_list |-> SubSeq(q, n + 1, Len(q))]
    BY <1>4, <1>6 DEF __rwsem_do_wake
  <2> DEFINE m == IF n = 0 THEN 1 ELSE n
             gone == {q[k].task : k \in 1..m}
             rest == SubSeq(q, m + 1, Len(q))
  <2>5. m \in Nat /\ m >= 1 /\ m <= Len(q)
    BY <1>2, <2>3
  <2>6. /\ rest \in Seq(Waiter) /\ Len(rest) = Len(q) - m
        /\ ProperQueue(rest, readers) /\ Waiters(rest) \subseteq Waiters(q)
        /\ Waiters(q) \ Waiters(rest) = gone
        /\ gone \subseteq Tasks /\ IsFiniteSet(gone) /\ Cardinality(gone) = m
    BY <1>0, <2>5, QueueSuffix
  <2>8. gone # {}
    <3>1. 1 \in 1..m
      BY <2>5
    <3> QED
      BY <3>1
  <2> HIDE DEF m, gone, rest, n
  <2>9. CASE n = 0
    <3>1. m = 1 /\ Tail(q) = rest
      <4>1. m = 1
        BY <2>9 DEF m
      <4>2. Tail(q) = SubSeq(q, 2, Len(q))
        BY <1>0, <1>6, TailIsSubSeq
      <4> QED
        BY <4>1, <4>2 DEF rest
    <3>2. r.count = s.count + 1 /\ r.wait_list = rest /\ r \in Semaphore
      BY <1>0, <2>4, <2>6, <2>9, <3>1 DEF Semaphore, Waiter
    <3>3. q[1].mode # "read" /\ gone = {q[1].task}
      BY <1>2, <2>3, <2>9, <3>1 DEF gone
    <3>4. gone \cap readers = {} /\ gone \ readers = gone
      <4>1. 1 \in DOMAIN q
        BY <1>0, <2>3
      <4> QED
        BY <3>3, <4>1 DEF ProperQueue
    <3>5. ActiveHolds(r, gone) = 1
      BY <1>0, <2>3, <2>6, <3>1, <3>2 DEF ActiveHolds
    <3>6. Balanced(r, {}, gone, lk)
      BY <2>2, <2>6, <2>8, <3>1, <3>5 DEF Balanced
    <3> QED
      BY <2>1, <2>2, <2>6, <3>2, <3>4, <3>6
  <2>10. CASE n # 0
    <3>1. m = n
      BY <2>10 DEF m
    <3>2. r.count = s.count + 65537 * n /\ r.wait_list = rest /\ r \in Semaphore
      BY <1>0, <1>2, <2>4, <2>6, <2>10, <3>1 DEF Semaphore, Waiter, RWSEM_WAITING_BIAS, rest
    <3>3. gone \subseteq readers
      <4> SUFFICES ASSUME NEW k \in 1..m PROVE q[k].task \in readers
        BY DEF gone
      <4>1. k \in DOMAIN q /\ q[k].mode = "read"
        BY <1>0, <1>2, <2>5, <3>1
      <4> QED
        BY <4>1 DEF ProperQueue
    <3>4. ActiveHolds(r, {}) = n
      <4>1. Cardinality({}) = 0
        BY FS_EmptySet
      <4> QED
        BY <1>0, <1>2, <2>3, <2>6, <3>1, <3>2, <4>1 DEF ActiveHolds
    <3>6. Balanced(r, gone, {}, lk)
      BY <1>2, <2>2, <2>6, <3>1, <3>4 DEF Balanced
    <3>7. gone \cap readers = gone /\ gone \ readers = {}
      BY <3>3
    <3>8. granted = gone
      BY <2>6, <3>2
    <3>9. R \cup (granted \cap readers) = gone /\ W \cup (granted \ readers) = {}
      BY <2>1, <2>2, <3>7, <3>8
    <3> HIDE DEF r, granted
    <3>10. Balanced(r, R \cup (granted \cap readers), W \cup (granted \ readers), lk)
      BY <3>6, <3>9, Zenon
    <3> QED
      BY <2>6, <3>2, <3>10
  <2> QED
    BY <2>9, <2>10
<1> QED
  BY <1>3, <1>5, <1>6

\* A semaphore that is refused: the task is queued, and served if nobody is
\* active.
LEMMA DownFailedBalanced ==
    ASSUME NEW s \in Semaphore, NEW readers, NEW t \in Tasks, NEW mode \in {"read", "write"},
           mode = "read" <=> t \in readers,
           NEW R \in SUBSET Tasks, NEW W \in SUBSET Tasks, NEW lk, Fits(lk),
           ProperQueue(s.wait_list, readers),
           t \notin Waiters(s.wait_list), Balanced(s, R, W, lk)
    PROVE  LET r == rwsem_down_failed(s, t, mode)
               granted == (Waiters(s.wait_list) \cup {t}) \ Waiters(r.wait_list)
           IN  /\ r \in Semaphore
               /\ ProperQueue(r.wait_list, readers)
               /\ Waiters(r.wait_list) \subseteq Waiters(s.wait_list) \cup {t}
               /\ Balanced(r, R \cup (granted \cap readers), W \cup (granted \ readers),
                           lk)
<1> DEFINE q == s.wait_list
           w == [task |-> t, mode |-> mode]
           e == [count |-> s.count + RWSEM_WAITING_BIAS, wait_list |-> Append(q, w)]
           r == rwsem_down_failed(s, t, mode)
<1>1. q \in Seq(Waiter) /\ Len(q) \in Nat /\ s.count \in Int /\ DOMAIN q = 1..Len(q)
  BY DEF Semaphore, Waiter
<1>2. w \in Waiter
  BY DEF Waiter
<1>3. /\ e.wait_list \in Seq(Waiter) /\ Len(e.wait_list) = Len(q) + 1
      /\ DOMAIN e.wait_list = 1..(Len(q) + 1)
      /\ \A k \in 1..Len(q) : e.wait_list[k] = q[k]
      /\ e.wait_list[Len(q) + 1] = w
  BY <1>1, <1>2
<1>4. e \in Semaphore
  BY <1>1, <1>2 DEF Semaphore, Waiter, RWSEM_WAITING_BIAS
<1>5. Waiters(e.wait_list) = Waiters(q) \cup {t}
  <2> DEFINE f == e.wait_list
  <2>0. \A k \in DOMAIN f : (k \in DOMAIN q /\ f[k] = q[k]) \/ f[k] = w
    BY <1>1, <1>3
  <2>1. \A k \in DOMAIN q : k \in DOMAIN f /\ f[k] = q[k]
    BY <1>1, <1>3
  <2>2. Len(q) + 1 \in DOMAIN f /\ f[Len(q) + 1] = w
    BY <1>1, <1>3
  <2> HIDE DEF f
  <2> QED
    BY <2>0, <2>1, <2>2 DEF Waiters, f
<1>6. ProperQueue(e.wait_list, readers)
  <2> DEFINE f == e.wait_list
  <2>0. \A k \in DOMAIN f : (k \in DOMAIN q /\ f[k] = q[k]) \/ (k = Len(q) + 1 /\ f[k] = w)
    <3> SUFFICES ASSUME NEW k \in 1..(Len(q) + 1)
                 PROVE  (k \in DOMAIN q /\ f[k] = q[k]) \/ (k = Len(q) + 1 /\ f[k] = w)
      BY <1>3
    <3> HIDE DEF e, w
    <3>1. k \in 1..Len(q) \/ k = Len(q) + 1
      BY <1>1
    <3> QED
      BY <1>1, <1>3, <3>1
  <2>1. \A k \in DOMAIN q : q[k].task # t
    BY DEF Waiters
  <2> HIDE DEF f
  <2>2. \A k \in DOMAIN f : f[k].mode = "read" <=> f[k].task \in readers
    BY <2>0 DEF ProperQueue
  <2>3. ASSUME NEW k \in DOMAIN f, NEW l \in DOMAIN f, f[k].task = f[l].task
        PROVE  k = l
    <3>1. CASE f[k] = w
      <4>1. f[l].task = t
        BY <2>3, <3>1
      <4>2. l = Len(q) + 1
        BY <2>0, <2>1, <4>1
      <4>3. f[k].task = t
        BY <3>1
      <4>4. k = Len(q) + 1
        BY <2>0, <2>1, <4>3
      <4> QED
        BY <4>2, <4>4
    <3>2. CASE f[k] # w
      <4>1. k \in DOMAIN q /\ f[k] = q[k]
        BY <2>0, <3>2
      <4>2. f[k].task # t
        BY <2>1, <4>1
      <4>3. f[l] # w
        BY <2>3, <4>2
      <4>4. l \in DOMAIN q /\ f[l] = q[l]
        BY <2>0, <4>3
      <4> QED
        BY <2>3, <4>1, <4>4 DEF ProperQueue
    <3> QED
      BY <3>1, <3>2
  <2> QED
    BY <2>2, <2>3 DEF ProperQueue, f
<1>7. Balanced(e, R, W, lk)
  <2>1. Cardinality(W) \in Nat
    BY LedgerTypes
  <2>2. ActiveHolds(e, W) = ActiveHolds(s, W)
    <3>1. e.count = s.count - 65536
      BY <1>1 DEF RWSEM_WAITING_BIAS
    <3>2. Len(e.wait_list) = Len(q) + 1 /\ Len(q) \in Nat /\ s.count \in Int
      BY <1>1, <1>3
    <3>3. ActiveHolds(s, W) = s.count + 65536 * (Len(q) + Cardinality(W))
      BY DEF ActiveHolds
    <3> HIDE DEF e, q
    <3>4. ActiveHolds(e, W) = (s.count - 65536) + 65536 * ((Len(q) + 1) + Cardinality(W))
      BY <3>1, <3>2 DEF ActiveHolds
    <3> QED
      BY <2>1, <3>2, <3>3, <3>4, SMT
  <2> HIDE DEF e
  <2> QED
    BY <2>2 DEF Balanced
<1>9. r = __rwsem_do_wake(e)
  BY DEF rwsem_down_failed
<1> HIDE DEF e, r
<1> DEFINE granted == (Waiters(q) \cup {t}) \ Waiters(r.wait_list)
<1>10. /\ r \in Semaphore /\ ProperQueue(r.wait_list, readers)
       /\ Waiters(r.wait_list) \subseteq Waiters(e.wait_list)
       /\ Balanced(r, R \cup ((Waiters(e.wait_list) \ Waiters(r.wait_list)) \cap readers),
                   W \cup ((Waiters(e.wait_list) \ Waiters(r.wait_list)) \ readers), lk)
  BY <1>4, <1>6, <1>7, <1>9, WakeBalanced, Zenon
<1>11. Waiters(e.wait_list) \ Waiters(r.wait_list) = granted
  BY <1>5
<1>12. Balanced(r, R \cup (granted \cap readers), W \cup (granted \ readers), lk)
  BY <1>10, <1>11, Zenon
<1> QED
  BY <1>5, <1>10, <1>12, Zenon DEF r

\* difc_file_permission's down_read, by a task that may ask and has not.
LEMMA DownReadBalanced ==
    ASSUME NEW s \in Semaphore, NEW readers, NEW t \in Tasks, t \in readers,
           NEW R \in SUBSET Tasks, NEW W \in SUBSET Tasks, NEW lk, Fits(lk),
           ProperQueue(s.wait_list, readers),
           t \notin Waiters(s.wait_list), t \notin R, Balanced(s, R, W, lk)
    PROVE  LET r == down_read(s, t)
               granted == (Waiters(s.wait_list) \cup {t}) \ Waiters(r.wait_list)
           IN  /\ r \in Semaphore
               /\ ProperQueue(r.wait_list, readers)
               /\ Waiters(r.wait_list) \subseteq Waiters(s.wait_list) \cup {t}
               /\ Balanced(r, R \cup (granted \cap readers), W \cup (granted \ readers),
                           lk)
<1> DEFINE q == s.wait_list
           r == down_read(s, t)
           granted == (Waiters(q) \cup {t}) \ Waiters(r.wait_list)
<1> SUFFICES /\ r \in Semaphore /\ ProperQueue(r.wait_list, readers)
             /\ Waiters(r.wait_list) \subseteq Waiters(q) \cup {t}
             /\ Balanced(r, R \cup (granted \cap readers), W \cup (granted \ readers), lk)
  OBVIOUS
<1>1. CASE ~(s.count + 1 >= 0)
  <2>1. r = rwsem_down_failed(s, t, "read")
    BY <1>1 DEF down_read
  <2> HIDE DEF r
  <2> QED
    BY <2>1, DownFailedBalanced, Zenon
<1>2. CASE s.count + 1 >= 0
  <2>0. /\ s.count \in Int /\ q \in Seq(Waiter) /\ Len(q) \in Nat /\ DOMAIN q = 1..Len(q)
    BY DEF Semaphore, Waiter
  <2>1. Cardinality(W) \in Nat /\ IsFiniteSet(W)
    BY LedgerTypes
  <2>2. /\ ActiveHolds(s, W) \in Nat /\ ActiveHolds(s, W) < 65535
        /\ ActiveHolds(s, W) = s.count + 65536 * (Len(q) + Cardinality(W))
    BY HoldsBound DEF ActiveHolds
  <2>3. Len(q) = 0 /\ Cardinality(W) = 0
    BY <1>2, <2>0, <2>1, <2>2, SMT
  <2>4. q = <<>> /\ W = {}
    BY <2>0, <2>1, <2>3, EmptySeq, FS_EmptySet
  <2>5. r = [s EXCEPT !.count = s.count + 1]
    BY <1>2 DEF down_read
  <2>6. r \in Semaphore /\ r.wait_list = q /\ r.count = s.count + 1
    BY <2>0, <2>5 DEF Semaphore
  <2>7. granted = {t}
    BY <2>6
  <2>8. /\ Cardinality(R) \in Nat /\ Cardinality(R \cup {t}) = Cardinality(R) + 1
    BY LedgerTypes, FS_AddElement
  <2>9. ActiveHolds(r, {}) = ActiveHolds(s, {}) + 1 /\ ActiveHolds(s, {}) \in Nat
    BY <2>0, <2>2, <2>3, <2>4, <2>6 DEF ActiveHolds
  <2>10. Balanced(r, R \cup {t}, {}, lk)
    <3>1. ActiveHolds(s, {}) = Cardinality(R) + lk
      BY <2>4 DEF Balanced
    <3>2. ActiveHolds(r, {}) = Cardinality(R \cup {t}) + lk
      BY <2>8, <2>9, <3>1 DEF Fits
    <3> HIDE DEF r
    <3> QED
      BY <3>2 DEF Balanced
  <2>11. R \cup (granted \cap readers) = R \cup {t} /\ W \cup (granted \ readers) = {}
    BY <2>4, <2>7
  <2> HIDE DEF r, granted
  <2>12. Balanced(r, R \cup (granted \cap readers), W \cup (granted \ readers), lk)
    BY <2>10, <2>11, Zenon
  <2> QED
    BY <2>6, <2>12
<1> QED
  BY <1>1, <1>2

\* difc_inode_set_label's down_write.
LEMMA DownWriteBalanced ==
    ASSUME NEW s \in Semaphore, NEW readers, NEW t \in Tasks, t \notin readers,
           NEW R \in SUBSET Tasks, NEW W \in SUBSET Tasks, NEW lk, Fits(lk),
           ProperQueue(s.wait_list, readers),
           t \notin Waiters(s.wait_list), Balanced(s, R, W, lk)
    PROVE  LET r == down_write(s, t)
               granted == (Waiters(s.wait_list) \cup {t}) \ Waiters(r.wait_list)
           IN  /\ r \in Semaphore
               /\ ProperQueue(r.wait_list, readers)
               /\ Waiters(r.wait_list) \subseteq Waiters(s.wait_list) \cup {t}
               /\ Balanced(r, R \cup (granted \cap readers), W \cup (granted \ readers),
                           lk)
<1> DEFINE q == s.wait_list
           r == down_write(s, t)
           granted == (Waiters(q) \cup {t}) \ Waiters(r.wait_list)
<1> SUFFICES /\ r \in Semaphore /\ ProperQueue(r.wait_list, readers)
             /\ Waiters(r.wait_list) \subseteq Waiters(q) \cup {t}
             /\ Balanced(r, R \cup (granted \cap readers), W \cup (granted \ readers), lk)
  OBVIOUS
<1>1. CASE s.count # 0
  <2>1. r = rwsem_down_failed(s, t, "write")
    BY <1>1 DEF down_write
  <2>2. "write" \in {"read", "write"} /\ ("write" = "read" <=> t \in readers)
    OBVIOUS
  <2> HIDE DEF r
  <2> QED
    BY <2>1, <2>2, DownFailedBalanced, Zenon
<1>2. CASE s.count = 0
  <2>0. /\ q \in Seq(Waiter) /\ Len(q) \in Nat /\ DOMAIN q = 1..Len(q)
    BY DEF Semaphore, Waiter
  <2>1. /\ Cardinality(W) \in Nat /\ IsFiniteSet(W)
        /\ Cardinality(R) \in Nat /\ IsFiniteSet(R)
    BY LedgerTypes
  <2>2. /\ ActiveHolds(s, W) \in Nat /\ ActiveHolds(s, W) < 65535
        /\ ActiveHolds(s, W) = s.count + 65536 * (Len(q) + Cardinality(W))
    BY HoldsBound DEF ActiveHolds
  <2>3. Len(q) = 0 /\ Cardinality(W) = 0 /\ ActiveHolds(s, W) = 0
    BY <1>2, <2>0, <2>1, <2>2, SMT
  <2>4. q = <<>> /\ W = {}
    BY <2>0, <2>1, <2>3, EmptySeq, FS_EmptySet
  <2>5. R = {} /\ lk = 0
    <3>1. 0 = Cardinality(R) + lk
      BY <2>3, <2>4 DEF Balanced
    <3>2. Cardinality(R) = 0 /\ lk = 0
      BY <2>1, <3>1 DEF Fits
    <3> QED
      BY <2>1, <3>2, FS_EmptySet
  <2>6. r = [s EXCEPT !.count = RWSEM_ACTIVE_WRITE_BIAS]
    BY <1>2 DEF down_write
  <2>7. r \in Semaphore /\ r.wait_list = q /\ r.count = 0 - 65535
    BY <2>0, <2>6 DEF Semaphore, RWSEM_ACTIVE_WRITE_BIAS, RWSEM_WAITING_BIAS
  <2>8. granted = {t}
    BY <2>7
  <2>9. Cardinality({t}) = 1
    BY FS_Singleton
  <2>10. ActiveHolds(r, {t}) = 1
    <3>1. ActiveHolds(r, {t}) = r.count + 65536 * (Len(q) + Cardinality({t}))
      BY <2>7 DEF ActiveHolds
    <3> QED
      BY <2>3, <2>7, <2>9, <3>1
  <2> HIDE DEF r, granted
  <2>11. Balanced(r, {}, {t}, lk)
    BY <2>5, <2>9, <2>10 DEF Balanced
  <2>12. R \cup (granted \cap readers) = {} /\ W \cup (granted \ readers) = {t}
    BY <2>4, <2>5, <2>8
  <2>13. Balanced(r, R \cup (granted \cap readers), W \cup (granted \ readers), lk)
    BY <2>11, <2>12, Zenon
  <2> QED
    BY <2>7, <2>13
<1> QED
  BY <1>1, <1>2

\* file_rw_release's up_read, by a task that has the semaphore.
LEMMA UpReadBalanced ==
    ASSUME NEW s \in Semaphore, NEW readers, NEW t \in Tasks,
           NEW R \in SUBSET Tasks, NEW W \in SUBSET Tasks, NEW lk, Fits(lk),
           ProperQueue(s.wait_list, readers),
           t \in R, Balanced(s, R, W, lk)
    PROVE  LET r == up_read(s)
               granted == Waiters(s.wait_list) \ Waiters(r.wait_list)
           IN  /\ r \in Semaphore
               /\ ProperQueue(r.wait_list, readers)
               /\ Waiters(r.wait_list) \subseteq Waiters(s.wait_list)
               /\ Balanced(r, (R \ {t}) \cup (granted \cap readers), W \cup (granted \ readers),
                           lk)
<1> DEFINE q == s.wait_list
           left == [s EXCEPT !.count = s.count - 1]
           r == up_read(s)
           granted == Waiters(q) \ Waiters(r.wait_list)
<1>0. s.count \in Int /\ q \in Seq(Waiter) /\ Len(q) \in Nat
  BY DEF Semaphore, Waiter
<1>1. left \in Semaphore /\ left.wait_list = q /\ left.count = s.count - 1
  BY <1>0 DEF Semaphore
<1>2. W = {} /\ Cardinality({}) = 0
  BY FS_EmptySet DEF Balanced
<1>3. /\ Cardinality(R) \in Nat /\ Cardinality(R \ {t}) = Cardinality(R) - 1
      /\ Cardinality(R \ {t}) \in Nat
  BY LedgerTypes, FS_RemoveElement
<1>4. Balanced(left, R \ {t}, {}, lk)
  <2>1. ActiveHolds(s, {}) = s.count + 65536 * (Len(q) + 0)
    BY <1>2 DEF ActiveHolds
  <2>2. ActiveHolds(left, {}) = (s.count - 1) + 65536 * (Len(q) + 0)
    <3> HIDE DEF left
    <3> QED
      BY <1>1, <1>2 DEF ActiveHolds
  <2>3. ActiveHolds(s, {}) = Cardinality(R) + lk
    BY <1>2 DEF Balanced
  <2>4. ActiveHolds(left, {}) = ActiveHolds(s, {}) - 1
    BY <1>0, <2>1, <2>2
  <2>5. ActiveHolds(left, {}) = Cardinality(R \ {t}) + lk
    BY <1>3, <2>3, <2>4 DEF Fits
  <2> HIDE DEF left
  <2> QED
    BY <2>5 DEF Balanced
<1>5. r = __rwsem_do_wake(left) \/ r = left
  BY DEF up_read
<1> HIDE DEF left, r
<1>6. R \ {t} \in SUBSET Tasks /\ {} \in SUBSET Tasks
  OBVIOUS
<1> SUFFICES /\ r \in Semaphore /\ ProperQueue(r.wait_list, readers)
             /\ Waiters(r.wait_list) \subseteq Waiters(q)
             /\ Balanced(r, (R \ {t}) \cup (granted \cap readers), {} \cup (granted \ readers), lk)
  BY <1>2, Zenon DEF r
<1>7. CASE r = left
  <2>1. granted = {}
    BY <1>1, <1>7
  <2>2. (R \ {t}) \cup (granted \cap readers) = R \ {t} /\ {} \cup (granted \ readers) = {}
    BY <2>1
  <2> HIDE DEF granted
  <2>3. Balanced(r, (R \ {t}) \cup (granted \cap readers), {} \cup (granted \ readers), lk)
    BY <1>4, <1>7, <2>2, Zenon
  <2> QED
    BY <1>1, <1>7, <2>3
<1>8. CASE r = __rwsem_do_wake(left)
  BY <1>1, <1>4, <1>6, <1>8, WakeBalanced, Zenon
<1> QED
  BY <1>5, <1>7, <1>8

\* difc_inode_set_label's up_write.
LEMMA UpWriteBalanced ==
    ASSUME NEW s \in Semaphore, NEW readers, NEW t \in Tasks,
           NEW R \in SUBSET Tasks, NEW W \in SUBSET Tasks, NEW lk, Fits(lk),
           ProperQueue(s.wait_list, readers),
           t \in W, Balanced(s, R, W, lk)
    PROVE  LET r == up_write(s)
               granted == Waiters(s.wait_list) \ Waiters(r.wait_list)
           IN  /\ r \in Semaphore
               /\ ProperQueue(r.wait_list, readers)
               /\ Waiters(r.wait_list) \subseteq Waiters(s.wait_list)
               /\ Balanced(r, R \cup (granted \cap readers), (W \ {t}) \cup (granted \ readers),
                           lk)
<1> DEFINE q == s.wait_list
           left == [s EXCEPT !.count = s.count - RWSEM_ACTIVE_WRITE_BIAS]
           r == up_write(s)
<1>0. s.count \in Int /\ q \in Seq(Waiter) /\ Len(q) \in Nat
  BY DEF Semaphore, Waiter
<1>1. left \in Semaphore /\ left.wait_list = q /\ left.count = s.count + 65535
  BY <1>0 DEF Semaphore, RWSEM_ACTIVE_WRITE_BIAS, RWSEM_WAITING_BIAS
<1>2. R = {} /\ Cardinality(W) = 1 /\ ActiveHolds(s, W) = 1 /\ lk = 0
  BY DEF Balanced
<1>3. W \ {t} = {}
  <2>1. Cardinality(W \ {t}) = 0 /\ IsFiniteSet(W \ {t})
    BY <1>2, LedgerTypes, FS_RemoveElement
  <2> QED
    BY <2>1, FS_EmptySet
<1>4. Balanced(left, R, W \ {t}, lk)
  <2>1. Cardinality({}) = 0
    BY FS_EmptySet
  <2>2. s.count + 65536 * (Len(q) + 1) = 1
    BY <1>2 DEF ActiveHolds
  <2>3. ActiveHolds(left, {}) = (s.count + 65535) + 65536 * (Len(q) + 0)
    <3> HIDE DEF left
    <3> QED
      BY <1>1, <2>1 DEF ActiveHolds
  <2>4. ActiveHolds(left, {}) = 0
    BY <1>0, <2>2, <2>3
  <2> HIDE DEF left
  <2>6. Balanced(left, {}, {}, lk)
    BY <1>2, <2>1, <2>4 DEF Balanced
  <2> QED
    BY <1>2, <1>3, <2>6, Zenon
<1>5. r = __rwsem_do_wake(left)
  BY DEF up_write
<1>6. W \ {t} \in SUBSET Tasks
  OBVIOUS
<1> HIDE DEF left, r
<1> SUFFICES LET granted == Waiters(q) \ Waiters(r.wait_list)
             IN  /\ r \in Semaphore /\ ProperQueue(r.wait_list, readers)
                 /\ Waiters(r.wait_list) \subseteq Waiters(q)
                 /\ Balanced(r, R \cup (granted \cap readers),
                             (W \ {t}) \cup (granted \ readers), lk)
  BY Zenon DEF r
<1>7. left \in Semaphore /\ left.wait_list = q
  BY <1>1
<1> QED
  BY <1>4, <1>5, <1>6, <1>7, WakeBalanced, Zenon


-----------------------------------------------------------------------------
(* The ledgers under a step of one task.                                   *)

\* A step of t that leaves the semaphore of j as r.
Moves(t, j, r) ==
    /\ sem' = [sem EXCEPT ![j] = r]
    /\ call' \in [Tasks -> Call]
    /\ \A u \in Tasks \ {t} : call'[u] = call[u]

\* Whom r serves of those who waited for the semaphore of j.
Granted(j, r) == Waiters(sem[j].wait_list) \ Waiters(r.wait_list)

\* A queue that is proper for one set of readers is so for another that agrees
\* on the waiters.
LEMMA SameReaders ==
    ASSUME NEW q, NEW A, NEW B, ProperQueue(q, A),
           \A u \in Waiters(q) : u \in A <=> u \in B
    PROVE  ProperQueue(q, B)
  BY DEF ProperQueue, Waiters

\* Another task gets the semaphore exactly if it was served.
LEMMA OthersHold ==
    ASSUME TypeOK, QueuesProper, NEW t \in Tasks, NEW j \in Inodes, NEW r, Moves(t, j, r),
           Waiters(r.wait_list) \subseteq Waiters(sem[j].wait_list) \cup {t},
           NEW u \in Tasks \ {t}, NEW i \in Inodes
    PROVE  /\ HoldsRead(u, i)' <=> \/ HoldsRead(u, i)
                                   \/ i = j /\ u \in Granted(j, r) /\ u \in ReadCallers
           /\ HoldsWrite(u, i)' <=> \/ HoldsWrite(u, i)
                                    \/ i = j /\ u \in Granted(j, r) /\ u \notin ReadCallers
<1>1. call'[u] = call[u]
  BY DEF Moves
<1>2. i # j => sem'[i] = sem[i]
  BY DEF Moves, TypeOK
<1>3. sem'[j] = r
  BY DEF Moves, TypeOK
<1>4. u \in Waiters(sem[j].wait_list) => call[u].pc = "check" /\ call[u].at = j
  BY DEF QueuesProper
<1>5. u \in ReadCallers <=> call[u].path # "relabel"
  BY DEF ReadCallers
<1>7. CASE i # j
  BY <1>1, <1>2, <1>7 DEF HoldsRead, HoldsWrite
<1>8. CASE i = j
  <2>1. u \in Granted(j, r) <=> /\ u \in Waiters(sem[j].wait_list)
                                /\ u \notin Waiters(r.wait_list)
    BY DEF Granted
  <2>2. u \in Waiters(r.wait_list) => u \in Waiters(sem[j].wait_list)
    OBVIOUS
  <2>3. HoldsRead(u, j)' <=> HoldsRead(u, j) \/ (u \in Granted(j, r) /\ u \in ReadCallers)
    BY <1>1, <1>3, <1>4, <1>5, <2>1, <2>2 DEF HoldsRead
  <2>4. HoldsWrite(u, j)' <=> HoldsWrite(u, j) \/ (u \in Granted(j, r) /\ u \notin ReadCallers)
    BY <1>1, <1>3, <1>4, <1>5, <2>1, <2>2 DEF HoldsWrite
  <2> QED
    BY <1>8, <2>3, <2>4
<1> QED
  BY <1>7, <1>8

\* The queues stay proper.
LEMMA QueueStep ==
    ASSUME TypeOK, QueuesProper, NEW t \in Tasks, NEW j \in Inodes, NEW r, Moves(t, j, r),
           Waiters(r.wait_list) \subseteq Waiters(sem[j].wait_list) \cup {t},
           ProperQueue(r.wait_list, ReadCallers),
           \A i \in Inodes \ {j} : t \notin Waiters(sem[i].wait_list),
           t \in Waiters(r.wait_list) =>
               /\ call'[t].pc = "check" /\ call'[t].at = j
               /\ call'[t].path = "relabel" <=> call[t].path = "relabel"
    PROVE  QueuesProper'
<1> SUFFICES ASSUME NEW i \in Inodes
             PROVE  /\ ProperQueue(sem'[i].wait_list, ReadCallers')
                    /\ \A u \in Waiters(sem'[i].wait_list) :
                           call'[u].pc = "check" /\ call'[u].at = i
  BY DEF QueuesProper, ProperQueue, Waiters
<1>1. sem'[j] = r /\ (i # j => sem'[i] = sem[i])
  BY DEF Moves, TypeOK
<1>2. \A u \in Tasks \ {t} : u \in ReadCallers <=> u \in ReadCallers'
  BY DEF Moves, ReadCallers
<1>3. \A k \in Inodes : Waiters(sem[k].wait_list) \subseteq Tasks
  <2> SUFFICES ASSUME NEW k \in Inodes, NEW m \in DOMAIN sem[k].wait_list
               PROVE  sem[k].wait_list[m].task \in Tasks
    BY DEF Waiters
  <2>1. sem[k].wait_list \in Seq(Waiter)
    BY DEF TypeOK, Semaphore, Waiter
  <2>2. sem[k].wait_list[m] \in Waiter
    BY <2>1
  <2> QED
    BY <2>2 DEF Waiter
<1>4. CASE i # j
  <2>1. t \notin Waiters(sem[i].wait_list) /\ ProperQueue(sem[i].wait_list, ReadCallers)
    BY <1>4 DEF QueuesProper
  <2>2. \A u \in Waiters(sem[i].wait_list) : u \in ReadCallers <=> u \in ReadCallers'
    BY <1>2, <1>3, <2>1
  <2>3. ProperQueue(sem[i].wait_list, ReadCallers')
    BY <2>1, <2>2, SameReaders, Zenon
  <2>4. \A u \in Waiters(sem[i].wait_list) : call'[u].pc = "check" /\ call'[u].at = i
    BY <1>3, <2>1 DEF QueuesProper, Moves
  <2> QED
    BY <1>1, <1>4, <2>3, <2>4, Zenon
<1>5. CASE i = j
  <2>1. t \in Waiters(r.wait_list) => (t \in ReadCallers <=> t \in ReadCallers')
    BY DEF ReadCallers
  <2>2. \A u \in Waiters(r.wait_list) : u \in ReadCallers <=> u \in ReadCallers'
    BY <1>2, <1>3, <2>1
  <2>3. ProperQueue(r.wait_list, ReadCallers')
    BY <2>2, SameReaders, Zenon
  <2>4. \A u \in Waiters(r.wait_list) : call'[u].pc = "check" /\ call'[u].at = i
    BY <1>3, <1>5 DEF QueuesProper, Moves
  <2> QED
    BY <1>1, <1>5, <2>3, <2>4, Zenon
<1> QED
  BY <1>4, <1>5

\* The step of t concerns the semaphore of j alone.
OwnElsewhere(t, j) ==
    \A i \in Inodes \ {j} :
        /\ HoldsRead(t, i)' <=> HoldsRead(t, i)
        /\ HoldsWrite(t, i)' <=> HoldsWrite(t, i)

\* The ledgers balance again if the one of j does.
LEMMA LedgerStep ==
    ASSUME TypeOK, QueuesProper, LedgersBalanced,
           NEW t \in Tasks, NEW j \in Inodes, NEW r, Moves(t, j, r),
           Waiters(r.wait_list) \subseteq Waiters(sem[j].wait_list) \cup {t},
           OwnElsewhere(t, j), \A i \in Inodes \ {j} : leaked'[i] = leaked[i],
           Balanced(r, Readers(j)', Writers(j)', leaked'[j])
    PROVE  LedgersBalanced'
<1> SUFFICES ASSUME NEW i \in Inodes
             PROVE  Balanced(sem'[i], Readers(i)', Writers(i)', leaked'[i])
  BY DEF LedgersBalanced, Balanced, ActiveHolds
<1>1. sem'[j] = r /\ (i # j => sem'[i] = sem[i])
  BY DEF Moves, TypeOK
<1>2. CASE i = j
  BY <1>1, <1>2, Zenon
<1>3. CASE i # j
  <2>1. \A u \in Tasks : /\ HoldsRead(u, i)' <=> HoldsRead(u, i)
                         /\ HoldsWrite(u, i)' <=> HoldsWrite(u, i)
    <3>1. ASSUME NEW u \in Tasks \ {t}
          PROVE  /\ HoldsRead(u, i)' <=> HoldsRead(u, i)
                 /\ HoldsWrite(u, i)' <=> HoldsWrite(u, i)
      BY <1>3, OthersHold, Zenon
    <3>2. /\ HoldsRead(t, i)' <=> HoldsRead(t, i)
          /\ HoldsWrite(t, i)' <=> HoldsWrite(t, i)
      BY <1>3 DEF OwnElsewhere
    <3> QED
      BY <3>1, <3>2
  <2>2. Readers(i)' = Readers(i) /\ Writers(i)' = Writers(i)
    BY <2>1 DEF Readers, Writers
  <2>3. leaked'[i] = leaked[i]
    BY <1>3
  <2>4. Balanced(sem[i], Readers(i), Writers(i), leaked[i])
    BY DEF LedgersBalanced
  <2> QED
    BY <1>1, <1>3, <2>2, <2>3, <2>4, Zenon
<1> QED
  BY <1>2, <1>3

\* What an inode's ledger is about.
LEMMA LedgerSets ==
    ASSUME TypeOK, QueuesProper, NEW i \in Inodes
    PROVE  /\ sem[i] \in Semaphore
           /\ Readers(i) \in SUBSET Tasks /\ Writers(i) \in SUBSET Tasks
           /\ leaked[i] \in Nat
           /\ Waiters(sem[i].wait_list) \subseteq Tasks
           /\ ProperQueue(sem[i].wait_list, ReadCallers)
<1>1. sem[i] \in Semaphore /\ Readers(i) \in SUBSET Tasks /\ Writers(i) \in SUBSET Tasks
      /\ leaked[i] \in Nat
  BY DEF TypeOK, Readers, Writers
<1>2. Waiters(sem[i].wait_list) \subseteq Tasks
  <2> SUFFICES ASSUME NEW m \in DOMAIN sem[i].wait_list
               PROVE  sem[i].wait_list[m].task \in Tasks
    BY DEF Waiters
  <2>1. sem[i].wait_list \in Seq(Waiter)
    BY <1>1 DEF Semaphore, Waiter
  <2>2. sem[i].wait_list[m] \in Waiter
    BY <2>1
  <2> QED
    BY <2>2 DEF Waiter
<1> QED
  BY <1>1, <1>2 DEF QueuesProper

\* A task waits only at the inode at which it is.
LEMMA WaitsAt ==
    ASSUME QueuesProper, NEW t \in Tasks, NEW i \in Inodes,
           call[t].pc # "check" \/ call[t].at # i
    PROVE  t \notin Waiters(sem[i].wait_list)
  BY DEF QueuesProper

\* down_read and down_write: the task is served or waits.
LEMMA TakeStep ==
    ASSUME TypeOK, CallShape, QueuesProper, LedgersBalanced,
           NEW t \in Tasks, NEW j \in Inodes, NEW r \in Semaphore,
           call[t].pc = "down", call[t].at = j, Moves(t, j, r),
           call' = [call EXCEPT ![t].pc = "check"], UNCHANGED leaked,
           ProperQueue(r.wait_list, ReadCallers),
           Waiters(r.wait_list) \subseteq Waiters(sem[j].wait_list) \cup {t},
           LET served == (Waiters(sem[j].wait_list) \cup {t}) \ Waiters(r.wait_list)
           IN  Balanced(r, Readers(j) \cup (served \cap ReadCallers),
                        Writers(j) \cup (served \ ReadCallers), leaked[j])
    PROVE  QueuesProper' /\ LedgersBalanced'
<1> DEFINE served == (Waiters(sem[j].wait_list) \cup {t}) \ Waiters(r.wait_list)
<1>1. /\ call'[t].pc = "check" /\ call'[t].at = j
      /\ call'[t].path = call[t].path /\ call'[t].file = call[t].file
  BY DEF TypeOK, Call
<1>2. sem'[j] = r /\ \A i \in Inodes \ {j} : sem'[i] = sem[i]
  BY DEF TypeOK, Moves
<1>3. \A i \in Inodes : t \notin Waiters(sem[i].wait_list)
  BY WaitsAt
<1>4. QueuesProper'
  <2>1. t \in Waiters(r.wait_list) =>
            /\ call'[t].pc = "check" /\ call'[t].at = j
            /\ call'[t].path = "relabel" <=> call[t].path = "relabel"
    BY <1>1
  <2>2. \A i \in Inodes \ {j} : t \notin Waiters(sem[i].wait_list)
    BY <1>3
  <2> QED
    BY <2>1, <2>2, QueueStep, Zenon
<1>5. Sendfile(call[t].path) => call[t].file \notin Socks
  BY LabelSemAssumption DEF CallShape, Shape
<1>6. OwnElsewhere(t, j)
  BY <1>1, <1>2 DEF OwnElsewhere, HoldsRead, HoldsWrite
<1>7. /\ ~HoldsRead(t, j) /\ ~HoldsWrite(t, j)
      /\ HoldsRead(t, j)' <=> t \notin Waiters(r.wait_list) /\ t \in ReadCallers
      /\ HoldsWrite(t, j)' <=> t \notin Waiters(r.wait_list) /\ t \notin ReadCallers
  BY <1>1, <1>2, <1>5 DEF HoldsRead, HoldsWrite, ReadCallers
<1>8. ASSUME NEW u \in Tasks \ {t}
      PROVE  /\ HoldsRead(u, j)' <=> \/ HoldsRead(u, j)
                                     \/ u \in Granted(j, r) /\ u \in ReadCallers
             /\ HoldsWrite(u, j)' <=> \/ HoldsWrite(u, j)
                                      \/ u \in Granted(j, r) /\ u \notin ReadCallers
  BY OthersHold
<1>9. Waiters(sem[j].wait_list) \subseteq Tasks
  BY LedgerSets
<1>10. Readers(j)' = Readers(j) \cup (served \cap ReadCallers)
  BY <1>3, <1>7, <1>8, <1>9 DEF Readers, Granted
<1>11. Writers(j)' = Writers(j) \cup (served \ ReadCallers)
  BY <1>3, <1>7, <1>8, <1>9 DEF Writers, Granted
<1>13. Balanced(r, Readers(j)', Writers(j)', leaked[j])
  <2>1. Balanced(r, Readers(j) \cup (served \cap ReadCallers),
                 Writers(j) \cup (served \ ReadCallers), leaked[j])
    BY Zenon
  <2> HIDE DEF served
  <2> QED
    BY <1>10, <1>11, <2>1, Zenon
<1>14. leaked'[j] = leaked[j] /\ \A i \in Inodes \ {j} : leaked'[i] = leaked[i]
  OBVIOUS
<1>15. LedgersBalanced'
  <2>1. Balanced(r, Readers(j)', Writers(j)', leaked'[j])
    BY <1>13, <1>14, Zenon
  <2> QED
    BY <1>6, <1>14, <2>1, LedgerStep, Zenon
<1> QED
  BY <1>4, <1>15

\* What a step that gives up a hold at j says of its own task.
OwnGone(t, j) ==
    /\ \A i \in Inodes : t \notin Waiters(sem[i].wait_list)
    /\ OwnElsewhere(t, j)
    /\ ~HoldsRead(t, j)' /\ ~HoldsWrite(t, j)'

\* up_read: the first waiters may be served.
LEMMA GiveStep ==
    ASSUME TypeOK, QueuesProper, LedgersBalanced, FewLeaks,
           NEW t \in Tasks, NEW j \in Inodes, UNCHANGED leaked,
           Moves(t, j, up_read(sem[j])), HoldsRead(t, j), OwnGone(t, j)
    PROVE  /\ up_read(sem[j]) \in Semaphore
           /\ QueuesProper' /\ LedgersBalanced'
<1> DEFINE r == up_read(sem[j])
           s == sem[j]
<1>1. /\ s \in Semaphore
      /\ Readers(j) \in SUBSET Tasks /\ Writers(j) \in SUBSET Tasks
      /\ Fits(leaked[j])
      /\ Waiters(s.wait_list) \subseteq Tasks
      /\ ProperQueue(s.wait_list, ReadCallers)
  BY LedgerSets DEF FewLeaks, Fits
<1>2. Balanced(s, Readers(j), Writers(j), leaked[j]) /\ t \in Readers(j)
  BY DEF LedgersBalanced, Readers
<1>3. /\ r \in Semaphore /\ ProperQueue(r.wait_list, ReadCallers)
      /\ Waiters(r.wait_list) \subseteq Waiters(s.wait_list)
      /\ Balanced(r, (Readers(j) \ {t}) \cup (Granted(j, r) \cap ReadCallers),
                  Writers(j) \cup (Granted(j, r) \ ReadCallers), leaked[j])
  BY <1>1, <1>2, UpReadBalanced, Zenon DEF Granted
<1>4. Moves(t, j, r)
  OBVIOUS
<1> HIDE DEF r
<1>5. Waiters(r.wait_list) \subseteq Waiters(s.wait_list) \cup {t}
  BY <1>3
<1>6. t \notin Waiters(r.wait_list) /\ t \notin Granted(j, r)
  BY <1>3 DEF OwnGone, Granted
<1>7. QueuesProper'
  <2>1. \A i \in Inodes \ {j} : t \notin Waiters(sem[i].wait_list)
    BY DEF OwnGone
  <2> QED
    BY <1>3, <1>4, <1>5, <1>6, <2>1, QueueStep
<1>8. ~HoldsWrite(t, j)
  BY DEF HoldsRead, HoldsWrite
<1>9. ASSUME NEW u \in Tasks \ {t}
      PROVE  /\ HoldsRead(u, j)' <=> \/ HoldsRead(u, j)
                                     \/ u \in Granted(j, r) /\ u \in ReadCallers
             /\ HoldsWrite(u, j)' <=> \/ HoldsWrite(u, j)
                                      \/ u \in Granted(j, r) /\ u \notin ReadCallers
  BY <1>4, <1>5, OthersHold, Zenon
<1>10. Granted(j, r) \subseteq Tasks
  BY <1>1 DEF Granted
<1>11. Readers(j)' = (Readers(j) \ {t}) \cup (Granted(j, r) \cap ReadCallers)
  BY <1>6, <1>9, <1>10 DEF Readers, OwnGone
<1>12. Writers(j)' = Writers(j) \cup (Granted(j, r) \ ReadCallers)
  BY <1>6, <1>8, <1>9, <1>10 DEF Writers, OwnGone
<1>14. Balanced(r, Readers(j)', Writers(j)', leaked[j])
  BY <1>3, <1>11, <1>12, Zenon
<1>15. /\ Balanced(r, Readers(j)', Writers(j)', leaked'[j])
       /\ \A i \in Inodes \ {j} : leaked'[i] = leaked[i]
  BY <1>14, Zenon
<1>16. LedgersBalanced'
  BY <1>4, <1>5, <1>15, LedgerStep, Zenon DEF OwnGone
<1> QED
  BY <1>3, <1>7, <1>16 DEF r

\* up_write.
LEMMA GiveWriteStep ==
    ASSUME TypeOK, QueuesProper, LedgersBalanced, FewLeaks,
           NEW t \in Tasks, NEW j \in Inodes, UNCHANGED leaked,
           Moves(t, j, up_write(sem[j])), HoldsWrite(t, j), OwnGone(t, j)
    PROVE  /\ up_write(sem[j]) \in Semaphore
           /\ QueuesProper' /\ LedgersBalanced'
<1> DEFINE r == up_write(sem[j])
           s == sem[j]
<1>1. /\ s \in Semaphore
      /\ Readers(j) \in SUBSET Tasks /\ Writers(j) \in SUBSET Tasks
      /\ Fits(leaked[j])
      /\ Waiters(s.wait_list) \subseteq Tasks
      /\ ProperQueue(s.wait_list, ReadCallers)
  BY LedgerSets DEF FewLeaks, Fits
<1>2. Balanced(s, Readers(j), Writers(j), leaked[j]) /\ t \in Writers(j)
  BY DEF LedgersBalanced, Writers
<1>3. /\ r \in Semaphore /\ ProperQueue(r.wait_list, ReadCallers)
      /\ Waiters(r.wait_list) \subseteq Waiters(s.wait_list)
      /\ Balanced(r, Readers(j) \cup (Granted(j, r) \cap ReadCallers),
                  (Writers(j) \ {t}) \cup (Granted(j, r) \ ReadCallers), leaked[j])
  BY <1>1, <1>2, UpWriteBalanced, Zenon DEF Granted
<1>4. Moves(t, j, r)
  OBVIOUS
<1> HIDE DEF r
<1>5. Waiters(r.wait_list) \subseteq Waiters(s.wait_list) \cup {t}
  BY <1>3
<1>6. t \notin Waiters(r.wait_list) /\ t \notin Granted(j, r)
  BY <1>3 DEF OwnGone, Granted
<1>7. QueuesProper'
  <2>1. \A i \in Inodes \ {j} : t \notin Waiters(sem[i].wait_list)
    BY DEF OwnGone
  <2> QED
    BY <1>3, <1>4, <1>5, <1>6, <2>1, QueueStep
<1>8. ~HoldsRead(t, j)
  BY DEF HoldsRead, HoldsWrite
<1>9. ASSUME NEW u \in Tasks \ {t}
      PROVE  /\ HoldsRead(u, j)' <=> \/ HoldsRead(u, j)
                                     \/ u \in Granted(j, r) /\ u \in ReadCallers
             /\ HoldsWrite(u, j)' <=> \/ HoldsWrite(u, j)
                                      \/ u \in Granted(j, r) /\ u \notin ReadCallers
  BY <1>4, <1>5, OthersHold, Zenon
<1>10. Granted(j, r) \subseteq Tasks
  BY <1>1 DEF Granted
<1>11. Readers(j)' = Readers(j) \cup (Granted(j, r) \cap ReadCallers)
  BY <1>6, <1>8, <1>9, <1>10 DEF Readers, OwnGone
<1>12. Writers(j)' = (Writers(j) \ {t}) \cup (Granted(j, r) \ ReadCallers)
  BY <1>6, <1>9, <1>10 DEF Writers, OwnGone
<1>14. Balanced(r, Readers(j)', Writers(j)', leaked[j])
  BY <1>3, <1>11, <1>12, Zenon
<1>15. /\ Balanced(r, Readers(j)', Writers(j)', leaked'[j])
       /\ \A i \in Inodes \ {j} : leaked'[i] = leaked[i]
  BY <1>14, Zenon
<1>16. LedgersBalanced'
  BY <1>4, <1>5, <1>15, LedgerStep, Zenon DEF OwnGone
<1> QED
  BY <1>3, <1>7, <1>16 DEF r

\* The task keeps what it holds at j, or leaks it.
KeepsOrLeaks(t, j) ==
    \/ (HoldsRead(t, j)' <=> HoldsRead(t, j)) /\ UNCHANGED leaked
    \/ /\ HoldsRead(t, j) /\ ~HoldsRead(t, j)' /\ ~LeakFree
       /\ leaked' = [leaked EXCEPT ![j] = leaked[j] + 1]

\* A step that leaves the semaphores alone.
LEMMA StillStep ==
    ASSUME TypeOK, QueuesProper, LedgersBalanced,
           NEW t \in Tasks, NEW j \in Inodes, UNCHANGED sem,
           call' \in [Tasks -> Call], \A u \in Tasks \ {t} : call'[u] = call[u],
           \A i \in Inodes : t \notin Waiters(sem[i].wait_list),
           OwnElsewhere(t, j),
           HoldsWrite(t, j)' <=> HoldsWrite(t, j), KeepsOrLeaks(t, j)
    PROVE  QueuesProper' /\ LedgersBalanced'
<1> DEFINE r == sem[j]
<1>1. Moves(t, j, r)
  BY DEF Moves, TypeOK
<1>2. /\ ProperQueue(r.wait_list, ReadCallers)
      /\ Readers(j) \in SUBSET Tasks /\ leaked[j] \in Nat
  BY LedgerSets
<1>3. Waiters(r.wait_list) \subseteq Waiters(sem[j].wait_list) \cup {t}
  OBVIOUS
<1>4. QueuesProper'
  BY <1>1, <1>2, <1>3, QueueStep
<1>5. ASSUME NEW u \in Tasks \ {t}
      PROVE  /\ HoldsRead(u, j)' <=> HoldsRead(u, j)
             /\ HoldsWrite(u, j)' <=> HoldsWrite(u, j)
  <2>1. u \notin Granted(j, r)
    BY DEF Granted
  <2> QED
    BY <1>1, <1>3, <2>1, OthersHold, Zenon
<1>6. Writers(j)' = Writers(j)
  BY <1>5 DEF Writers
<1>7. Balanced(r, Readers(j), Writers(j), leaked[j])
  BY DEF LedgersBalanced
<1>8. /\ Balanced(r, Readers(j)', Writers(j), leaked'[j])
      /\ \A i \in Inodes \ {j} : leaked'[i] = leaked[i]
  <2>1. CASE (HoldsRead(t, j)' <=> HoldsRead(t, j)) /\ UNCHANGED leaked
    <3>1. Readers(j)' = Readers(j)
      BY <1>5, <2>1 DEF Readers
    <3>2. leaked' = leaked
      BY <2>1
    <3> QED
      BY <1>7, <3>1, <3>2, Zenon
  <2>2. CASE /\ HoldsRead(t, j) /\ ~HoldsRead(t, j)'
             /\ leaked' = [leaked EXCEPT ![j] = leaked[j] + 1]
    <3> DEFINE R == Readers(j)
               S == Readers(j)'
    <3>1. S = R \ {t} /\ t \in R
      BY <1>5, <2>2 DEF Readers
    <3>2. IsFiniteSet(R)
      BY <1>2, LedgerTypes
    <3>3. Cardinality(R) \in Nat /\ Cardinality(R \ {t}) = Cardinality(R) - 1
      BY <3>1, <3>2, FS_RemoveElement, FS_CardinalityType
    <3>4. leaked'[j] = leaked[j] + 1 /\ \A i \in Inodes \ {j} : leaked'[i] = leaked[i]
      BY <2>2 DEF TypeOK
    <3>5. Balanced(r, R, Writers(j), leaked[j])
      BY <1>7, Zenon
    <3> HIDE DEF R, S, r
    <3>6. Writers(j) = {} /\ ActiveHolds(r, Writers(j)) = Cardinality(R) + leaked[j]
      BY <3>1, <3>5 DEF Balanced
    <3>7. ActiveHolds(r, Writers(j)) = Cardinality(S) + leaked'[j]
      BY <1>2, <3>1, <3>3, <3>4, <3>6
    <3>8. Balanced(r, S, Writers(j), leaked'[j])
      BY <3>6, <3>7 DEF Balanced
    <3> QED
      BY <3>4, <3>8 DEF S
  <2> QED
    BY <2>1, <2>2 DEF KeepsOrLeaks
<1>9. Balanced(r, Readers(j)', Writers(j)', leaked'[j])
  BY <1>6, <1>8, Zenon
<1>10. LedgersBalanced'
  BY <1>1, <1>3, <1>8, <1>9, LedgerStep, Zenon
<1> QED
  BY <1>4, <1>10

-----------------------------------------------------------------------------
(* The steps of a call.                                                    *)

\* The call of t goes on at another stage.
LEMMA GotoCall ==
    ASSUME TypeOK, NEW t \in Tasks, NEW pc \in Stages, Goto(t, pc)
    PROVE  /\ call' \in [Tasks -> Call]
           /\ \A u \in Tasks \ {t} : call'[u] = call[u]
           /\ call'[t].pc = pc /\ call'[t].path = call[t].path
           /\ call'[t].file = call[t].file /\ call'[t].at = call[t].at
           /\ call'[t].new = call[t].new
  BY DEF TypeOK, Goto, Call

\* The call of t returns.
LEMMA ReturnCall ==
    ASSUME TypeOK, NEW t \in Tasks, Return(t)
    PROVE  /\ call' \in [Tasks -> Call]
           /\ \A u \in Tasks \ {t} : call'[u] = call[u]
           /\ call'[t].pc = "idle" /\ call'[t].path = "read"
           /\ call'[t].file = call'[t].at
<1>1. Idle \in Call
  <2>1. (CHOOSE i \in Inodes : TRUE) \in Inodes
    BY LabelSemAssumption
  <2> QED
    BY <2>1 DEF Idle, Call, AllPaths, Stages, Unlabeled, Labels
<1>2. call'[t] = Idle /\ Idle.pc = "idle" /\ Idle.path = "read" /\ Idle.file = Idle.at
  BY DEF TypeOK, Return, Idle
<1> QED
  BY <1>1, <1>2 DEF TypeOK, Return

\* A returned call has its shape and holds no semaphore.
LEMMA ReturnedHoldsNothing ==
    ASSUME NEW t \in Tasks, call'[t].pc = "idle", call'[t].path = "read",
           call'[t].file = call'[t].at
    PROVE  /\ Shape(call'[t])
           /\ \A i \in Inodes : ~HoldsRead(t, i)' /\ ~HoldsWrite(t, i)'
           /\ Cleared(t)' = {}
  BY DEF Shape, Sendfile, HoldsRead, HoldsWrite, Cleared

\* The parts of the invariant that speak of the calls alone.
LEMMA CallStep ==
    ASSUME CallShape, FlowAllowed, NEW t \in Tasks,
           \A u \in Tasks \ {t} : call'[u] = call[u],
           Shape(call'[t]), UNCHANGED <<tlabel, ilabel>>,
           \A a \in Cleared(t)' : a \in Cleared(t) \/ difc_inode_permission(t, a[1], a[2])
    PROVE  CallShape' /\ FlowAllowed'
<1>1. CallShape'
  <2> SUFFICES ASSUME NEW u \in Tasks PROVE Shape(call'[u])
    BY DEF CallShape, Shape, Sendfile
  <2> QED
    BY DEF CallShape
<1>2. FlowAllowed'
  <2> SUFFICES ASSUME NEW u \in Tasks, NEW a \in Cleared(u)'
               PROVE  difc_inode_permission(u, a[1], a[2])'
    BY DEF FlowAllowed
  <2>1. difc_inode_permission(u, a[1], a[2])
    <3>1. CASE u = t
      BY <3>1 DEF FlowAllowed
    <3>2. CASE u # t
      <4>1. Cleared(u)' = Cleared(u)
        BY <3>2 DEF Cleared, Mode, Sendfile
      <4> QED
        BY <4>1 DEF FlowAllowed
    <3> QED
      BY <3>1, <3>2
  <2> QED
    BY <2>1 DEF difc_inode_permission
<1> QED
  BY <1>1, <1>2

\* An access that a call has cleared is one for which it holds the semaphore.
LEMMA ClearedHeld ==
    ASSUME CallShape, NEW u \in Tasks, NEW a \in Cleared(u)
    PROVE  HoldsRead(u, a[1])
<1> DEFINE c == call[u]
<1>0. Shape(c)
  BY DEF CallShape
<1>1. CASE a = <<c.file, "read">> /\ Sendfile(c.path)
           /\ (c.pc \in {"out", "io"} \/ (c.at # c.file /\ c.pc \in {"down", "check"}))
  <2>1. a[1] = c.file
    BY <1>1
  <2> QED
    BY <1>0, <1>1, <2>1 DEF HoldsRead, Shape, Sendfile
<1>2. CASE a = <<c.at, Mode(c)>> /\ c.pc = "io"
  <2>1. a[1] = c.at
    BY <1>2
  <2>2. c.path # "relabel"
    BY <1>0, <1>2 DEF Shape
  <2> QED
    BY <1>2, <2>1, <2>2 DEF HoldsRead
<1> QED
  BY <1>1, <1>2 DEF Cleared

\* A call's steps outside the semaphores of waiting tasks: t is queued nowhere.
LEMMA NotQueued ==
    ASSUME TypeOK, QueuesProper, NEW t \in Tasks, call[t].pc # "check" \/ ~Queued(t)
    PROVE  \A i \in Inodes : t \notin Waiters(sem[i].wait_list)
<1>1. t \notin Waiters(sem[call[t].at].wait_list) \/ call[t].pc # "check"
  BY DEF Queued, Waiters
<1> QED
  BY <1>1, WaitsAt

-----------------------------------------------------------------------------
(* One lemma per action: it keeps the invariant.                           *)

LEMMA StartKeeps ==
    ASSUME IInv, FewLeaks, NEW t \in Tasks, NEW path \in Paths, NEW f \in Inodes, NEW new \in Labels,
           Start(t, path, f, new)
    PROVE  IInv'
<1> USE DEF IInv
<1> DEFINE c == [path |-> path, pc |-> "down", file |-> f, at |-> f, new |-> new]
<1>1. /\ c \in Call /\ c.path = path /\ c.pc = "down" /\ c.file = f /\ c.at = f
  BY LabelSemAssumption DEF Call, Stages
<1>2. /\ call' \in [Tasks -> Call] /\ call'[t] = c
      /\ \A u \in Tasks \ {t} : call'[u] = call[u]
  BY <1>1 DEF Start, TypeOK
<1>3. /\ UNCHANGED <<tlabel, ilabel, sem, data>> /\ call[t].pc = "idle" /\ f \in Targets(path)
      /\ leaked' = leaked
  BY DEF Start
<1> HIDE DEF c
<1>4. TypeOK'
  BY <1>2, <1>3 DEF TypeOK
<1>5. Sendfile(path) => f \in Files
  BY <1>3 DEF Targets, Sendfile
<1>6. Shape(call'[t]) /\ Cleared(t)' = {}
  BY <1>1, <1>2, <1>5 DEF Shape, Cleared
<1>7. CallShape' /\ FlowAllowed'
  BY <1>2, <1>3, <1>6, CallStep
<1>8. \A i \in Inodes : t \notin Waiters(sem[i].wait_list)
  BY <1>3, NotQueued
<1>9. \A i \in Inodes : /\ ~HoldsRead(t, i) /\ ~HoldsWrite(t, i)
                        /\ ~HoldsRead(t, i)' /\ ~HoldsWrite(t, i)'
  BY <1>1, <1>2, <1>3 DEF HoldsRead, HoldsWrite
<1>10. f \in Inodes /\ Moves(t, f, sem[f])
  BY <1>2, <1>3 DEF Moves, TypeOK
<1>11. Waiters(sem[f].wait_list) \subseteq Waiters(sem[f].wait_list) \cup {t}
  OBVIOUS
<1>12. QueuesProper'
  <2>1. ProperQueue(sem[f].wait_list, ReadCallers)
    BY DEF QueuesProper
  <2> QED
    BY <1>8, <1>10, <1>11, <2>1, QueueStep
<1>13. LedgersBalanced'
  <2> SUFFICES ASSUME NEW i \in Inodes
               PROVE  Balanced(sem'[i], Readers(i)', Writers(i)', leaked'[i])
    BY DEF LedgersBalanced, Balanced, ActiveHolds
  <2>1. \A u \in Tasks : /\ HoldsRead(u, i)' <=> HoldsRead(u, i)
                         /\ HoldsWrite(u, i)' <=> HoldsWrite(u, i)
    <3>1. ASSUME NEW u \in Tasks \ {t}
          PROVE  /\ HoldsRead(u, i)' <=> HoldsRead(u, i)
                 /\ HoldsWrite(u, i)' <=> HoldsWrite(u, i)
      <4>1. u \notin Granted(f, sem[f])
        BY DEF Granted
      <4> QED
        BY <1>10, <1>11, <4>1, OthersHold, Zenon
    <3> QED
      BY <1>9, <3>1
  <2>2. Readers(i)' = Readers(i) /\ Writers(i)' = Writers(i)
    BY <2>1 DEF Readers, Writers
  <2>3. Balanced(sem[i], Readers(i), Writers(i), leaked[i])
    BY DEF LedgersBalanced
  <2> QED
    BY <1>3, <2>2, <2>3, Zenon
<1>14. NoneLeaked'
  BY <1>3 DEF NoneLeaked
<1> QED
  BY <1>4, <1>7, <1>12, <1>13, <1>14

LEMMA DownReadKeeps ==
    ASSUME IInv, FewLeaks, NEW t \in Tasks, DownRead(t)
    PROVE  IInv'
<1> USE DEF IInv
<1>0. PICK j \in Inodes : j = call[t].at
  BY DEF TypeOK, Call
<1> USE <1>0
<1> DEFINE s == sem[j]
           r == down_read(s, t)
<1>1. /\ call[t].pc = "down" /\ call[t].path # "relabel" /\ Goto(t, "check")
      /\ sem' = [sem EXCEPT ![j] = r] /\ UNCHANGED <<tlabel, ilabel, data>>
      /\ leaked' = leaked
      /\ j \in Inodes
  BY DEF DownRead, TypeOK, Call
<1>2. "check" \in Stages
  BY DEF Stages
<1>3. /\ call' \in [Tasks -> Call] /\ \A u \in Tasks \ {t} : call'[u] = call[u]
      /\ call'[t].pc = "check" /\ call'[t].path = call[t].path
      /\ call'[t].file = call[t].file /\ call'[t].at = call[t].at
  BY <1>1, <1>2, GotoCall
<1>4. Shape(call[t])
  BY DEF CallShape
<1>5. Shape(call'[t]) /\ Cleared(t)' \subseteq Cleared(t)
  BY <1>1, <1>3, <1>4 DEF Shape, Cleared
<1>6. CallShape' /\ FlowAllowed'
  BY <1>1, <1>3, <1>5, CallStep
<1>7. /\ s \in Semaphore
      /\ Readers(j) \in SUBSET Tasks /\ Writers(j) \in SUBSET Tasks
      /\ Fits(leaked[j])
      /\ ProperQueue(s.wait_list, ReadCallers)
  BY <1>1, LedgerSets DEF FewLeaks, Fits
<1>8. Balanced(s, Readers(j), Writers(j), leaked[j])
  BY <1>1 DEF LedgersBalanced
<1>9. t \notin Waiters(s.wait_list) /\ t \notin Readers(j) /\ t \in ReadCallers
  BY <1>1, WaitsAt DEF Readers, HoldsRead, ReadCallers
<1>10. Moves(t, j, r)
  BY <1>1, <1>3 DEF Moves
<1>11. LET served == (Waiters(s.wait_list) \cup {t}) \ Waiters(r.wait_list)
       IN  /\ r \in Semaphore /\ ProperQueue(r.wait_list, ReadCallers)
           /\ Waiters(r.wait_list) \subseteq Waiters(s.wait_list) \cup {t}
           /\ Balanced(r, Readers(j) \cup (served \cap ReadCallers),
                       Writers(j) \cup (served \ ReadCallers), leaked[j])
  <2> HIDE DEF IInv, s
  <2> QED
    BY <1>7, <1>8, <1>9, DownReadBalanced, Zenon
<1>12. call' = [call EXCEPT ![t].pc = "check"]
  BY <1>1 DEF Goto
<1> HIDE DEF r
<1>13. QueuesProper' /\ LedgersBalanced'
  BY <1>1, <1>10, <1>11, <1>12, TakeStep, Zenon
<1>14. TypeOK' /\ NoneLeaked'
  BY <1>1, <1>3, <1>11 DEF TypeOK, NoneLeaked
<1> QED
  BY <1>6, <1>13, <1>14

LEMMA DownWriteKeeps ==
    ASSUME IInv, FewLeaks, NEW t \in Tasks, DownWrite(t)
    PROVE  IInv'
<1> USE DEF IInv
<1>0. PICK j \in Inodes : j = call[t].at
  BY DEF TypeOK, Call
<1> USE <1>0
<1> DEFINE s == sem[j]
           r == down_write(s, t)
<1>1. /\ call[t].pc = "down" /\ call[t].path = "relabel" /\ Goto(t, "check")
      /\ sem' = [sem EXCEPT ![j] = r] /\ UNCHANGED <<tlabel, ilabel, data>>
      /\ leaked' = leaked
      /\ j \in Inodes
  BY DEF DownWrite, TypeOK, Call
<1>2. "check" \in Stages
  BY DEF Stages
<1>3. /\ call' \in [Tasks -> Call] /\ \A u \in Tasks \ {t} : call'[u] = call[u]
      /\ call'[t].pc = "check" /\ call'[t].path = call[t].path
      /\ call'[t].file = call[t].file /\ call'[t].at = call[t].at
  BY <1>1, <1>2, GotoCall
<1>4. Shape(call[t])
  BY DEF CallShape
<1>5. Shape(call'[t]) /\ Cleared(t)' \subseteq Cleared(t)
  BY <1>1, <1>3, <1>4 DEF Shape, Cleared
<1>6. CallShape' /\ FlowAllowed'
  BY <1>1, <1>3, <1>5, CallStep
<1>7. /\ s \in Semaphore
      /\ Readers(j) \in SUBSET Tasks /\ Writers(j) \in SUBSET Tasks
      /\ Fits(leaked[j])
      /\ ProperQueue(s.wait_list, ReadCallers)
  BY <1>1, LedgerSets DEF FewLeaks, Fits
<1>8. Balanced(s, Readers(j), Writers(j), leaked[j])
  BY <1>1 DEF LedgersBalanced
<1>9. t \notin Waiters(s.wait_list) /\ t \notin ReadCallers
  BY <1>1, WaitsAt DEF ReadCallers
<1>10. Moves(t, j, r)
  BY <1>1, <1>3 DEF Moves
<1>11. LET served == (Waiters(s.wait_list) \cup {t}) \ Waiters(r.wait_list)
       IN  /\ r \in Semaphore /\ ProperQueue(r.wait_list, ReadCallers)
           /\ Waiters(r.wait_list) \subseteq Waiters(s.wait_list) \cup {t}
           /\ Balanced(r, Readers(j) \cup (served \cap ReadCallers),
                       Writers(j) \cup (served \ ReadCallers), leaked[j])
  <2> HIDE DEF IInv, s
  <2> QED
    BY <1>7, <1>8, <1>9, DownWriteBalanced, Zenon
<1>12. call' = [call EXCEPT ![t].pc = "check"]
  BY <1>1 DEF Goto
<1> HIDE DEF r
<1>13. QueuesProper' /\ LedgersBalanced'
  BY <1>1, <1>10, <1>11, <1>12, TakeStep, Zenon
<1>14. TypeOK' /\ NoneLeaked'
  BY <1>1, <1>3, <1>11 DEF TypeOK, NoneLeaked
<1> QED
  BY <1>6, <1>13, <1>14

\* What an action that is neither Start nor a down has to show if the semaphores
\* stay as they are,
LEMMA StillKeeps ==
    ASSUME IInv, FewLeaks, NEW t \in Tasks, NEW j \in Inodes,
           UNCHANGED <<tlabel, ilabel, sem>>, data' \in [Fifos -> 0..PIPE_BUFFERS],
           call' \in [Tasks -> Call], \A u \in Tasks \ {t} : call'[u] = call[u],
           call[t].pc # "check" \/ ~Queued(t), Shape(call'[t]),
           \A a \in Cleared(t)' : a \in Cleared(t) \/ difc_inode_permission(t, a[1], a[2]),
           OwnElsewhere(t, j),
           HoldsWrite(t, j)' <=> HoldsWrite(t, j), KeepsOrLeaks(t, j)
    PROVE  IInv'
<1> USE DEF IInv
<1>1. CallShape' /\ FlowAllowed'
  BY CallStep
<1>2. \A i \in Inodes : t \notin Waiters(sem[i].wait_list)
  BY NotQueued
<1>3. QueuesProper' /\ LedgersBalanced'
  BY <1>2, StillStep
<1>4. leaked' \in [Inodes -> Nat] /\ NoneLeaked'
  BY DEF TypeOK, NoneLeaked, KeepsOrLeaks
<1>5. TypeOK'
  BY <1>4 DEF TypeOK
<1> QED
  BY <1>1, <1>3, <1>4, <1>5

\* and if it gives back the hold of j.
LEMMA GiveKeeps ==
    ASSUME IInv, FewLeaks, NEW t \in Tasks, NEW j \in Inodes,
           UNCHANGED <<tlabel, ilabel, data, leaked>>, sem' = [sem EXCEPT ![j] = up_read(sem[j])],
           call' \in [Tasks -> Call], \A u \in Tasks \ {t} : call'[u] = call[u],
           call[t].pc # "check" \/ ~Queued(t), Shape(call'[t]),
           Cleared(t)' \subseteq Cleared(t),
           OwnElsewhere(t, j), HoldsRead(t, j),
           ~HoldsRead(t, j)', ~HoldsWrite(t, j)'
    PROVE  IInv'
<1> USE DEF IInv
<1>1. CallShape' /\ FlowAllowed'
  BY CallStep
<1>2. \A i \in Inodes : t \notin Waiters(sem[i].wait_list)
  BY NotQueued
<1>3. OwnGone(t, j) /\ Moves(t, j, up_read(sem[j]))
  BY <1>2 DEF OwnGone, Moves
<1>4. up_read(sem[j]) \in Semaphore /\ QueuesProper' /\ LedgersBalanced'
  BY <1>3, GiveStep
<1>5. TypeOK' /\ NoneLeaked'
  BY <1>4 DEF TypeOK, NoneLeaked
<1> QED
  BY <1>1, <1>4, <1>5

LEMMA PermissionKeeps ==
    ASSUME IInv, FewLeaks, NEW t \in Tasks, Permission(t)
    PROVE  IInv'
<1> USE DEF IInv
<1> DEFINE c == call[t]
<1>0. PICK j \in Inodes : j = c.at
  BY DEF TypeOK, Call
<1> USE <1>0
<1>1. /\ c.pc = "check" /\ c.path # "relabel" /\ ~Queued(t) /\ j \in Inodes
      /\ UNCHANGED <<tlabel, ilabel, data, leaked>> /\ Shape(c)
      /\ data \in [Fifos -> 0..PIPE_BUFFERS]
  BY DEF Permission, TypeOK, Call, CallShape
<1>2. {"out", "io", "up"} \subseteq Stages
  BY DEF Stages
<1>3. t \notin Waiters(sem[j].wait_list)
  BY <1>1, NotQueued
<1>4. CASE /\ c.path = "exec" \/ difc_inode_permission(t, j, Mode(c))
           /\ Goto(t, IF Sendfile(c.path) /\ Mode(c) = "read" THEN "out" ELSE "io")
           /\ UNCHANGED sem
  <2> DEFINE pc == IF Sendfile(c.path) /\ Mode(c) = "read" THEN "out" ELSE "io"
  <2>1. /\ call' \in [Tasks -> Call] /\ \A u \in Tasks \ {t} : call'[u] = call[u]
        /\ call'[t].pc = pc /\ call'[t].path = call[t].path
        /\ call'[t].file = call[t].file /\ call'[t].at = call[t].at
    <3>1. pc \in Stages /\ Goto(t, pc)
      BY <1>2, <1>4
    <3> QED
      BY <3>1, GotoCall
  <2>2. Sendfile(c.path) => (Mode(c) = "read" <=> c.at = c.file)
    BY DEF Mode, Sendfile
  <2>3. Shape(call'[t])
    BY <1>1, <2>1, <2>2 DEF Shape
  <2>4. Mode(call'[t]) = Mode(c)
    BY <2>1 DEF Mode
  <2>5. \A a \in Cleared(t)' : a \in Cleared(t) \/ difc_inode_permission(t, a[1], a[2])
    <3> SUFFICES ASSUME NEW a \in Cleared(t)', a \notin Cleared(t)
                 PROVE  difc_inode_permission(t, a[1], a[2])
      OBVIOUS
    <3>1. c.path # "exec" => difc_inode_permission(t, j, Mode(c))
      BY <1>4
    <3>2. CASE a = <<c.file, "read">> /\ Sendfile(c.path)
      <4>1. a[1] = c.file /\ a[2] = "read" /\ c.path # "exec"
        BY <3>2 DEF Sendfile
      <4>2. c.at = c.file
        BY <1>1, <3>2 DEF Cleared
      <4> QED
        BY <2>2, <3>1, <3>2, <4>1, <4>2
    <3>3. CASE a = <<c.at, Mode(c)>> /\ c.path # "exec"
      BY <3>1, <3>3
    <3> QED
      BY <2>1, <2>4, <3>2, <3>3 DEF Cleared
  <2>6. OwnElsewhere(t, j)
    BY <1>1, <1>4, <2>1, <2>2 DEF OwnElsewhere, HoldsRead, HoldsWrite
  <2>7. /\ HoldsRead(t, j)' <=> HoldsRead(t, j)
        /\ HoldsWrite(t, j)' <=> HoldsWrite(t, j)
    BY <1>1, <1>3, <2>1, <2>2 DEF HoldsRead, HoldsWrite
  <2> QED
    BY <1>1, <1>4, <2>1, <2>3, <2>5, <2>6, <2>7, StillKeeps DEF KeepsOrLeaks
<1>5. CASE /\ c.path # "exec" /\ ~difc_inode_permission(t, j, Mode(c))
           /\ sem' = [sem EXCEPT ![j] = up_read(sem[j])]
           /\ IF Sendfile(c.path) /\ Mode(c) = "write" THEN Goto(t, "up") ELSE Return(t)
  <2>0. HoldsRead(t, j)
    BY <1>1, <1>3 DEF HoldsRead
  <2>1. CASE Sendfile(c.path) /\ Mode(c) = "write"
    <3>1. Goto(t, "up")
      BY <1>5, <2>1
    <3>2. /\ call' \in [Tasks -> Call] /\ \A u \in Tasks \ {t} : call'[u] = call[u]
          /\ call'[t].pc = "up" /\ call'[t].path = call[t].path
          /\ call'[t].file = call[t].file /\ call'[t].at = call[t].at
      BY <1>2, <3>1, GotoCall
    <3>3. c.at # c.file
      BY <2>1 DEF Mode, Sendfile
    <3>4. Shape(call'[t]) /\ Cleared(t)' = {}
      BY <1>1, <3>2 DEF Shape, Cleared
    <3>5. OwnElsewhere(t, j)
      BY <1>1, <2>1, <3>2, <3>3 DEF OwnElsewhere, HoldsRead, HoldsWrite
    <3>6. ~HoldsRead(t, j)' /\ ~HoldsWrite(t, j)'
      BY <1>1, <3>2, <3>3 DEF HoldsRead, HoldsWrite
    <3> QED
      BY <1>1, <1>5, <2>0, <3>2, <3>4, <3>5, <3>6, GiveKeeps
  <2>2. CASE ~(Sendfile(c.path) /\ Mode(c) = "write")
    <3>1. Return(t)
      BY <1>5, <2>2
    <3>2. /\ call' \in [Tasks -> Call] /\ \A u \in Tasks \ {t} : call'[u] = call[u]
          /\ call'[t].pc = "idle" /\ call'[t].path = "read" /\ call'[t].file = call'[t].at
      BY <3>1, ReturnCall
    <3>3. c.at = c.file
      BY <1>1, <2>2 DEF Mode, Shape
    <3>4. /\ Shape(call'[t]) /\ Cleared(t)' = {}
          /\ \A i \in Inodes : ~HoldsRead(t, i)' /\ ~HoldsWrite(t, i)'
      BY <3>2, ReturnedHoldsNothing
    <3>5. \A i \in Inodes \ {j} : ~HoldsRead(t, i) /\ ~HoldsWrite(t, i)
      BY <1>1, <3>3 DEF HoldsRead, HoldsWrite
    <3>6. OwnElsewhere(t, j)
      BY <3>4, <3>5 DEF OwnElsewhere
    <3> QED
      BY <1>1, <1>5, <2>0, <3>2, <3>4, <3>6, GiveKeeps
  <2> QED
    BY <2>1, <2>2
<1> QED
  BY <1>4, <1>5 DEF Permission

LEMMA SendfileOutKeeps ==
    ASSUME IInv, FewLeaks, NEW t \in Tasks, SendfileOut(t)
    PROVE  IInv'
<1> USE DEF IInv
<1> DEFINE c == call[t]
<1>0. PICK j \in Inodes : j = c.file
  BY DEF TypeOK, Call
<1> USE <1>0
<1>1. /\ c.pc = "out" /\ j \in Inodes /\ c \in Call /\ Shape(c)
      /\ UNCHANGED <<tlabel, ilabel, sem, data, leaked>>
      /\ data \in [Fifos -> 0..PIPE_BUFFERS]
  BY DEF SendfileOut, TypeOK, Call, CallShape
<1>2. Sendfile(c.path) /\ c.at = c.file /\ c.file \in Files /\ c.path \in Paths
      /\ c.path # "relabel"
  BY <1>1 DEF Shape, Sendfile
<1>3. CASE Goto(t, "up")
  <2>1. /\ call' \in [Tasks -> Call] /\ \A u \in Tasks \ {t} : call'[u] = call[u]
        /\ call'[t].pc = "up" /\ call'[t].path = call[t].path
        /\ call'[t].file = call[t].file /\ call'[t].at = call[t].at
    BY <1>3, GotoCall DEF Stages
  <2>2. Shape(call'[t]) /\ Cleared(t)' = {}
    BY <1>1, <1>2, <2>1 DEF Shape, Cleared
  <2>3. OwnElsewhere(t, j)
    BY <1>1, <1>2, <2>1 DEF OwnElsewhere, HoldsRead, HoldsWrite
  <2>4. /\ HoldsRead(t, j)' <=> HoldsRead(t, j)
        /\ HoldsWrite(t, j)' <=> HoldsWrite(t, j)
    BY <1>1, <1>2, <2>1 DEF HoldsRead, HoldsWrite
  <2> QED
    BY <1>1, <2>1, <2>2, <2>3, <2>4, StillKeeps DEF KeepsOrLeaks
<1>4. ASSUME NEW g \in Socks, call' = [call EXCEPT ![t] = [@ EXCEPT !.at = g, !.pc = "down"]]
      PROVE  IInv'
  <2>1. /\ call' \in [Tasks -> Call] /\ \A u \in Tasks \ {t} : call'[u] = call[u]
        /\ call'[t].pc = "down" /\ call'[t].path = call[t].path
        /\ call'[t].file = call[t].file /\ call'[t].at = g
    <3>1. g \in Inodes /\ "down" \in Stages
      BY DEF Inodes, Stages
    <3>2. call'[t] = [c EXCEPT !.at = g, !.pc = "down"]
      BY <1>4 DEF TypeOK
    <3>3. call'[t] \in Call
      BY <1>1, <3>1, <3>2 DEF Call
    <3> QED
      BY <1>1, <1>4, <3>2, <3>3 DEF TypeOK, Call
  <2>2. g # c.file
    BY <1>2, LabelSemAssumption
  <2>3. Shape(call'[t]) /\ Cleared(t)' \subseteq Cleared(t)
    BY <1>1, <1>2, <2>1, <2>2 DEF Shape, Cleared
  <2>4. OwnElsewhere(t, j)
    BY <1>1, <1>2, <2>1, <2>2 DEF OwnElsewhere, HoldsRead, HoldsWrite
  <2>5. /\ HoldsRead(t, j)' <=> HoldsRead(t, j)
        /\ HoldsWrite(t, j)' <=> HoldsWrite(t, j)
    BY <1>1, <1>2, <2>1, <2>2 DEF HoldsRead, HoldsWrite
  <2> QED
    BY <1>1, <2>1, <2>3, <2>4, <2>5, StillKeeps DEF KeepsOrLeaks
<1> QED
  BY <1>3, <1>4 DEF SendfileOut

\* The exits of sendfile from its transfer: at its end, at a bad position, and at
\* an overflow, which leaks the hold of out_file.
LEMMA SendfileExitKeeps ==
    ASSUME IInv, FewLeaks, NEW t \in Tasks, call[t].pc = "io", Sendfile(call[t].path),
           UNCHANGED <<tlabel, ilabel, sem>>, data' \in [Fifos -> 0..PIPE_BUFFERS],
           \/ Goto(t, "up_out") /\ UNCHANGED leaked
           \/ Goto(t, "up") /\ call[t].path \in LeakPaths /\ Leak(call[t].at)
    PROVE  IInv'
<1> USE DEF IInv
<1> DEFINE c == call[t]
<1>0. PICK j \in Inodes : j = c.at
  BY DEF TypeOK, Call
<1> USE <1>0
<1>1. j \in Inodes /\ Shape(c) /\ {"up", "up_out"} \subseteq Stages
  BY DEF TypeOK, Call, CallShape, Stages
<1>2. c.at # c.file /\ c.path # "relabel"
  BY <1>1 DEF Shape, Sendfile
<1>3. PICK pc \in {"up_out", "up"} :
          /\ Goto(t, pc)
          /\ pc = "up_out" => UNCHANGED leaked
          /\ pc = "up" => c.path \in LeakPaths /\ Leak(j)
  OBVIOUS
<1>4. /\ call' \in [Tasks -> Call] /\ \A u \in Tasks \ {t} : call'[u] = call[u]
      /\ call'[t].pc = pc /\ call'[t].path = call[t].path
      /\ call'[t].file = call[t].file /\ call'[t].at = call[t].at
  BY <1>1, <1>3, GotoCall
<1>5. Shape(call'[t]) /\ Cleared(t)' = {}
  BY <1>1, <1>2, <1>4 DEF Shape, Cleared
<1>6. OwnElsewhere(t, j)
  BY <1>2, <1>4 DEF OwnElsewhere, HoldsRead, HoldsWrite
<1>7. /\ HoldsWrite(t, j)' <=> HoldsWrite(t, j)
      /\ pc = "up_out" => (HoldsRead(t, j)' <=> HoldsRead(t, j))
      /\ HoldsRead(t, j) /\ (pc = "up" => ~HoldsRead(t, j)')
  BY <1>2, <1>4 DEF HoldsRead, HoldsWrite
<1>8. pc = "up" => ~LeakFree
  BY <1>1, <1>3 DEF Shape, LeakFree
<1>9. KeepsOrLeaks(t, j)
  BY <1>3, <1>7, <1>8 DEF KeepsOrLeaks, Leak
<1> QED
  BY <1>1, <1>4, <1>5, <1>6, <1>7, <1>9, StillKeeps

\* The returns without a release: of vfs_readdir and of a failed aio_setup_iocb.
LEMMA LeakingReturnKeeps ==
    ASSUME IInv, FewLeaks, NEW t \in Tasks, call[t].pc = "io", ~Sendfile(call[t].path),
           call[t].path \in LeakPaths, Return(t), Leak(call[t].at),
           UNCHANGED <<tlabel, ilabel, sem>>, data' \in [Fifos -> 0..PIPE_BUFFERS]
    PROVE  IInv'
<1> USE DEF IInv
<1> DEFINE c == call[t]
<1>0. PICK j \in Inodes : j = c.at
  BY DEF TypeOK, Call
<1> USE <1>0
<1>1. j \in Inodes /\ Shape(c)
  BY DEF TypeOK, Call, CallShape
<1>2. c.at = c.file /\ c.path # "relabel" /\ ~LeakFree
  BY <1>1 DEF Shape, LeakFree, LeakPaths
<1>3. /\ call' \in [Tasks -> Call] /\ \A u \in Tasks \ {t} : call'[u] = call[u]
      /\ call'[t].pc = "idle" /\ call'[t].path = "read" /\ call'[t].file = call'[t].at
  BY ReturnCall
<1>4. /\ Shape(call'[t]) /\ Cleared(t)' = {}
      /\ \A i \in Inodes : ~HoldsRead(t, i)' /\ ~HoldsWrite(t, i)'
  BY <1>3, ReturnedHoldsNothing
<1>5. /\ \A i \in Inodes \ {j} : ~HoldsRead(t, i) /\ ~HoldsWrite(t, i)
      /\ ~HoldsWrite(t, j) /\ HoldsRead(t, j)
  BY <1>2 DEF HoldsRead, HoldsWrite
<1>6. OwnElsewhere(t, j)
  BY <1>4, <1>5 DEF OwnElsewhere
<1>7. KeepsOrLeaks(t, j)
  BY <1>2, <1>4, <1>5 DEF KeepsOrLeaks, Leak
<1> QED
  BY <1>1, <1>3, <1>4, <1>5, <1>6, <1>7, StillKeeps

\* A transfer through a FIFO never takes it beyond its capacity.
LEMMA TransferData ==
    ASSUME TypeOK, NEW t \in Tasks, Transfer(t)
    PROVE  data' \in [Fifos -> 0..PIPE_BUFFERS]
<1> DEFINE j == call[t].at
<1>0. data \in [Fifos -> 0..PIPE_BUFFERS]
  BY DEF TypeOK
<1>1. PIPE_BUFFERS \in Nat
  BY LabelSemAssumption
<1>2. \A n \in 0..PIPE_BUFFERS : PipeWrite(n) \in 0..PIPE_BUFFERS
  BY <1>1 DEF PipeWrite
<1>3. CASE UNCHANGED data
  BY <1>0, <1>3
<1>4. CASE j \in Fifos /\ data[j] > 0 /\ data' = [data EXCEPT ![j] = @ - 1]
  <2>1. data[j] \in 0..PIPE_BUFFERS
    BY <1>0, <1>4
  <2>2. data[j] - 1 \in 0..PIPE_BUFFERS
    BY <1>1, <1>4, <2>1
  <2> QED
    BY <1>0, <1>4, <2>2
<1>5. CASE j \in Fifos /\ data' = [data EXCEPT ![j] = PipeWrite(@)]
  BY <1>0, <1>2, <1>5
<1> QED
  BY <1>3, <1>4, <1>5 DEF Transfer

LEMMA TransferKeeps ==
    ASSUME IInv, FewLeaks, NEW t \in Tasks, Transfer(t)
    PROVE  IInv'
<1> USE DEF IInv
<1> DEFINE c == call[t]
<1>0. PICK j \in Inodes : j = c.at
  BY DEF TypeOK, Call
<1> USE <1>0
<1>1. /\ c.pc = "io" /\ c.path # "aio_fail" /\ j \in Inodes /\ Shape(c)
      /\ UNCHANGED <<tlabel, ilabel, sem>> /\ data \in [Fifos -> 0..PIPE_BUFFERS]
  BY DEF Transfer, TypeOK, Call, CallShape
<1>2. data' \in [Fifos -> 0..PIPE_BUFFERS]
  BY TransferData
<1>3. CASE c.path = "readdir" /\ Return(t) /\ Leak(c.at)
  BY <1>1, <1>2, <1>3, LeakingReturnKeeps DEF LeakPaths, Sendfile
<1>4. CASE Sendfile(c.path) /\ Goto(t, "up_out") /\ UNCHANGED leaked
  BY <1>1, <1>2, <1>4, SendfileExitKeeps
<1>5. CASE c.path # "readdir" /\ ~Sendfile(c.path) /\ Goto(t, "up") /\ UNCHANGED leaked
  <2>1. /\ call' \in [Tasks -> Call] /\ \A u \in Tasks \ {t} : call'[u] = call[u]
        /\ call'[t].pc = "up" /\ call'[t].path = call[t].path
        /\ call'[t].file = call[t].file /\ call'[t].at = call[t].at
    BY <1>5, GotoCall DEF Stages
  <2>2. c.at = c.file /\ c.path # "relabel"
    BY <1>1, <1>5 DEF Shape
  <2>3. Shape(call'[t]) /\ Cleared(t)' = {}
    BY <1>1, <1>5, <2>1 DEF Shape, Cleared
  <2>4. OwnElsewhere(t, j)
    BY <1>1, <2>1, <2>2 DEF OwnElsewhere, HoldsRead, HoldsWrite
  <2>5. /\ HoldsRead(t, j)' <=> HoldsRead(t, j)
        /\ HoldsWrite(t, j)' <=> HoldsWrite(t, j)
    BY <1>1, <2>1, <2>2 DEF HoldsRead, HoldsWrite
  <2> QED
    BY <1>1, <1>2, <1>5, <2>1, <2>3, <2>4, <2>5, StillKeeps DEF KeepsOrLeaks
<1> QED
  BY <1>3, <1>4, <1>5 DEF Transfer

LEMMA ReleaseOutKeeps ==
    ASSUME IInv, FewLeaks, NEW t \in Tasks, ReleaseOut(t)
    PROVE  IInv'
<1> USE DEF IInv
<1> DEFINE c == call[t]
<1>0. PICK j \in Inodes : j = c.at
  BY DEF TypeOK, Call
<1> USE <1>0
<1>1. /\ c.pc = "up_out" /\ j \in Inodes /\ Shape(c) /\ Goto(t, "up")
      /\ sem' = [sem EXCEPT ![j] = up_read(sem[j])] /\ UNCHANGED <<tlabel, ilabel, data, leaked>>
  BY DEF ReleaseOut, TypeOK, Call, CallShape
<1>2. Sendfile(c.path) /\ c.at # c.file /\ c.path # "relabel"
  BY <1>1 DEF Shape, Sendfile
<1>3. /\ call' \in [Tasks -> Call] /\ \A u \in Tasks \ {t} : call'[u] = call[u]
      /\ call'[t].pc = "up" /\ call'[t].path = call[t].path
      /\ call'[t].file = call[t].file /\ call'[t].at = call[t].at
  BY <1>1, GotoCall DEF Stages
<1>4. Shape(call'[t]) /\ Cleared(t)' = {}
  BY <1>1, <1>2, <1>3 DEF Shape, Cleared
<1>5. OwnElsewhere(t, j)
  BY <1>1, <1>2, <1>3 DEF OwnElsewhere, HoldsRead, HoldsWrite
<1>6. HoldsRead(t, j) /\ ~HoldsRead(t, j)' /\ ~HoldsWrite(t, j)'
  BY <1>1, <1>2, <1>3 DEF HoldsRead, HoldsWrite
<1> QED
  BY <1>1, <1>3, <1>4, <1>5, <1>6, GiveKeeps

LEMMA ReleaseKeeps ==
    ASSUME IInv, FewLeaks, NEW t \in Tasks, Release(t)
    PROVE  IInv'
<1> USE DEF IInv
<1> DEFINE c == call[t]
<1>0. PICK j \in Inodes : j = c.file
  BY DEF TypeOK, Call
<1> USE <1>0
<1>1. /\ c.pc = "up" /\ c.path # "relabel" /\ j \in Inodes /\ Return(t)
      /\ sem' = [sem EXCEPT ![j] = up_read(sem[j])] /\ UNCHANGED <<tlabel, ilabel, data, leaked>>
  BY DEF Release, TypeOK, Call
<1>2. /\ call' \in [Tasks -> Call] /\ \A u \in Tasks \ {t} : call'[u] = call[u]
      /\ call'[t].pc = "idle" /\ call'[t].path = "read" /\ call'[t].file = call'[t].at
  BY <1>1, ReturnCall
<1>3. /\ Shape(call'[t]) /\ Cleared(t)' = {}
      /\ \A i \in Inodes : ~HoldsRead(t, i)' /\ ~HoldsWrite(t, i)'
  BY <1>2, ReturnedHoldsNothing
<1>4. HoldsRead(t, j) /\ \A i \in Inodes \ {j} : ~HoldsRead(t, i) /\ ~HoldsWrite(t, i)
  BY <1>1 DEF HoldsRead, HoldsWrite
<1>5. OwnElsewhere(t, j)
  BY <1>3, <1>4 DEF OwnElsewhere
<1> QED
  BY <1>1, <1>2, <1>3, <1>4, <1>5, GiveKeeps

LEMMA CheckRelabelKeeps ==
    ASSUME IInv, FewLeaks, NEW t \in Tasks, CheckRelabel(t)
    PROVE  IInv'
<1> USE DEF IInv
<1> DEFINE c == call[t]
<1>0. PICK j \in Inodes : j = c.at
  BY DEF TypeOK, Call
<1> USE <1>0
<1>1. /\ c.pc = "check" /\ c.path = "relabel" /\ ~Queued(t) /\ j \in Inodes /\ Shape(c)
      /\ UNCHANGED <<tlabel, ilabel, sem, data, leaked>>
      /\ data \in [Fifos -> 0..PIPE_BUFFERS]
      /\ \E pc \in {"commit", "up"} : Goto(t, pc)
  BY DEF CheckRelabel, TypeOK, Call, CallShape
<1>2. PICK pc \in {"commit", "up"} : Goto(t, pc)
  BY <1>1
<1>3. /\ call' \in [Tasks -> Call] /\ \A u \in Tasks \ {t} : call'[u] = call[u]
      /\ call'[t].pc = pc /\ call'[t].path = call[t].path
      /\ call'[t].file = call[t].file /\ call'[t].at = call[t].at
  BY <1>2, GotoCall DEF Stages
<1>4. t \notin Waiters(sem[j].wait_list)
  BY <1>1, NotQueued
<1>5. ~Sendfile(c.path)
  BY <1>1 DEF Sendfile
<1>6. Shape(call'[t]) /\ Cleared(t)' = {}
  BY <1>1, <1>3, <1>5 DEF Shape, Cleared
<1>7. OwnElsewhere(t, j)
  BY <1>1, <1>3, <1>5 DEF OwnElsewhere, HoldsRead, HoldsWrite
<1>8. /\ HoldsRead(t, j)' <=> HoldsRead(t, j)
      /\ HoldsWrite(t, j)' <=> HoldsWrite(t, j)
  BY <1>1, <1>3, <1>4, <1>5 DEF HoldsRead, HoldsWrite
<1> QED
  BY <1>1, <1>3, <1>6, <1>7, <1>8, StillKeeps DEF KeepsOrLeaks

\* No allowed access is under way on the inode whose label changes.
LEMMA CommitKeeps ==
    ASSUME IInv, FewLeaks, NEW t \in Tasks, Commit(t)
    PROVE  IInv'
<1> USE DEF IInv
<1> DEFINE c == call[t]
<1>0. PICK j \in Inodes : j = c.at
  BY DEF TypeOK, Call
<1> USE <1>0
<1>1. /\ c.pc = "commit" /\ j \in Inodes /\ Shape(c) /\ Goto(t, "up") /\ c.new \in Labels
      /\ ilabel' = [ilabel EXCEPT ![j] = c.new] /\ UNCHANGED <<tlabel, sem, data, leaked>>
  BY DEF Commit, TypeOK, Call, CallShape
<1>2. c.path = "relabel" /\ ~Sendfile(c.path)
  BY <1>1 DEF Shape, Sendfile
<1>3. /\ call' \in [Tasks -> Call] /\ \A u \in Tasks \ {t} : call'[u] = call[u]
      /\ call'[t].pc = "up" /\ call'[t].path = call[t].path
      /\ call'[t].file = call[t].file /\ call'[t].at = call[t].at
  BY <1>1, GotoCall DEF Stages
<1>4. Shape(call'[t]) /\ Cleared(t)' = {}
  BY <1>1, <1>2, <1>3 DEF Shape, Cleared
<1>5. CallShape'
  <2> SUFFICES ASSUME NEW u \in Tasks PROVE Shape(call'[u])
    BY DEF CallShape, Shape, Sendfile
  <2> QED
    BY <1>3, <1>4 DEF CallShape
<1>6. t \in Writers(j)
  BY <1>1, <1>2 DEF Writers, HoldsWrite
<1>7. Readers(j) = {}
  <2>1. Balanced(sem[j], Readers(j), Writers(j), leaked[j])
    BY <1>1 DEF LedgersBalanced
  <2> QED
    BY <1>6, <2>1 DEF Balanced
<1>8. FlowAllowed'
  <2> SUFFICES ASSUME NEW u \in Tasks, NEW a \in Cleared(u)'
               PROVE  difc_inode_permission(u, a[1], a[2])'
    BY DEF FlowAllowed
  <2>1. u # t
    BY <1>4
  <2>2. a \in Cleared(u)
    BY <1>3, <2>1 DEF Cleared, Mode, Sendfile
  <2>3. difc_inode_permission(u, a[1], a[2])
    BY <2>2 DEF FlowAllowed
  <2>4. a[1] # j
    <3>1. HoldsRead(u, a[1])
      BY <2>2, ClearedHeld
    <3> QED
      BY <1>7, <3>1 DEF Readers
  <2>5. a[1] \in Inodes
    <3>1. call[u].at \in Inodes /\ call[u].file \in Inodes
      BY DEF TypeOK, Call
    <3> QED
      BY <2>2, <3>1 DEF Cleared
  <2>6. ilabel'[a[1]] = ilabel[a[1]] /\ tlabel' = tlabel
    BY <1>1, <2>4, <2>5 DEF TypeOK
  <2> QED
    BY <2>3, <2>6 DEF difc_inode_permission
<1>9. OwnElsewhere(t, j)
  BY <1>1, <1>2, <1>3 DEF OwnElsewhere, HoldsRead, HoldsWrite
<1>10. /\ HoldsRead(t, j)' <=> HoldsRead(t, j)
       /\ HoldsWrite(t, j)' <=> HoldsWrite(t, j)
  BY <1>1, <1>2, <1>3 DEF HoldsRead, HoldsWrite
<1>11. \A i \in Inodes : t \notin Waiters(sem[i].wait_list)
  BY <1>1, NotQueued
<1>12. QueuesProper' /\ LedgersBalanced'
  BY <1>1, <1>3, <1>9, <1>10, <1>11, StillStep DEF KeepsOrLeaks
<1>13. TypeOK' /\ NoneLeaked'
  BY <1>1, <1>3 DEF TypeOK, NoneLeaked
<1> QED
  BY <1>5, <1>8, <1>12, <1>13

LEMMA ReleaseWriteKeeps ==
    ASSUME IInv, FewLeaks, NEW t \in Tasks, ReleaseWrite(t)
    PROVE  IInv'
<1> USE DEF IInv
<1> DEFINE c == call[t]
<1>0. PICK j \in Inodes : j = c.file
  BY DEF TypeOK, Call
<1> USE <1>0
<1>1. /\ c.pc = "up" /\ c.path = "relabel" /\ j \in Inodes /\ Return(t) /\ Shape(c)
      /\ sem' = [sem EXCEPT ![j] = up_write(sem[j])]
      /\ UNCHANGED <<tlabel, ilabel, data, leaked>>
  BY DEF ReleaseWrite, TypeOK, Call, CallShape
<1>2. c.at = c.file
  BY <1>1 DEF Shape, Sendfile
<1>3. /\ call' \in [Tasks -> Call] /\ \A u \in Tasks \ {t} : call'[u] = call[u]
      /\ call'[t].pc = "idle" /\ call'[t].path = "read" /\ call'[t].file = call'[t].at
  BY <1>1, ReturnCall
<1>4. /\ Shape(call'[t]) /\ Cleared(t)' = {}
      /\ \A i \in Inodes : ~HoldsRead(t, i)' /\ ~HoldsWrite(t, i)'
  BY <1>3, ReturnedHoldsNothing
<1>5. HoldsWrite(t, j) /\ \A i \in Inodes \ {j} : ~HoldsRead(t, i) /\ ~HoldsWrite(t, i)
  BY <1>1, <1>2 DEF HoldsRead, HoldsWrite
<1>6. CallShape' /\ FlowAllowed'
  BY <1>1, <1>3, <1>4, CallStep
<1>7. \A i \in Inodes : t \notin Waiters(sem[i].wait_list)
  BY <1>1, NotQueued
<1>8. OwnGone(t, j) /\ Moves(t, j, up_write(sem[j]))
  <2>1. OwnElsewhere(t, j)
    BY <1>4, <1>5 DEF OwnElsewhere
  <2>2. OwnGone(t, j)
    BY <1>1, <1>4, <1>7, <2>1 DEF OwnGone
  <2> QED
    BY <1>1, <1>3, <2>2 DEF Moves
<1>9. up_write(sem[j]) \in Semaphore /\ QueuesProper' /\ LedgersBalanced'
  BY <1>1, <1>5, <1>8, GiveWriteStep
<1>10. TypeOK' /\ NoneLeaked'
  BY <1>1, <1>3, <1>9 DEF TypeOK, NoneLeaked
<1> QED
  BY <1>6, <1>9, <1>10

\* Where neither a semaphore nor a call changes.
LEMMA SameSemsAndCalls ==
    ASSUME CallShape, QueuesProper, LedgersBalanced,
           sem' = sem, call' = call, leaked' = leaked
    PROVE  CallShape' /\ QueuesProper' /\ LedgersBalanced'
<1>1. CallShape'
  BY DEF CallShape, Shape, Sendfile
<1>2. QueuesProper'
  <2>1. ReadCallers' = ReadCallers
    BY DEF ReadCallers
  <2>2. ASSUME NEW i \in Inodes
        PROVE  /\ ProperQueue(sem'[i].wait_list, ReadCallers')
               /\ \A u \in Waiters(sem'[i].wait_list) :
                      call'[u].pc = "check" /\ call'[u].at = i
    BY <2>1, Zenon DEF QueuesProper
  <2> QED
    BY <2>2 DEF QueuesProper, ProperQueue, Waiters
<1>3. LedgersBalanced'
  <2>1. \A i \in Inodes : /\ Readers(i)' = Readers(i) /\ Writers(i)' = Writers(i)
    BY DEF Readers, Writers, HoldsRead, HoldsWrite
  <2> SUFFICES ASSUME NEW i \in Inodes
               PROVE  Balanced(sem'[i], Readers(i)', Writers(i)', leaked'[i])
    BY DEF LedgersBalanced, Balanced, ActiveHolds
  <2>2. Balanced(sem[i], Readers(i), Writers(i), leaked[i])
    BY DEF LedgersBalanced
  <2> QED
    BY <2>1, <2>2, Zenon
<1> QED
  BY <1>1, <1>2, <1>3

\* A task between file operations has no access under way.
LEMMA SetTaskLabelKeeps ==
    ASSUME IInv, FewLeaks, NEW t \in Tasks, NEW new \in Labels, SetTaskLabel(t, new)
    PROVE  IInv'
<1> USE DEF IInv
<1>1. /\ call[t].pc = "idle" /\ tlabel' = [tlabel EXCEPT ![t] = new]
      /\ UNCHANGED <<ilabel, sem, data, call, leaked>>
  BY DEF SetTaskLabel
<1>2. TypeOK' /\ NoneLeaked'
  BY <1>1 DEF TypeOK, NoneLeaked
<1>3. CallShape' /\ QueuesProper' /\ LedgersBalanced'
  BY <1>1, SameSemsAndCalls
<1>4. FlowAllowed'
  <2> SUFFICES ASSUME NEW u \in Tasks, NEW a \in Cleared(u)'
               PROVE  difc_inode_permission(u, a[1], a[2])'
    BY DEF FlowAllowed
  <2>1. a \in Cleared(u)
    BY <1>1 DEF Cleared, Mode, Sendfile
  <2>2. u # t
    BY <1>1, <2>1 DEF Cleared
  <2>3. tlabel'[u] = tlabel[u]
    BY <1>1, <2>2 DEF TypeOK
  <2> QED
    BY <1>1, <2>1, <2>3 DEF FlowAllowed, difc_inode_permission
<1> QED
  BY <1>2, <1>3, <1>4

-----------------------------------------------------------------------------
(* The steps together.                                                     *)

LEMMA InitIInv == Init => IInv
<1> SUFFICES ASSUME Init PROVE IInv
  OBVIOUS
<1>0. Idle \in Call /\ Idle.pc = "idle" /\ Idle.path = "read" /\ Idle.file = Idle.at
  <2>1. (CHOOSE i \in Inodes : TRUE) \in Inodes
    BY LabelSemAssumption
  <2> QED
    BY <2>1 DEF Idle, Call, AllPaths, Stages, Unlabeled, Labels
<1>1. /\ \A t \in Tasks : call[t] = Idle
      /\ \A i \in Inodes : sem[i] = FreeSem
  BY DEF Init
<1>2. FreeSem \in Semaphore /\ FreeSem.wait_list = <<>> /\ FreeSem.count = 0
      /\ Waiters(<<>>) = {} /\ DOMAIN <<>> = {}
  <2>1. <<>> \in Seq([task : Tasks, mode : {"read", "write"}])
    OBVIOUS
  <2> QED
    BY <2>1 DEF FreeSem, Semaphore, Waiters
<1>3. TypeOK
  <2>1. PIPE_BUFFERS \in Nat /\ Unlabeled \in Labels
    BY LabelSemAssumption DEF Unlabeled, Labels
  <2> QED
    BY <1>0, <1>2, <2>1 DEF Init, TypeOK
<1>4. CallShape
  BY <1>0, <1>1 DEF CallShape, Shape, Sendfile
<1>5. QueuesProper
  BY <1>1, <1>2 DEF QueuesProper, ProperQueue
<1>6. FlowAllowed
  BY <1>0, <1>1 DEF FlowAllowed, Cleared, Sendfile
<1>7. LedgersBalanced
  <2> SUFFICES ASSUME NEW i \in Inodes
               PROVE  Balanced(sem[i], Readers(i), Writers(i), leaked[i])
    BY DEF LedgersBalanced
  <2>1. Readers(i) = {} /\ Writers(i) = {} /\ leaked[i] = 0
    BY <1>0, <1>1 DEF Init, Readers, Writers, HoldsRead, HoldsWrite, Sendfile
  <2>2. Cardinality({}) = 0 /\ Len(<<>>) = 0
    BY FS_EmptySet
  <2>3. ActiveHolds(FreeSem, {}) = 0
    BY <1>2, <2>2 DEF ActiveHolds
  <2> QED
    BY <1>1, <2>1, <2>2, <2>3 DEF Balanced
<1>8. NoneLeaked
  BY DEF Init, NoneLeaked
<1> QED
  BY <1>3, <1>4, <1>5, <1>6, <1>7, <1>8 DEF IInv

LEMMA NextIInv == IInv /\ FewLeaks /\ [Next]_vars => IInv'
<1> SUFFICES ASSUME IInv, FewLeaks, [Next]_vars PROVE IInv'
  OBVIOUS
<1>1. CASE UNCHANGED vars
  <2>1. /\ tlabel' = tlabel /\ ilabel' = ilabel /\ sem' = sem /\ data' = data
        /\ call' = call /\ leaked' = leaked
    BY <1>1 DEF vars
  <2>2. CallShape' /\ QueuesProper' /\ LedgersBalanced'
    BY <2>1, SameSemsAndCalls DEF IInv
  <2>3. TypeOK' /\ NoneLeaked'
    BY <2>1 DEF IInv, TypeOK, NoneLeaked
  <2>4. FlowAllowed'
    BY <2>1 DEF IInv, FlowAllowed, Cleared, Mode, Sendfile, difc_inode_permission
  <2> QED
    BY <2>2, <2>3, <2>4 DEF IInv
<1>2. ASSUME NEW t \in Tasks, Step(t) PROVE IInv'
  <2>1. CASE SendfileBadPos(t) \/ SendfileOverflow(t) \/ AioSetupFails(t)
    <3>0. UNCHANGED <<tlabel, ilabel, sem>> /\ data' \in [Fifos -> 0..PIPE_BUFFERS]
          /\ call[t].pc = "io"
      BY <2>1 DEF SendfileBadPos, SendfileOverflow, AioSetupFails, IInv, TypeOK
    <3>1. CASE SendfileBadPos(t)
      BY <3>0, <3>1, SendfileExitKeeps DEF SendfileBadPos
    <3>2. CASE SendfileOverflow(t)
      BY <3>0, <3>2, SendfileExitKeeps DEF SendfileOverflow, Sendfile, LeakPaths
    <3>3. CASE AioSetupFails(t)
      BY <3>0, <3>3, LeakingReturnKeeps DEF AioSetupFails, Sendfile, LeakPaths
    <3> QED
      BY <2>1, <3>1, <3>2, <3>3
  <2> QED
    BY <1>2, <2>1, DownReadKeeps, PermissionKeeps, SendfileOutKeeps, TransferKeeps,
       ReleaseOutKeeps, ReleaseKeeps, DownWriteKeeps, CheckRelabelKeeps, CommitKeeps,
       ReleaseWriteKeeps, Zenon DEF Step
<1>3. ASSUME NEW t \in Tasks, Begin(t) PROVE IInv'
  <2>0. Unlabeled \in Labels /\ InodeLabels \subseteq Labels /\ TaskLabels \subseteq Labels
    BY LabelSemAssumption DEF Unlabeled, Labels
  <2>1. ASSUME NEW path \in Paths \ {"relabel"}, NEW f \in Inodes, Start(t, path, f, Unlabeled)
        PROVE  IInv'
    BY <2>0, <2>1, StartKeeps
  <2>2. ASSUME "relabel" \in Paths, NEW f \in Inodes, NEW new \in InodeLabels,
               Start(t, "relabel", f, new)
        PROVE  IInv'
    BY <2>0, <2>2, StartKeeps
  <2>3. ASSUME NEW new \in TaskLabels, SetTaskLabel(t, new)
        PROVE  IInv'
    BY <2>0, <2>3, SetTaskLabelKeeps
  <2> QED
    BY <1>3, <2>1, <2>2, <2>3 DEF Begin
<1> QED
  BY <1>1, <1>2, <1>3 DEF Next

-----------------------------------------------------------------------------
(* The types do not depend on how many holds are leaked.                   *)

LEMMA WakeType ==
    ASSUME NEW s \in Semaphore
    PROVE  __rwsem_do_wake(s) \in Semaphore
<1> DEFINE q == s.wait_list
           n == Cardinality(FrontReaders(q))
<1>1. q \in Seq(Waiter) /\ Len(q) \in Nat /\ s.count \in Int
  BY DEF Semaphore, Waiter
<1>2. n \in Nat /\ n <= Len(q)
  BY <1>1, FrontPrefix
<1> HIDE DEF n
<1>3. SubSeq(q, n + 1, Len(q)) \in Seq(Waiter)
  <2>1. \A k \in (n + 1)..Len(q) : q[k] \in Waiter
    BY <1>1, <1>2
  <2> QED
    BY <1>1, <1>2, <2>1, SubSeqProperties
<1>4. q # <<>> => Tail(q) \in Seq(Waiter)
  BY <1>1
<1>5. s.count + n * (1 - RWSEM_WAITING_BIAS) \in Int
  BY <1>1, <1>2 DEF RWSEM_WAITING_BIAS
<1> QED
  BY <1>1, <1>3, <1>4, <1>5 DEF __rwsem_do_wake, Semaphore, Waiter, n

LEMMA SemTypes ==
    ASSUME NEW s \in Semaphore, NEW t \in Tasks
    PROVE  /\ down_read(s, t) \in Semaphore /\ down_write(s, t) \in Semaphore
           /\ up_read(s) \in Semaphore /\ up_write(s) \in Semaphore
<1>1. /\ s.count \in Int /\ s.wait_list \in Seq(Waiter)
      /\ s = [count |-> s.count, wait_list |-> s.wait_list]
  BY DEF Semaphore, Waiter
<1>2. ASSUME NEW c \in Int
      PROVE  [s EXCEPT !.count = c] \in Semaphore
  BY <1>1 DEF Semaphore
<1>3. RWSEM_WAITING_BIAS \in Int /\ RWSEM_ACTIVE_WRITE_BIAS \in Int
  BY DEF RWSEM_WAITING_BIAS, RWSEM_ACTIVE_WRITE_BIAS
<1>4. ASSUME NEW mode \in {"read", "write"}
      PROVE  rwsem_down_failed(s, t, mode) \in Semaphore
  <2> DEFINE e == [count |-> s.count + RWSEM_WAITING_BIAS,
                   wait_list |-> Append(s.wait_list, [task |-> t, mode |-> mode])]
  <2>1. e \in Semaphore
    <3>1. [task |-> t, mode |-> mode] \in Waiter
      BY DEF Waiter
    <3>2. Append(s.wait_list, [task |-> t, mode |-> mode]) \in Seq(Waiter)
      BY <1>1, <3>1
    <3> QED
      BY <1>1, <1>3, <3>2 DEF Semaphore, Waiter
  <2> HIDE DEF e
  <2>2. __rwsem_do_wake(e) \in Semaphore
    BY <2>1, WakeType
  <2> QED
    BY <2>2 DEF rwsem_down_failed, e
<1>5. down_read(s, t) \in Semaphore
  BY <1>1, <1>2, <1>4 DEF down_read
<1>6. down_write(s, t) \in Semaphore
  BY <1>2, <1>3, <1>4 DEF down_write
<1>7. up_read(s) \in Semaphore
  <2>1. [s EXCEPT !.count = s.count - 1] \in Semaphore
    BY <1>1, <1>2
  <2> QED
    BY <2>1, WakeType DEF up_read
<1>8. up_write(s) \in Semaphore
  <2>1. [s EXCEPT !.count = s.count - RWSEM_ACTIVE_WRITE_BIAS] \in Semaphore
    BY <1>1, <1>2, <1>3
  <2> QED
    BY <2>1, WakeType DEF up_write
<1> QED
  BY <1>5, <1>6, <1>7, <1>8

LEMMA NextTypeOK == TypeOK /\ [Next]_vars => TypeOK'
<1> SUFFICES ASSUME TypeOK, [Next]_vars PROVE TypeOK'
  OBVIOUS
<1>0. Unlabeled \in Labels /\ InodeLabels \subseteq Labels /\ TaskLabels \subseteq Labels
  BY LabelSemAssumption DEF Unlabeled, Labels
<1>1. CASE UNCHANGED vars
  BY <1>1 DEF vars, TypeOK
<1>2. ASSUME NEW t \in Tasks, Step(t) PROVE TypeOK'
  <2>0. call[t].at \in Inodes /\ call[t].file \in Inodes /\ call[t].new \in Labels
    BY DEF TypeOK, Call
  <2>1. ASSUME NEW j \in Inodes, NEW r \in Semaphore, sem' = [sem EXCEPT ![j] = r]
        PROVE  sem' \in [Inodes -> Semaphore]
    BY <2>1 DEF TypeOK
  <2>2. ASSUME NEW j \in Inodes, Leak(j)
        PROVE  leaked' \in [Inodes -> Nat]
    BY <2>2 DEF TypeOK, Leak
  <2>3. ASSUME \E pc \in Stages : Goto(t, pc) PROVE call' \in [Tasks -> Call]
    BY <2>3, GotoCall
  <2>4. ASSUME Return(t) PROVE call' \in [Tasks -> Call]
    BY <2>4, ReturnCall
  <2>5. /\ down_read(sem[call[t].at], t) \in Semaphore
        /\ down_write(sem[call[t].at], t) \in Semaphore
        /\ up_read(sem[call[t].at]) \in Semaphore
        /\ up_read(sem[call[t].file]) \in Semaphore
        /\ up_write(sem[call[t].file]) \in Semaphore
    BY <2>0, SemTypes DEF TypeOK
  <2>6. {"check", "out", "io", "up", "up_out", "commit"} \subseteq Stages
    BY DEF Stages
  <2>7. CASE DownRead(t)
    BY <2>0, <2>1, <2>3, <2>5, <2>6, <2>7 DEF DownRead, TypeOK
  <2>8. CASE Permission(t)
    BY <2>0, <2>1, <2>3, <2>4, <2>5, <2>6, <2>8 DEF Permission, TypeOK
  <2>9. CASE SendfileOut(t)
    <3>1. CASE Goto(t, "up")
      BY <2>3, <2>6, <2>9, <3>1 DEF SendfileOut, TypeOK
    <3>2. ASSUME NEW g \in Socks,
                 call' = [call EXCEPT ![t] = [@ EXCEPT !.at = g, !.pc = "down"]]
          PROVE  TypeOK'
      <4>1. g \in Inodes /\ "down" \in Stages
        BY DEF Inodes, Stages
      <4>2. call' \in [Tasks -> Call]
        BY <3>2, <4>1 DEF TypeOK, Call
      <4> QED
        BY <2>9, <4>2 DEF SendfileOut, TypeOK
    <3> QED
      BY <2>9, <3>1, <3>2 DEF SendfileOut
  <2>10. CASE SendfileBadPos(t)
    BY <2>3, <2>6, <2>10 DEF SendfileBadPos, TypeOK
  <2>11. CASE SendfileOverflow(t)
    BY <2>0, <2>2, <2>3, <2>6, <2>11 DEF SendfileOverflow, TypeOK
  <2>12. CASE AioSetupFails(t)
    BY <2>0, <2>2, <2>4, <2>12 DEF AioSetupFails, TypeOK
  <2>13. CASE Transfer(t)
    <3>1. data' \in [Fifos -> 0..PIPE_BUFFERS]
      BY <2>13, TransferData
    <3>2. call' \in [Tasks -> Call] /\ leaked' \in [Inodes -> Nat]
      BY <2>0, <2>2, <2>3, <2>4, <2>6, <2>13 DEF Transfer, TypeOK
    <3> QED
      BY <2>13, <3>1, <3>2 DEF Transfer, TypeOK
  <2>14. CASE ReleaseOut(t)
    BY <2>0, <2>1, <2>3, <2>5, <2>6, <2>14 DEF ReleaseOut, TypeOK
  <2>15. CASE Release(t)
    BY <2>0, <2>1, <2>4, <2>5, <2>15 DEF Release, TypeOK
  <2>16. CASE DownWrite(t)
    BY <2>0, <2>1, <2>3, <2>5, <2>6, <2>16 DEF DownWrite, TypeOK
  <2>17. CASE CheckRelabel(t)
    BY <2>3, <2>6, <2>17 DEF CheckRelabel, TypeOK
  <2>18. CASE Commit(t)
    BY <2>0, <2>3, <2>6, <2>18 DEF Commit, TypeOK
  <2>19. CASE ReleaseWrite(t)
    BY <2>0, <2>1, <2>4, <2>5, <2>19 DEF ReleaseWrite, TypeOK
  <2> QED
    BY <1>2, <2>7, <2>8, <2>9, <2>10, <2>11, <2>12, <2>13, <2>14, <2>15, <2>16, <2>17,
       <2>18, <2>19 DEF Step
<1>3. ASSUME NEW t \in Tasks, Begin(t) PROVE TypeOK'
  <2>1. ASSUME NEW path \in Paths, NEW f \in Inodes, NEW new \in Labels,
               Start(t, path, f, new)
        PROVE  TypeOK'
    <3>1. [path |-> path, pc |-> "down", file |-> f, at |-> f, new |-> new] \in Call
      BY LabelSemAssumption DEF Call, Stages
    <3> QED
      BY <2>1, <3>1 DEF Start, TypeOK
  <2>2. ASSUME NEW new \in TaskLabels, SetTaskLabel(t, new)
        PROVE  TypeOK'
    BY <1>0, <2>2 DEF SetTaskLabel, TypeOK
  <2> QED
    BY <1>0, <1>3, <2>1, <2>2 DEF Begin
<1> QED
  BY <1>1, <1>2, <1>3 DEF Next

-----------------------------------------------------------------------------
(* The theorems.                                                           *)

\* For any number of tasks, inodes and leaked holds, the state keeps its types:
\* in particular a write to a full FIFO (pipe_write) never adds a buffer.
THEOREM TypeCorrect == Spec => []TypeOK
<1>1. Init => TypeOK
  BY InitIInv DEF IInv
<1>2. TypeOK /\ [Next]_vars => TypeOK'
  BY NextTypeOK
<1> QED
  BY <1>1, <1>2, PTL DEF Spec

\* A leaked hold is never given back.
LEMMA FewLeaksBefore ==
    ASSUME TypeOK, TypeOK', [Next]_vars, FewLeaks'
    PROVE  FewLeaks
<1>1. \A i \in Inodes : leaked[i] <= leaked'[i]
  <2>0. leaked \in [Inodes -> Nat]
    BY DEF TypeOK
  <2>1. ASSUME NEW j, Leak(j) PROVE \A i \in Inodes : leaked[i] <= leaked'[i]
    BY <2>0, <2>1 DEF Leak
  <2>2. CASE leaked' = leaked
    BY <2>0, <2>2
  <2>3. leaked' = leaked \/ \E j \in {call[t].at : t \in Tasks} : Leak(j)
    <3>1. ASSUME NEW t \in Tasks, Step(t)
          PROVE  leaked' = leaked \/ Leak(call[t].at)
      BY <3>1 DEF Step, DownRead, Permission, SendfileOut, SendfileBadPos, SendfileOverflow,
                  AioSetupFails, Transfer, ReleaseOut, Release, DownWrite, CheckRelabel,
                  Commit, ReleaseWrite
    <3>2. ASSUME NEW t \in Tasks, Begin(t)
          PROVE  leaked' = leaked
      BY <3>2 DEF Begin, Start, SetTaskLabel
    <3> QED
      BY <3>1, <3>2 DEF Next, vars
  <2> QED
    BY <2>1, <2>2, <2>3
<1>2. Cardinality(Tasks) \in Nat
  BY LedgerTypes
<1> QED
  BY <1>1, <1>2 DEF FewLeaks, TypeOK

LEMMA SpecIInv == Spec => [](FewLeaks => IInv)
<1>1. Init => TypeOK /\ IInv
  BY InitIInv DEF IInv
<1>2. /\ TypeOK /\ (FewLeaks => IInv) /\ [Next]_vars
      => TypeOK' /\ (FewLeaks => IInv)'
  BY NextTypeOK, FewLeaksBefore, NextIInv
<1> QED
  BY <1>1, <1>2, PTL DEF Spec

\* For any number of tasks and inodes, and on every path, leaking ones included,
\* an access that difc_file_permission has allowed stays allowed until its data
\* has moved, as long as the leaked holds of an inode fit into the active
\* half-word of its semaphore: until then difc_inode_set_label changes no label
\* under an access.
THEOREM NoRelabelUnderAccess == Spec => [](FewLeaks => FlowAllowed)
<1>1. (FewLeaks => IInv) => (FewLeaks => FlowAllowed)
  BY DEF IInv
<1> QED
  BY <1>1, SpecIInv, PTL

\* Without the leaking paths nothing is leaked, so that the half-word never wraps.
LEMMA LeakFreeIInv ==
    ASSUME LeakFree
    PROVE  Spec => []IInv
<1>1. IInv => FewLeaks
  <2>1. Cardinality(Tasks) \in Nat /\ Cardinality(Tasks) < 32768
    BY LedgerTypes, LabelSemAssumption
  <2> QED
    BY <2>1 DEF IInv, NoneLeaked, FewLeaks
<1>2. Init => IInv
  BY InitIInv
<1>3. IInv /\ [Next]_vars => IInv'
  BY <1>1, NextIInv
<1> QED
  BY <1>2, <1>3, PTL DEF Spec

\* When programs keep to the paths that release what they take (none of
\* sendfile's overflow exit, vfs_readdir, a failed aio_setup_iocb), no label
\* changes under an allowed access, however long the system runs.
THEOREM LeakFreeNoRelabel ==
    ASSUME LeakFree
    PROVE  Spec => []FlowAllowed
<1>1. IInv => FlowAllowed
  BY DEF IInv
<1> QED
  BY <1>1, LeakFreeIInv, PTL

\* down_write and down_read of label_change_sem exclude each other: while a task
\* has an inode's semaphore to change the label, nobody else has it.
Exclusive ==
    \A i \in Inodes : \A t \in Writers(i) : Readers(i) = {} /\ Writers(i) = {t}

\* difc_inode_set_label is alone with its inode while the leaked holds of an
\* inode fit into the active half-word of its semaphore.
THEOREM RelabelExcludes == Spec => [](FewLeaks => Exclusive)
<1>1. ASSUME IInv, NEW i \in Inodes, NEW t \in Writers(i)
      PROVE  Readers(i) = {} /\ Writers(i) = {t}
  <2>1. Writers(i) # {} /\ Writers(i) \in SUBSET Tasks
    BY DEF Writers
  <2>2. Readers(i) = {} /\ Cardinality(Writers(i)) = 1
    BY <1>1, <2>1 DEF IInv, LedgersBalanced, Balanced
  <2>3. IsFiniteSet(Writers(i) \ {t}) /\ Cardinality(Writers(i) \ {t}) = 0
    BY <2>1, <2>2, LedgerTypes, FS_RemoveElement
  <2>4. Writers(i) \ {t} = {}
    BY <2>3, FS_EmptySet
  <2> QED
    BY <2>2, <2>4
<1>2. (FewLeaks => IInv) => (FewLeaks => Exclusive)
  BY <1>1 DEF Exclusive
<1> QED
  BY <1>2, SpecIInv, PTL

\* When programs keep to the paths that release what they take (none of
\* sendfile's overflow exit, vfs_readdir, a failed aio_setup_iocb), no
\* label_change_sem is held once all file operations have returned.
THEOREM LeakFreeQuiescence ==
    ASSUME LeakFree
    PROVE  Spec => []QuiescentFree
<1>1. ASSUME IInv, \A t \in Tasks : call[t].pc = "idle", NEW i \in Inodes
      PROVE  sem[i] = FreeSem
  <2>1. /\ TypeOK /\ CallShape /\ QueuesProper
        /\ Balanced(sem[i], Readers(i), Writers(i), leaked[i])
    BY <1>1 DEF IInv, LedgersBalanced
  <2>2. Readers(i) = {} /\ Writers(i) = {}
    BY <1>1 DEF Readers, Writers, HoldsRead, HoldsWrite
  <2>3. Waiters(sem[i].wait_list) = {}
    <3>1. \A u \in Waiters(sem[i].wait_list) : u \in Tasks /\ call[u].pc = "check"
      BY <2>1, LedgerSets DEF QueuesProper
    <3> QED
      BY <1>1, <3>1
  <2>4. sem[i] \in Semaphore /\ sem[i].wait_list \in Seq(Waiter) /\ sem[i].count \in Int
    BY <2>1 DEF TypeOK, Semaphore, Waiter
  <2>5. sem[i].wait_list = <<>>
    <3>1. DOMAIN sem[i].wait_list = {}
      BY <2>3 DEF Waiters
    <3>2. Len(sem[i].wait_list) \in Nat /\ 1..Len(sem[i].wait_list) = {}
      BY <2>4, <3>1, LenProperties
    <3>3. 1 \notin 1..Len(sem[i].wait_list)
      BY <3>2
    <3>4. Len(sem[i].wait_list) = 0
      BY <3>2, <3>3
    <3> QED
      BY <2>4, <3>4, EmptySeq
  <2>6. ActiveHolds(sem[i], {}) = 0
    <3>1. leaked[i] = 0 /\ Cardinality({}) = 0
      BY <1>1, FS_EmptySet DEF IInv, NoneLeaked
    <3> QED
      BY <2>1, <2>2, <3>1 DEF Balanced
  <2>7. sem[i].count = 0
    <3>1. Cardinality({}) = 0 /\ Len(<<>>) = 0
      BY FS_EmptySet
    <3> QED
      BY <2>4, <2>5, <2>6, <3>1 DEF ActiveHolds
  <2> QED
    BY <2>4, <2>5, <2>7 DEF Semaphore, FreeSem
<1>2. IInv => QuiescentFree
  BY <1>1 DEF QuiescentFree
<1> QED
  BY <1>2, LeakFreeIInv, PTL

============================================================================
