--------------------------- MODULE JvmFilesProofs ---------------------------
(***************************************************************************)
(* Proofs about JvmFiles, for any threads, regions, labels, descriptors    *)
(* and time limits.                                                        *)
(***************************************************************************)
EXTENDS JvmFiles, TLAPS

Finished == {"no", "ready", "invalid", "timeout"}

-----------------------------------------------------------------------------
(* Time.                                                                   *)

\* What a call knows of its time: what it has used up of its limit, and what has
\* passed since, is no more than its age; a wait began after lastWaitTime.
TimeOK(c) ==
    /\ c.op = "write" => c.wait = Infinite
    /\ c.wait = Infinite <=> c.left = Infinite
    /\ c.wait # Infinite =>
         /\ c.left <= c.wait
         /\ c.age > MaxWait \/ c.age >= (c.wait - c.left) + c.last
         /\ c.pc = "wait" => c.queued <= c.last /\ c.done = 0

\* A thread found to be out of time still is, until it is taken off the queue.
TimedOut(c) == c.pc = "wait" /\ c.left # Infinite /\ c.queued > c.left

TInv ==
    /\ call \in [Threads -> Call]
    /\ finished \in [Threads -> Finished]
    /\ ioQueue \in Seq(Threads)
    /\ data \in [Fds -> 0..Capacity]
    /\ \A t \in Threads : TimeOK(call[t])
    /\ \A t \in Threads : finished[t] = "timeout" => TimedOut(call[t])
    /\ \A i \in 1..Len(ioQueue) : call[ioQueue[i]].pc = "wait"
    /\ \A i, j \in 1..Len(ioQueue) : ioQueue[i] = ioQueue[j] => i = j

\* A call that has returned, and one that begins, respect the bookkeeping.
LEMMA NoCallFacts ==
    ASSUME NEW res \in {"none", "ok", "error", "timeout"}
    PROVE  NoCall(res) \in Call /\ TimeOK(NoCall(res)) /\ NoCall(res).pc = "idle"
                /\ NoCall(res).res = res
<1>1. (CHOOSE f \in Fds : TRUE) \in Fds
  BY JvmFilesAssumption
<1>2. NoCall(res) \in Call
  BY <1>1, JvmFilesAssumption DEF NoCall, Call, Waits, Time
<1> QED
  BY <1>2 DEF NoCall, TimeOK

LEMMA EnterFacts ==
    ASSUME NEW t \in Threads, NEW f \in Fds, NEW r \in Requests[t]
    PROVE  LET c == [NoCall("none") EXCEPT !.pc = "pass", !.fd = f, !.op = r.op,
                                           !.cnt = r.cnt, !.wait = r.wait, !.left = r.wait]
           IN  c \in Call /\ TimeOK(c) /\ c.pc = "pass"
<1> DEFINE c == [NoCall("none") EXCEPT !.pc = "pass", !.fd = f, !.op = r.op,
                                       !.cnt = r.cnt, !.wait = r.wait, !.left = r.wait]
<1>1. /\ r \in [op : {"read", "write"}, cnt : Nat \ {0}, wait : Waits]
      /\ r.op = "write" => r.wait = Infinite
  BY JvmFilesAssumption
<1>2. NoCall("none") \in Call
  BY NoCallFacts
<1>3. /\ c \in Call
      /\ c.pc = "pass" /\ c.op = r.op /\ c.wait = r.wait /\ c.left = r.wait
      /\ c.last = 0 /\ c.age = 0
  BY <1>1, <1>2 DEF Call, NoCall
<1>4. r.wait # Infinite => r.wait \in 0..MaxWait
  BY <1>1 DEF Waits
<1> HIDE DEF c
<1>5. TimeOK(c)
  BY <1>1, <1>3, <1>4, JvmFilesAssumption DEF TimeOK
<1> QED
  BY <1>3, <1>5 DEF c

\* What TimeoutsAreHonest says of a step.
Honest ==
    \A t \in Threads :
        call[t].pc # "idle" /\ call'[t].pc = "idle" /\ call'[t].res = "timeout"
          => call[t].age > call[t].wait /\ call[t].done = 0

\* A call that has waited too long is older than its limit.
LEMMA WaitedTooLong ==
    ASSUME NEW c \in Call, TimeOK(c), c.pc = "wait", c.left # Infinite,
           c.queued > c.left \/ c.last > c.left
    PROVE  c.age > c.wait /\ c.done = 0
<1>1. /\ c.wait # Infinite /\ c.left <= c.wait /\ c.queued <= c.last /\ c.done = 0
      /\ c.age > MaxWait \/ c.age >= (c.wait - c.left) + c.last
  BY DEF TimeOK
<1>2. /\ c.wait \in 0..MaxWait /\ c.left \in 0..MaxWait
      /\ c.queued \in Nat /\ c.last \in Nat /\ c.age \in Nat /\ MaxWait \in Nat
  BY <1>1, JvmFilesAssumption DEF Call, Waits, Time
<1> QED
  BY <1>1, <1>2

\* The step of one thread that is not waiting, neither before nor after.
LEMMA OneCall ==
    ASSUME TInv, NEW t \in Threads, NEW c \in Call, TimeOK(c),
           call[t].pc # "wait", c.pc # "wait",
           c.pc = "idle" => c.res # "timeout",
           call' = [call EXCEPT ![t] = c], finished' = finished, ioQueue' = ioQueue,
           data' \in [Fds -> 0..Capacity]
    PROVE  TInv' /\ Honest
<1>1. /\ call' \in [Threads -> Call] /\ call'[t] = c
      /\ \A u \in Threads \ {t} : call'[u] = call[u]
  BY DEF TInv
<1>2. \A u \in Threads : TimeOK(call'[u])
  BY <1>1 DEF TInv
<1>3. \A u \in Threads : finished'[u] = "timeout" => TimedOut(call'[u])
  BY <1>1 DEF TInv, TimedOut
<1>4. \A i \in 1..Len(ioQueue) : ioQueue[i] \in Threads /\ ioQueue[i] # t
  BY DEF TInv
<1>5. \A i \in 1..Len(ioQueue') : call'[ioQueue'[i]].pc = "wait"
  BY <1>1, <1>4 DEF TInv
<1>6. TInv'
  BY <1>1, <1>2, <1>3, <1>5 DEF TInv
<1>7. Honest
  BY <1>1 DEF Honest
<1> QED
  BY <1>6, <1>7

\* A step that leaves the calls and the queue alone.
LEMMA NoneCalls ==
    ASSUME TInv, UNCHANGED <<call, finished, ioQueue>>, data' \in [Fds -> 0..Capacity]
    PROVE  TInv' /\ Honest
  BY DEF TInv, Honest, TimeOK, TimedOut

LEMMA EnterHonest ==
    ASSUME TInv, NEW t \in Threads, NEW f \in Fds, NEW r \in Requests[t], Enter(t, f, r)
    PROVE  TInv' /\ Honest
<1> DEFINE c == [NoCall("none") EXCEPT !.pc = "pass", !.fd = f, !.op = r.op,
                                       !.cnt = r.cnt, !.wait = r.wait, !.left = r.wait]
<1>1. c \in Call /\ TimeOK(c) /\ c.pc = "pass"
  BY EnterFacts
<1>2. call[t].pc = "idle" /\ call' = [call EXCEPT ![t] = c]
      /\ finished' = finished /\ ioQueue' = ioQueue /\ data' \in [Fds -> 0..Capacity]
  BY DEF Enter, TInv
<1> HIDE DEF c
<1> QED
  BY <1>1, <1>2, OneCall

LEMMA OSpassHonest ==
    ASSUME TInv, NEW t \in Threads, OSpassCurrentLabels(t)
    PROVE  TInv' /\ Honest
<1> DEFINE c == [call[t] EXCEPT !.pc = "sys"]
<1>1. call[t] \in Call /\ TimeOK(call[t])
  BY DEF TInv
<1>2. call[t].pc = "pass" /\ call' = [call EXCEPT ![t] = c]
      /\ finished' = finished /\ ioQueue' = ioQueue /\ data' \in [Fds -> 0..Capacity]
  BY DEF OSpassCurrentLabels, TInv
<1>3. c \in Call /\ c.pc = "sys" /\ TimeOK(c)
  BY <1>1, <1>2 DEF Call, TimeOK
<1> HIDE DEF c
<1> QED
  BY <1>2, <1>3, OneCall

\* A call that ends with an answer of the kernel.
LEMMA ReturnHonest ==
    ASSUME TInv, NEW t \in Threads, NEW res \in {"ok", "error"}, Return(t, res),
           call[t].pc # "wait", finished' = finished, ioQueue' = ioQueue,
           data' \in [Fds -> 0..Capacity]
    PROVE  TInv' /\ Honest
<1> DEFINE c == NoCall(res)
<1>1. c \in Call /\ TimeOK(c) /\ c.pc = "idle" /\ c.res = res
  BY NoCallFacts
<1>2. call' = [call EXCEPT ![t] = c]
  BY DEF Return
<1> HIDE DEF c
<1> QED
  BY <1>1, <1>2, OneCall

LEMMA SysFailsHonest ==
    ASSUME TInv, NEW t \in Threads, SysFails(t)
    PROVE  TInv' /\ Honest
<1>1. PICK res \in {"ok", "error"} : Return(t, res)
  BY DEF SysFails
<1> QED
  BY <1>1, ReturnHonest DEF SysFails, TInv

LEMMA SysMovesHonest ==
    ASSUME TInv, NEW t \in Threads, SysMoves(t)
    PROVE  TInv' /\ Honest
<1> DEFINE c == call[t]
           rdy == Ready(c.fd, c.op)
           rc == IF rdy < c.cnt THEN rdy ELSE c.cnt
           n == [c EXCEPT !.cnt = @ - rc, !.done = @ + rc]
<1>1. c \in Call /\ TimeOK(c) /\ c.pc = "sys"
  BY DEF TInv, SysMoves, Moves
<1>2. c.cnt \in Nat /\ c.done \in Nat /\ c.fd \in Fds /\ c.op \in {"read", "write"}
  BY <1>1 DEF Call
<1>3. data[c.fd] \in 0..Capacity /\ Capacity \in Nat
  BY <1>2, JvmFilesAssumption DEF TInv
<1>4. /\ rdy \in Nat
      /\ c.op = "read" => rdy = data[c.fd]
      /\ c.op = "write" => rdy = Capacity - data[c.fd]
  BY <1>2, <1>3 DEF Ready
<1>5. rc \in Nat /\ rc > 0 /\ rc <= c.cnt /\ rc <= rdy
  BY <1>2, <1>4 DEF SysMoves
<1>6. data' \in [Fds -> 0..Capacity]
  <2>1. /\ c.op = "read" => data[c.fd] - rc \in 0..Capacity
        /\ c.op = "write" => data[c.fd] + rc \in 0..Capacity
    BY <1>3, <1>4, <1>5
  <2>2. data' = [data EXCEPT ![c.fd] = IF c.op = "read" THEN data[c.fd] - rc
                                                         ELSE data[c.fd] + rc]
    BY DEF SysMoves
  <2> QED
    BY <1>2, <2>1, <2>2 DEF TInv
<1>7. finished' = finished /\ ioQueue' = ioQueue
  BY DEF SysMoves
<1>8. CASE rc = c.cnt
  <2>1. Return(t, "ok")
    BY <1>8 DEF SysMoves
  <2> QED
    BY <1>1, <1>6, <1>7, <2>1, ReturnHonest
<1>9. CASE rc # c.cnt
  <2>1. call' = [call EXCEPT ![t] = n]
    BY <1>9 DEF SysMoves
  <2>2. c.cnt - rc \in Nat /\ c.done + rc \in Nat
    BY <1>2, <1>5
  <2> HIDE DEF rc
  <2>3. n \in Call
    BY <1>1, <2>2 DEF Call
  <2>4. /\ n.pc = "sys" /\ n.op = c.op /\ n.wait = c.wait /\ n.left = c.left
        /\ n.age = c.age /\ n.last = c.last /\ n.queued = c.queued
    BY <1>1 DEF Call
  <2> HIDE DEF n
  <2>5. TimeOK(n)
    BY <1>1, <2>4 DEF TimeOK
  <2> QED
    BY <1>1, <1>6, <1>7, <2>1, <2>3, <2>4, <2>5, OneCall
<1> QED
  BY <1>8, <1>9

\* A read that goes on the queue has no byte yet.
LEMMA SysBlocksHonest ==
    ASSUME TInv, NEW t \in Threads, SysBlocks(t)
    PROVE  TInv' /\ Honest
<1> DEFINE c == call[t]
           n == [c EXCEPT !.pc = "wait", !.queued = 0]
<1>1. c \in Call /\ TimeOK(c) /\ c.pc = "sys"
  BY DEF TInv, SysBlocks, Moves
<1>2. finished' = finished /\ data' = data /\ data \in [Fds -> 0..Capacity]
  BY DEF SysBlocks, TInv
<1>3. CASE Return(t, "ok") /\ UNCHANGED ioQueue
  BY <1>1, <1>2, <1>3, ReturnHonest
<1>4. CASE /\ c.op = "write" \/ c.done = 0
           /\ call' = [call EXCEPT ![t] = n]
           /\ ioQueue' = Append(ioQueue, t)
  <2>0. 0 \in Time
    BY JvmFilesAssumption DEF Time
  <2>1. n \in Call
    BY <1>1, <2>0 DEF Call
  <2>2. /\ n.pc = "wait" /\ n.op = c.op /\ n.wait = c.wait /\ n.left = c.left
        /\ n.age = c.age /\ n.last = c.last /\ n.queued = 0 /\ n.done = c.done
    BY <1>1 DEF Call
  <2>3. c.last \in Nat
    BY <1>1, JvmFilesAssumption DEF Call, Time
  <2> HIDE DEF n
  <2>4. TimeOK(n)
    BY <1>1, <1>4, <2>2, <2>3 DEF TimeOK
  <2>5. /\ call' \in [Threads -> Call] /\ call'[t] = n
        /\ \A u \in Threads \ {t} : call'[u] = call[u]
    BY <1>4, <2>1 DEF TInv
  <2>6. \A u \in Threads : TimeOK(call'[u])
    BY <2>4, <2>5 DEF TInv
  <2>7. \A u \in Threads : finished'[u] = "timeout" => TimedOut(call'[u])
    BY <1>1, <1>2, <2>5 DEF TInv, TimedOut
  <2>8. \A i \in 1..Len(ioQueue) : ioQueue[i] \in Threads /\ ioQueue[i] # t
    BY <1>1 DEF TInv
  <2>9. /\ ioQueue' \in Seq(Threads) /\ Len(ioQueue') = Len(ioQueue) + 1
        /\ Len(ioQueue) \in Nat
        /\ \A i \in 1..Len(ioQueue) : ioQueue'[i] = ioQueue[i]
        /\ ioQueue'[Len(ioQueue) + 1] = t
    BY <1>4 DEF TInv
  <2>10. \A i \in 1..Len(ioQueue') : call'[ioQueue'[i]].pc = "wait"
    BY <2>2, <2>5, <2>8, <2>9 DEF TInv
  <2>11. \A i, j \in 1..Len(ioQueue') : ioQueue'[i] = ioQueue'[j] => i = j
    BY <2>8, <2>9 DEF TInv
  <2>12. TInv'
    BY <1>2, <2>5, <2>6, <2>7, <2>9, <2>10, <2>11 DEF TInv
  <2>13. Honest
    BY <2>2, <2>5 DEF Honest
  <2> QED
    BY <2>12, <2>13
<1> QED
  BY <1>3, <1>4 DEF SysBlocks

\* Removing one entry of the queue.
LEMMA WithoutFacts ==
    ASSUME NEW q \in Seq(Threads), NEW i \in 1..Len(q)
    PROVE  /\ Without(q, i) \in Seq(Threads)
           /\ Len(Without(q, i)) = Len(q) - 1
           /\ \A j \in 1..(Len(q) - 1) :
                Without(q, i)[j] = IF j < i THEN q[j] ELSE q[j + 1]
<1>1. Len(q) \in Nat /\ Len(q) - 1 \in Nat /\ \A j \in 1..Len(q) : q[j] \in Threads
  OBVIOUS
<1>2. \A j \in 1..(Len(q) - 1) : (IF j < i THEN q[j] ELSE q[j + 1]) \in Threads
  BY <1>1
<1> QED
  BY <1>1, <1>2 DEF Without

\* What the processor finds when it looks at the queue.
LEMMA IsReadyFacts ==
    ASSUME TInv
    PROVE  /\ isReady \in [Threads -> Finished]
           /\ \A u \in Threads : isReady[u] = "timeout" => TimedOut(call[u])
<1>1. CASE ready > 0
  BY <1>1 DEF isReady, TInv
<1>2. CASE ~(ready > 0)
  <2>1. isReady = [u \in Threads |-> IF u \in Queued THEN WaitOver(u) ELSE "no"]
    BY <1>2 DEF isReady
  <2>2. \A u \in Threads : WaitOver(u) \in Finished
    BY DEF WaitOver, Finished
  <2>3. ASSUME NEW u \in Threads, u \in Queued, WaitOver(u) = "timeout"
        PROVE  TimedOut(call[u])
    <3>1. call[u].pc = "wait"
      BY <2>3 DEF Queued, TInv
    <3> QED
      BY <2>3, <3>1 DEF WaitOver, TimedOut
  <2> QED
    BY <2>1, <2>2, <2>3 DEF Finished
<1> QED
  BY <1>1, <1>2

\* The rest of the time is positive, and what is left of it is accounted for.
LEMMA ResumeFacts ==
    ASSUME NEW c \in Call, TimeOK(c), c.pc = "wait", c.left # Infinite,
           ~(c.last > c.left)
    PROVE  LET n == [c EXCEPT !.pc = "sys", !.queued = 0, !.left = c.left - c.last,
                              !.last = 0]
           IN  n \in Call /\ TimeOK(n) /\ n.pc = "sys"
<1> DEFINE rest == c.left - c.last
           n == [c EXCEPT !.pc = "sys", !.queued = 0, !.left = rest, !.last = 0]
<1>1. /\ c.wait # Infinite /\ c.left <= c.wait
      /\ c.age > MaxWait \/ c.age >= (c.wait - c.left) + c.last
      /\ c.op = "write" => c.wait = Infinite
  BY DEF TimeOK
<1>2. /\ c.wait \in 0..MaxWait /\ c.left \in 0..MaxWait
      /\ c.last \in Nat /\ c.age \in Nat /\ MaxWait \in Nat
  BY <1>1, JvmFilesAssumption DEF Call, Waits, Time
<1>3. /\ rest \in 0..MaxWait /\ rest <= c.wait
      /\ c.age > MaxWait \/ c.age >= (c.wait - rest) + 0
  BY <1>1, <1>2
<1>4. rest \in Waits /\ rest # Infinite /\ 0 \in Time
  BY <1>2, <1>3, JvmFilesAssumption DEF Waits, Time
<1> HIDE DEF rest
<1>5. n \in Call
  BY <1>4 DEF Call
<1>6. /\ n.pc = "sys" /\ n.op = c.op /\ n.wait = c.wait /\ n.left = rest
      /\ n.age = c.age /\ n.last = 0
  BY DEF Call
<1> HIDE DEF n
<1>7. TimeOK(n)
  BY <1>1, <1>3, <1>4, <1>6 DEF TimeOK
<1> QED
  BY <1>5, <1>6, <1>7 DEF n, rest

LEMMA DequeueHonest ==
    ASSUME TInv, NEW t \in Threads, dequeue(t)
    PROVE  TInv' /\ Honest
<1> DEFINE c == call[t]
<1>1. PICK i \in 1..Len(ioQueue) : ioQueue[i] = t /\ ioQueue' = Without(ioQueue, i)
  BY DEF dequeue
<1>2. c \in Call /\ TimeOK(c) /\ c.pc = "wait"
  BY <1>1 DEF TInv
<1>3. /\ isReady \in [Threads -> Finished]
      /\ \A u \in Threads : isReady[u] = "timeout" => TimedOut(call[u])
  BY IsReadyFacts
<1>4. PICK n \in Call : /\ call' = [call EXCEPT ![t] = n]
                        /\ TimeOK(n)
                        /\ n.pc = "idle" /\ n.res = "timeout" => c.age > c.wait /\ c.done = 0
  <2>1. CASE isReady[t] = "timeout" /\ Return(t, "timeout")
    <3>1. NoCall("timeout") \in Call /\ TimeOK(NoCall("timeout"))
      BY NoCallFacts
    <3>2. c.left # Infinite /\ c.queued > c.left
      BY <1>3, <2>1 DEF TimedOut
    <3>3. c.age > c.wait /\ c.done = 0
      BY <1>2, <3>2, WaitedTooLong
    <3> QED
      BY <2>1, <3>1, <3>3 DEF Return
  <2>2. CASE isReady[t] = "invalid" /\ Return(t, "error")
    <3>1. NoCall("error") \in Call /\ TimeOK(NoCall("error")) /\ NoCall("error").res = "error"
      BY NoCallFacts
    <3> QED
      BY <2>2, <3>1 DEF Return
  <2>3. CASE isReady[t] = "ready" /\ ResumeReady(t)
    <3>1. CASE c.left = Infinite
      <4> DEFINE n == [c EXCEPT !.pc = "sys", !.queued = 0]
      <4>1. call' = [call EXCEPT ![t] = n]
        BY <2>3, <3>1 DEF ResumeReady
      <4>2. 0 \in Time
        BY JvmFilesAssumption DEF Time
      <4>3. n \in Call
        BY <1>2, <4>2 DEF Call
      <4>4. /\ n.pc = "sys" /\ n.op = c.op /\ n.wait = c.wait /\ n.left = c.left
        BY <1>2 DEF Call
      <4> HIDE DEF n
      <4>5. TimeOK(n)
        BY <1>2, <3>1, <4>4 DEF TimeOK
      <4> QED
        BY <4>1, <4>3, <4>4, <4>5
    <3>2. CASE c.left # Infinite /\ c.last > c.left
      <4>1. NoCall("timeout") \in Call /\ TimeOK(NoCall("timeout"))
        BY NoCallFacts
      <4>2. c.age > c.wait /\ c.done = 0
        BY <1>2, <3>2, WaitedTooLong
      <4>3. Return(t, "timeout")
        BY <2>3, <3>2 DEF ResumeReady
      <4> QED
        BY <4>1, <4>2, <4>3 DEF Return
    <3>3. CASE c.left # Infinite /\ ~(c.last > c.left)
      <4> DEFINE n == [c EXCEPT !.pc = "sys", !.queued = 0, !.left = c.left - c.last,
                                !.last = 0]
      <4>1. n \in Call /\ TimeOK(n) /\ n.pc = "sys"
        BY <1>2, <3>3, ResumeFacts
      <4>2. call' = [call EXCEPT ![t] = n]
        BY <2>3, <3>3 DEF ResumeReady
      <4> HIDE DEF n
      <4> QED
        BY <4>1, <4>2
    <3> QED
      BY <3>1, <3>2, <3>3
  <2> QED
    BY <2>1, <2>2, <2>3 DEF dequeue
<1>5. /\ call' \in [Threads -> Call] /\ call'[t] = n
      /\ \A u \in Threads \ {t} : call'[u] = call[u]
  BY <1>4 DEF TInv
<1>6. \A u \in Threads : TimeOK(call'[u])
  BY <1>4, <1>5 DEF TInv
<1>7. finished' = [isReady EXCEPT ![t] = "no"] /\ data' = data
  BY DEF dequeue
<1>8. finished' \in [Threads -> Finished] /\ finished'[t] = "no"
      /\ \A u \in Threads \ {t} : finished'[u] = isReady[u]
  BY <1>3, <1>7 DEF Finished
<1>9. \A u \in Threads : finished'[u] = "timeout" => TimedOut(call'[u])
  BY <1>3, <1>5, <1>8
<1>10. /\ ioQueue' \in Seq(Threads) /\ Len(ioQueue') = Len(ioQueue) - 1 /\ Len(ioQueue) \in Nat
       /\ \A j \in 1..(Len(ioQueue) - 1) :
            ioQueue'[j] = IF j < i THEN ioQueue[j] ELSE ioQueue[j + 1]
  <2>1. ioQueue \in Seq(Threads)
    BY DEF TInv
  <2>2. Len(ioQueue) \in Nat
    BY <2>1
  <2> QED
    BY ONLY <1>1, <2>1, <2>2, WithoutFacts
<1>11. \A j \in 1..Len(ioQueue') :
         \E k \in 1..Len(ioQueue) \ {i} : ioQueue'[j] = ioQueue[k] /\ k = IF j < i THEN j ELSE j + 1
  BY <1>10
<1>12. \A k \in 1..Len(ioQueue) \ {i} : ioQueue[k] \in Threads /\ ioQueue[k] # t
  BY <1>1 DEF TInv
<1>13. \A j \in 1..Len(ioQueue') : call'[ioQueue'[j]].pc = "wait"
  BY <1>5, <1>11, <1>12 DEF TInv
<1>14. \A j, k \in 1..Len(ioQueue') : ioQueue'[j] = ioQueue'[k] => j = k
  <2> SUFFICES ASSUME NEW j \in 1..Len(ioQueue'), NEW k \in 1..Len(ioQueue'),
                      ioQueue'[j] = ioQueue'[k]
               PROVE  j = k
    OBVIOUS
  <2>1. PICK j1 \in 1..Len(ioQueue) : ioQueue'[j] = ioQueue[j1] /\ j1 = IF j < i THEN j ELSE j + 1
    BY <1>11
  <2>2. PICK k1 \in 1..Len(ioQueue) : ioQueue'[k] = ioQueue[k1] /\ k1 = IF k < i THEN k ELSE k + 1
    BY <1>11
  <2>3. j1 = k1
    BY <2>1, <2>2 DEF TInv
  <2> QED
    BY <1>10, <2>1, <2>2, <2>3
<1>15. TInv'
  BY <1>5, <1>6, <1>7, <1>8, <1>9, <1>10, <1>13, <1>14 DEF TInv
<1>16. Honest
  BY <1>4, <1>5 DEF Honest
<1> QED
  BY <1>15, <1>16

\* A tick adds to the age what it adds to the time since lastWaitTime.
LEMMA AgedFacts ==
    ASSUME NEW c \in Call, TimeOK(c)
    PROVE  /\ Aged(c) \in Call /\ TimeOK(Aged(c))
           /\ Aged(c).pc = c.pc /\ (TimedOut(c) => TimedOut(Aged(c)))
<1>1. CASE c.wait = Infinite \/ c.pc \notin {"sys", "wait"}
  BY <1>1 DEF Aged
<1>2. CASE c.wait # Infinite /\ c.pc \in {"sys", "wait"}
  <2> DEFINE q == IF c.pc = "wait" THEN Later(c.queued) ELSE c.queued
             n == [c EXCEPT !.last = Later(c.last), !.age = Later(c.age), !.queued = q]
  <2>1. Aged(c) = n
    BY <1>2 DEF Aged
  <2>2. /\ c.last \in Time /\ c.age \in Time /\ c.queued \in Time /\ MaxWait \in Nat
        /\ c.wait \in 0..MaxWait /\ c.left \in Waits
    BY <1>2, JvmFilesAssumption DEF Call, Waits
  <2>3. \A m \in Time : /\ Later(m) \in Time /\ Later(m) >= m
                        /\ Later(m) = m + 1 \/ (Later(m) = m /\ m > MaxWait)
    BY <2>2 DEF Later, Time
  <2>4. q \in Time
    BY <2>2, <2>3
  <2>5. Later(c.last) \in Time /\ Later(c.age) \in Time
    BY <2>2, <2>3
  <2> HIDE DEF q
  <2>6. n \in Call
    BY <2>4, <2>5 DEF Call
  <2>7. /\ n.pc = c.pc /\ n.op = c.op /\ n.wait = c.wait /\ n.left = c.left /\ n.done = c.done
        /\ n.last = Later(c.last) /\ n.age = Later(c.age) /\ n.queued = q
    BY DEF Call
  <2> HIDE DEF n
  <2>8. /\ c.left # Infinite /\ c.left \in 0..MaxWait
    BY <1>2, <2>2 DEF TimeOK, Waits
  <2>9. /\ c.left <= c.wait
        /\ c.age > MaxWait \/ c.age >= (c.wait - c.left) + c.last
        /\ c.pc = "wait" => c.queued <= c.last /\ c.done = 0
        /\ c.op = "write" => c.wait = Infinite
    BY <1>2 DEF TimeOK
  <2>10. n.age > MaxWait \/ n.age >= (n.wait - n.left) + n.last
    <3>1. c.last \in Nat /\ c.age \in Nat
      BY <2>2 DEF Time
    <3>2. /\ Later(c.age) = c.age + 1 \/ (Later(c.age) = c.age /\ c.age > MaxWait)
          /\ Later(c.last) = c.last + 1 \/ Later(c.last) = c.last
      BY <2>2, <2>3
    <3> QED
      BY <2>2, <2>7, <2>8, <2>9, <3>1, <3>2
  <2>11. c.pc = "wait" => n.queued <= n.last
    <3> SUFFICES ASSUME c.pc = "wait" PROVE n.queued <= n.last
      OBVIOUS
    <3>1. n.queued = Later(c.queued) /\ n.last = Later(c.last) /\ c.queued <= c.last
      BY <2>7, <2>9 DEF q
    <3> QED
      BY <2>2, <3>1 DEF Later, Time
  <2>12. TimeOK(n)
    BY <1>2, <2>7, <2>8, <2>9, <2>10, <2>11 DEF TimeOK
  <2>13. TimedOut(c) => TimedOut(n)
    <3> SUFFICES ASSUME TimedOut(c) PROVE TimedOut(n)
      OBVIOUS
    <3>1. n.queued >= c.queued
      BY <2>2, <2>3, <2>7 DEF q, TimedOut
    <3>2. c.queued \in Nat /\ n.queued \in Nat
      BY <2>2, <2>4, <2>7 DEF Time
    <3> QED
      BY <2>7, <2>8, <3>1, <3>2 DEF TimedOut
  <2> QED
    BY <2>1, <2>6, <2>7, <2>12, <2>13
<1> QED
  BY <1>1, <1>2

LEMMA TickHonest ==
    ASSUME TInv, Tick
    PROVE  TInv' /\ Honest
<1>1. \A u \in Threads : call[u] \in Call /\ TimeOK(call[u]) /\ call'[u] = Aged(call[u])
  BY DEF TInv, Tick
<1>2. \A u \in Threads : /\ call'[u] \in Call /\ TimeOK(call'[u])
                         /\ call'[u].pc = call[u].pc
                         /\ TimedOut(call[u]) => TimedOut(call'[u])
  BY <1>1, AgedFacts
<1>3. call' \in [Threads -> Call]
  BY <1>2 DEF Tick
<1>4. finished' = finished /\ ioQueue' = ioQueue /\ data' = data
  BY DEF Tick
<1>5. \A i \in 1..Len(ioQueue) : ioQueue[i] \in Threads
  BY DEF TInv
<1>6. TInv'
  BY <1>2, <1>3, <1>4, <1>5 DEF TInv
<1>7. Honest
  BY <1>2 DEF Honest
<1> QED
  BY <1>6, <1>7

LEMMA PeerHonest ==
    ASSUME TInv, NEW f \in Fds, Peer(f)
    PROVE  TInv' /\ Honest
<1>1. data[f] \in 0..Capacity /\ Capacity \in Nat
  BY JvmFilesAssumption DEF TInv
<1>2. data' \in [Fds -> 0..Capacity]
  BY <1>1 DEF Peer, TInv
<1> QED
  BY <1>2, NoneCalls DEF Peer

LEMMA InitHonest == Init => TInv
<1> SUFFICES ASSUME Init PROVE TInv
  OBVIOUS
<1>1. NoCall("none") \in Call /\ TimeOK(NoCall("none")) /\ NoCall("none").pc = "idle"
  BY NoCallFacts
<1>2. 0 \in 0..Capacity
  BY JvmFilesAssumption
<1> QED
  BY <1>1, <1>2 DEF Init, TInv, Finished

LEMMA NextHonest == TInv /\ [Next]_vars => TInv' /\ Honest
<1> SUFFICES ASSUME TInv, [Next]_vars PROVE TInv' /\ Honest
  OBVIOUS
<1>1. ASSUME NEW t \in Threads, Step(t) PROVE TInv' /\ Honest
  BY <1>1, OSpassHonest, SysFailsHonest, SysMovesHonest, SysBlocksHonest DEF Step
<1>2. ASSUME NEW t \in Threads, dequeue(t) PROVE TInv' /\ Honest
  BY <1>2, DequeueHonest
<1>3. ASSUME NEW t \in Threads, Regions(t) PROVE TInv' /\ Honest
  <2>1. UNCHANGED <<call, finished, ioQueue, data>>
    BY <1>3 DEF Regions, startSecureRegion, endSecureRegion
  <2> QED
    BY <2>1, NoneCalls DEF TInv
<1>4. ASSUME NEW t \in Threads, NEW f \in Fds, NEW r \in Requests[t], Enter(t, f, r)
      PROVE  TInv' /\ Honest
  BY <1>4, EnterHonest
<1>5. CASE Tick
  BY <1>5, TickHonest
<1>6. ASSUME NEW f \in Fds, Peer(f) PROVE TInv' /\ Honest
  BY <1>6, PeerHonest
<1>7. CASE UNCHANGED vars
  BY <1>7, NoneCalls DEF vars, TInv
<1> QED
  BY <1>1, <1>2, <1>3, <1>4, <1>5, <1>6, <1>7 DEF Next

\* Whatever the threads, the limits and the peer do: TimeoutException is thrown
\* only after the whole time of the caller, and loses no byte (readBytes).
THEOREM TimeoutsHonest == Spec => TimeoutsAreHonest
<1>1. Init => TInv
  BY InitHonest
<1>2. TInv /\ [Next]_vars => TInv' /\ [Honest]_vars
  BY NextHonest
<1>3. Init /\ [][Next]_vars => [][Honest]_vars
  BY <1>1, <1>2, PTL
<1> QED
  BY <1>3, PTL DEF Spec, TimeoutsAreHonest, Honest

-----------------------------------------------------------------------------
(* Labels.                                                                 *)

Busy(t) == call[t].pc \in {"sys", "wait"}
Marked(t) == \E i \in 2..Len(stack[t]) : stack[t][i].RESTORE_LABELS

\* The stack of a thread: a region is never the thread's own state, which is
\* never marked, and outside regions nothing is.
StackOK(t) ==
    /\ Len(stack[t]) >= 1
    /\ inSecureRegion[t] => Len(stack[t]) >= 2
    /\ ~inSecureRegion[t] => ~Marked(t)

\* Who is responsible for the label of the task: nobody for the empty one, and a
\* thread that the kernel has not refused only inside a region that will restore
\* it; a thread that is past OSpassCurrentLabels has its own label.
LabelOK(t) ==
    ~refused[t] =>
      /\ passer = t /\ klabel # {} => Marked(t)
      /\ Busy(t) /\ passer \in {t, NoThread} => klabel = Own(t)

LInv ==
    /\ stack \in [Threads -> Seq(SRState)]
    /\ inSecureRegion \in [Threads -> BOOLEAN]
    /\ klabel \subseteq Tags
    /\ status \in [Fds -> {"open", "eof", "bad"}]
    /\ passer \in Threads \cup {NoThread}
    /\ refused \in [Threads -> BOOLEAN]
    /\ passer = NoThread => klabel = {}
    /\ \A t \in Threads : StackOK(t)
    /\ \A t \in Threads : LabelOK(t)

\* Only OSpassCurrentLabels makes a call busy.
LEMMA BusyFacts ==
    ASSUME TInv, TInv',
           \/ \E t \in Threads : \/ SysFails(t) \/ SysMoves(t) \/ SysBlocks(t) \/ dequeue(t)
                                 \/ \E f \in Fds, r \in Requests[t] : Enter(t, f, r)
           \/ Tick
           \/ \E f \in Fds : Peer(f)
           \/ UNCHANGED vars
    PROVE  \A u \in Threads : Busy(u)' => Busy(u)
<1>1. call \in [Threads -> Call] /\ call' \in [Threads -> Call]
  BY DEF TInv
<1>2. \A t \in Threads, res \in {"none", "ok", "error", "timeout"} :
        Return(t, res) => \A u \in Threads : Busy(u)' => Busy(u)
  <2> SUFFICES ASSUME NEW t \in Threads, NEW res \in {"none", "ok", "error", "timeout"},
                      Return(t, res), NEW u \in Threads, Busy(u)'
               PROVE  Busy(u)
    OBVIOUS
  <2>1. NoCall(res).pc = "idle"
    BY NoCallFacts
  <2>2. call' = [call EXCEPT ![t] = NoCall(res)]
    BY DEF Return
  <2> QED
    BY <1>1, <2>1, <2>2 DEF Busy
<1>3. ASSUME NEW t \in Threads, NEW n, call' = [call EXCEPT ![t] = n], Busy(t)
      PROVE  \A u \in Threads : Busy(u)' => Busy(u)
  BY <1>1, <1>3 DEF Busy
<1>4. ASSUME NEW t \in Threads, SysFails(t) PROVE \A u \in Threads : Busy(u)' => Busy(u)
  BY <1>2, <1>4 DEF SysFails
<1>5. ASSUME NEW t \in Threads, Moves(t) PROVE Busy(t)
  BY <1>5 DEF Moves, Busy
<1>6. ASSUME NEW t \in Threads, SysMoves(t) PROVE \A u \in Threads : Busy(u)' => Busy(u)
  <2>1. Busy(t)
    BY <1>5, <1>6 DEF SysMoves
  <2>2. Return(t, "ok") \/ \E n : call' = [call EXCEPT ![t] = n]
    BY <1>6 DEF SysMoves
  <2> QED
    BY <1>2, <1>3, <2>1, <2>2
<1>7. ASSUME NEW t \in Threads, SysBlocks(t) PROVE \A u \in Threads : Busy(u)' => Busy(u)
  <2>1. Busy(t)
    BY <1>5, <1>7 DEF SysBlocks
  <2>2. Return(t, "ok") \/ \E n : call' = [call EXCEPT ![t] = n]
    BY <1>7 DEF SysBlocks
  <2> QED
    BY <1>2, <1>3, <2>1, <2>2
<1>8. ASSUME NEW t \in Threads, dequeue(t) PROVE \A u \in Threads : Busy(u)' => Busy(u)
  <2>1. Busy(t)
    BY <1>8 DEF dequeue, TInv, Busy
  <2>2. Return(t, "timeout") \/ Return(t, "error") \/ \E n : call' = [call EXCEPT ![t] = n]
    BY <1>8 DEF dequeue, ResumeReady
  <2> QED
    BY <1>2, <1>3, <2>1, <2>2
<1>9. ASSUME NEW t \in Threads, NEW f \in Fds, NEW r \in Requests[t], Enter(t, f, r)
      PROVE  \A u \in Threads : Busy(u)' => Busy(u)
  <2> DEFINE c == [NoCall("none") EXCEPT !.pc = "pass", !.fd = f, !.op = r.op,
                                         !.cnt = r.cnt, !.wait = r.wait, !.left = r.wait]
  <2>1. c.pc = "pass"
    BY EnterFacts
  <2>2. call' = [call EXCEPT ![t] = c]
    BY <1>9 DEF Enter
  <2> HIDE DEF c
  <2> QED
    BY <1>1, <2>1, <2>2 DEF Busy
<1>10. CASE Tick
  <2>1. \A u \in Threads : call'[u].pc = call[u].pc
    BY <1>10, AgedFacts DEF Tick, TInv
  <2> QED
    BY <2>1 DEF Busy
<1>11. ASSUME NEW f \in Fds, Peer(f) PROVE \A u \in Threads : Busy(u)' => Busy(u)
  BY <1>11 DEF Peer, Busy
<1>12. CASE UNCHANGED vars
  BY <1>12 DEF vars, Busy
<1> QED
  BY <1>4, <1>6, <1>7, <1>8, <1>9, <1>10, <1>11, <1>12

\* A step that leaves regions and labels alone.
LEMMA NoLabels ==
    ASSUME LInv, UNCHANGED <<stack, inSecureRegion, klabel, passer, refused>>,
           status' \in [Fds -> {"open", "eof", "bad"}],
           \A u \in Threads : Busy(u)' => Busy(u)
    PROVE  LInv'
<1>1. \A u \in Threads : StackOK(u)'
  BY DEF LInv, StackOK, Marked
<1>2. \A u \in Threads : LabelOK(u)'
  BY DEF LInv, LabelOK, Marked, Own
<1> QED
  BY <1>1, <1>2 DEF LInv

\* A step that changes the stack of one thread that is in no call, and perhaps
\* the label, in that thread's name.
LEMMA OneThread ==
    ASSUME LInv, NEW t \in Threads, NEW s \in Seq(SRState), NEW b \in BOOLEAN,
           stack' = [stack EXCEPT ![t] = s],
           inSecureRegion' = [inSecureRegion EXCEPT ![t] = b],
           status' = status, \A u \in Threads \ {t} : Busy(u)' <=> Busy(u),
           klabel' \subseteq Tags, refused' \in [Threads -> BOOLEAN],
           passer' = t \/ (passer' = passer /\ klabel' = klabel),
           \A u \in Threads \ {t} : refused'[u] = refused[u],
           StackOK(t)', LabelOK(t)'
    PROVE  LInv'
<1>1. /\ stack' \in [Threads -> Seq(SRState)] /\ inSecureRegion' \in [Threads -> BOOLEAN]
      /\ \A u \in Threads \ {t} : stack'[u] = stack[u] /\ inSecureRegion'[u] = inSecureRegion[u]
  BY DEF LInv
<1>2. \A u \in Threads : StackOK(u)'
  <2> SUFFICES ASSUME NEW u \in Threads \ {t} PROVE StackOK(u)'
    OBVIOUS
  <2>1. StackOK(u)
    BY DEF LInv
  <2> QED
    BY <1>1, <2>1 DEF StackOK, Marked
<1>3. \A u \in Threads : LabelOK(u)'
  <2> SUFFICES ASSUME NEW u \in Threads \ {t} PROVE LabelOK(u)'
    OBVIOUS
  <2>1. LabelOK(u) /\ t # NoThread /\ u # t
    BY JvmFilesAssumption DEF LInv
  <2>2. Own(u)' = Own(u) /\ Marked(u)' = Marked(u)
    BY <1>1 DEF Own, Marked
  <2> QED
    BY <2>1, <2>2 DEF LabelOK
<1>4. passer' \in Threads \cup {NoThread} /\ (passer' = NoThread => klabel' = {})
  BY JvmFilesAssumption DEF LInv
<1> QED
  BY <1>1, <1>2, <1>3, <1>4 DEF LInv

\* A region that starts, and the dummy of a refused start, are unmarked.
LEMMA StartLabels ==
    ASSUME LInv, NEW t \in Threads, NEW r \in Starts, startSecureRegion(t, r.S, r.P, r.M)
    PROVE  LInv'
<1>1. PICK e \in SRState, b \in BOOLEAN :
        /\ ~e.RESTORE_LABELS
        /\ stack' = [stack EXCEPT ![t] = Append(stack[t], e)]
        /\ inSecureRegion' = [inSecureRegion EXCEPT ![t] = b]
        /\ inSecureRegion[t] => b
  <2>1. r.S \subseteq Tags /\ r.P \subseteq Tags /\ r.M \subseteq Tags
    BY JvmFilesAssumption
  <2>2. /\ Region(r.S, r.P, r.M) \in SRState /\ ~Region(r.S, r.P, r.M).RESTORE_LABELS
        /\ Region({}, {}, {}) \in SRState /\ ~Region({}, {}, {}).RESTORE_LABELS
    BY <2>1 DEF Region, SRState
  <2>3. CASE /\ stack' = [stack EXCEPT ![t] = Append(@, Region(r.S, r.P, r.M))]
             /\ inSecureRegion' = [inSecureRegion EXCEPT ![t] = TRUE]
    BY <2>2, <2>3
  <2>4. CASE /\ stack' = [stack EXCEPT ![t] = Append(@, Region({}, {}, {}))]
             /\ UNCHANGED inSecureRegion
    <3>1. /\ inSecureRegion' = [inSecureRegion EXCEPT ![t] = inSecureRegion[t]]
          /\ inSecureRegion[t] \in BOOLEAN
      BY <2>4 DEF LInv
    <3> QED
      BY <2>2, <2>4, <3>1
  <2> QED
    BY <2>3, <2>4 DEF startSecureRegion
<1> DEFINE s == Append(stack[t], e)
<1>2. /\ stack[t] \in Seq(SRState) /\ StackOK(t) /\ LabelOK(t)
      /\ inSecureRegion \in [Threads -> BOOLEAN] /\ stack \in [Threads -> Seq(SRState)]
  BY DEF LInv
<1>3. /\ s \in Seq(SRState) /\ Len(s) = Len(stack[t]) + 1 /\ Len(stack[t]) \in Nat
      /\ \A i \in 1..Len(stack[t]) : s[i] = stack[t][i]
      /\ s[Len(stack[t]) + 1] = e
  BY <1>2
<1>4. stack'[t] = s /\ inSecureRegion'[t] = b
  BY <1>1, <1>2
<1> HIDE DEF s
<1>5. Marked(t)' <=> Marked(t)
  BY <1>1, <1>3, <1>4 DEF Marked
<1>6. StackOK(t)'
  BY <1>1, <1>2, <1>3, <1>4, <1>5 DEF StackOK
<1>7. /\ call' = call /\ call[t].pc = "idle" /\ status' = status
      /\ klabel' = klabel /\ passer' = passer /\ refused' = refused
  BY DEF startSecureRegion
<1>8. LabelOK(t)'
  BY <1>2, <1>5, <1>7 DEF LabelOK, Busy
<1>9. \A u \in Threads \ {t} : Busy(u)' <=> Busy(u)
  BY <1>7 DEF Busy
<1>10. /\ stack' = [stack EXCEPT ![t] = s] /\ s \in Seq(SRState)
       /\ inSecureRegion' = [inSecureRegion EXCEPT ![t] = b]
       /\ klabel' \subseteq Tags /\ refused' \in [Threads -> BOOLEAN]
  BY <1>1, <1>3, <1>7 DEF LInv, s
<1> QED
  BY <1>6, <1>7, <1>8, <1>9, <1>10, OneThread

\* A marked region gives the label back; the others leave a mark below.
LEMMA EndLabels ==
    ASSUME LInv, NEW t \in Threads, endSecureRegion(t)
    PROVE  LInv'
<1> DEFINE s == Pop(stack[t])
<1>1. /\ stack[t] \in Seq(SRState) /\ StackOK(t) /\ LabelOK(t) /\ inSecureRegion[t]
      /\ inSecureRegion \in [Threads -> BOOLEAN] /\ stack \in [Threads -> Seq(SRState)]
      /\ klabel \subseteq Tags /\ refused \in [Threads -> BOOLEAN]
  BY DEF LInv, endSecureRegion
<1>2. Len(stack[t]) \in Nat /\ Len(stack[t]) >= 2
  BY <1>1 DEF StackOK
<1>3. /\ s \in Seq(SRState) /\ Len(s) = Len(stack[t]) - 1
      /\ \A i \in 1..(Len(stack[t]) - 1) : s[i] = stack[t][i]
  BY <1>1, <1>2 DEF Pop
<1>4. /\ stack' = [stack EXCEPT ![t] = s]
      /\ call' = call /\ status' = status /\ call[t].pc = "idle"
  BY DEF endSecureRegion
<1>flag. PICK b \in BOOLEAN : /\ inSecureRegion' = [inSecureRegion EXCEPT ![t] = b]
                              /\ b <=> Len(stack[t]) > 2
  <2>1. inSecureRegion' = [inSecureRegion EXCEPT ![t] = Len(stack[t]) > 2]
    BY DEF endSecureRegion
  <2>2. (Len(stack[t]) > 2) \in BOOLEAN
    OBVIOUS
  <2> QED
    BY <2>1, <2>2, Zenon
<1>5. stack'[t] = s /\ inSecureRegion'[t] = b
  <2>1. stack'[t] = s
    BY <1>1, <1>4
  <2>2. inSecureRegion'[t] = b
    BY <1>flag, <1>1
  <2> QED
    BY <2>1, <2>2
<1> HIDE DEF s
<1>6. StackOK(t)'
  <2>0. Len(s) = Len(stack[t]) - 1
    BY <1>3
  <2>1. CASE Len(stack[t]) > 2
    <3>1. Len(s) >= 2
      BY <1>2, <1>3, <2>1
    <3>2. inSecureRegion'[t]
      BY <1>flag, <1>5, <2>1
    <3> QED
      BY <1>5, <3>1, <3>2 DEF StackOK
  <2>2. CASE ~(Len(stack[t]) > 2)
    <3>1. Len(s) \in Nat /\ Len(s) >= 1 /\ Len(s) < 2
      BY <1>2, <2>0, <2>2
    <3>2. ~Marked(t)'
      BY <1>5, <3>1 DEF Marked
    <3>3. ~inSecureRegion'[t]
      BY <1>flag, <1>5, <2>2, Zenon
    <3> QED
      BY <1>5, <3>1, <3>2, <3>3 DEF StackOK
  <2> QED
    BY <2>1, <2>2
<1>7. /\ klabel' \subseteq Tags /\ refused' \in [Threads -> BOOLEAN]
      /\ passer' = t \/ (passer' = passer /\ klabel' = klabel)
      /\ \A u \in Threads \ {t} : refused'[u] = refused[u]
  <2>1. CASE sysPassLabels(t, {})
    BY <1>1, <2>1 DEF sysPassLabels
  <2>2. CASE UNCHANGED <<klabel, passer, refused>>
    BY <1>1, <2>2
  <2> QED
    BY <2>1, <2>2 DEF endSecureRegion
<1>8. LabelOK(t)'
  <2>1. CASE sysPassLabels(t, {})
    <3>1. refused'[t] = ~MaySet({}) /\ (MaySet({}) => klabel' = {})
      BY <1>1, <2>1 DEF sysPassLabels
    <3> QED
      BY <1>4, <3>1 DEF LabelOK, Busy
  <2>2. CASE ~Top(stack[t]).RESTORE_LABELS /\ UNCHANGED <<klabel, passer, refused>>
    <3>1. Marked(t) => Marked(t)'
      BY <1>2, <1>3, <1>5, <2>2 DEF Marked, Top
    <3> QED
      BY <1>1, <1>4, <2>2, <3>1 DEF LabelOK, Busy
  <2> QED
    BY <2>1, <2>2 DEF endSecureRegion
<1>9. \A u \in Threads \ {t} : Busy(u)' <=> Busy(u)
  BY <1>4 DEF Busy
<1> QED
  BY <1>flag, <1>3, <1>4, <1>6, <1>7, <1>8, <1>9, OneThread

\* A thread passes the label of its region, which is marked, or has none to pass.
LEMMA OSpassLabels ==
    ASSUME LInv, TInv, NEW t \in Threads, OSpassCurrentLabels(t)
    PROVE  LInv'
<1> DEFINE n == Len(stack[t])
           e == [stack[t][n] EXCEPT !.RESTORE_LABELS = TRUE]
           marked == [stack[t] EXCEPT ![n] = e]
           b == inSecureRegion[t]
<1>1. /\ stack[t] \in Seq(SRState) /\ StackOK(t) /\ LabelOK(t) /\ b \in BOOLEAN
      /\ inSecureRegion \in [Threads -> BOOLEAN] /\ stack \in [Threads -> Seq(SRState)]
      /\ klabel \subseteq Tags /\ refused \in [Threads -> BOOLEAN]
      /\ call \in [Threads -> Call] /\ (passer = NoThread => klabel = {})
  BY DEF LInv, TInv
<1>2. n \in Nat /\ n >= 1 /\ (b => n >= 2) /\ stack[t][n] \in SRState
  BY <1>1 DEF StackOK
<1>3. e \in SRState /\ e.RESTORE_LABELS /\ e.secrecySet = stack[t][n].secrecySet
  BY <1>2 DEF SRState
<1>4. /\ marked \in Seq(SRState) /\ Len(marked) = n /\ marked[n] = e
      /\ \A i \in 1..n : i # n => marked[i] = stack[t][i]
  <2> HIDE DEF e
  <2>1. n \in 1..n /\ e \in SRState
    BY <1>2, <1>3
  <2>2. marked \in Seq(SRState) /\ Len(marked) = n
    BY <1>1, <2>1
  <2>3. \A i \in 1..n : stack[t][i] \in SRState /\ i \in DOMAIN stack[t]
    BY <1>1
  <2> QED
    BY <2>1, <2>2, <2>3
<1>5. /\ status' = status /\ inSecureRegion' = inSecureRegion
      /\ \A u \in Threads \ {t} : call'[u] = call[u]
  BY <1>1 DEF OSpassCurrentLabels
<1>6. \A u \in Threads \ {t} : Busy(u)' <=> Busy(u)
  BY <1>5 DEF Busy
<1>7. inSecureRegion' = [inSecureRegion EXCEPT ![t] = b] /\ inSecureRegion'[t] = b
  BY <1>1, <1>5
<1>8. Own(t) \subseteq Tags
  BY <1>2 DEF Own, Top, SRState
<1>9. CASE b /\ sysPassLabels(t, Own(t)) /\ MaySet(Own(t))
           /\ stack' = [stack EXCEPT ![t] = marked]
  <2>1. /\ klabel' = Own(t) /\ passer' = t /\ refused' = [refused EXCEPT ![t] = FALSE]
    BY <1>9 DEF sysPassLabels
  <2>2. stack'[t] = marked
    BY <1>1, <1>9
  <2> HIDE DEF marked, e
  <2>3. Marked(t)'
    BY <1>2, <1>3, <1>4, <1>9, <2>2 DEF Marked
  <2>4. StackOK(t)'
    BY <1>2, <1>4, <1>7, <1>9, <2>2 DEF StackOK
  <2>5. Own(t)' = Own(t)
    BY <1>3, <1>4, <1>7, <1>9, <2>2 DEF Own, Top
  <2>6. LabelOK(t)'
    BY <2>1, <2>3, <2>5 DEF LabelOK
  <2>7. klabel' \subseteq Tags /\ refused' \in [Threads -> BOOLEAN]
        /\ \A u \in Threads \ {t} : refused'[u] = refused[u]
    BY <1>1, <1>8, <2>1
  <2> HIDE DEF n, b
  <2> QED
    BY <1>1, <1>4, <1>5, <1>6, <1>7, <1>9, <2>1, <2>4, <2>6, <2>7, OneThread
<1>10. CASE b /\ sysPassLabels(t, Own(t)) /\ ~MaySet(Own(t)) /\ stack' = stack
  <2>1. /\ klabel' = klabel /\ passer' = passer /\ refused' = [refused EXCEPT ![t] = TRUE]
    BY <1>10 DEF sysPassLabels
  <2>2. stack' = [stack EXCEPT ![t] = stack[t]] /\ refused'[t] = TRUE
    BY <1>1, <1>10, <2>1
  <2>3. StackOK(t)'
    BY <1>1, <1>5, <1>10 DEF StackOK, Marked
  <2>4. LabelOK(t)'
    BY <2>2 DEF LabelOK
  <2>5. refused' \in [Threads -> BOOLEAN] /\ \A u \in Threads \ {t} : refused'[u] = refused[u]
    BY <1>1, <2>1
  <2> HIDE DEF b
  <2> QED
    BY <1>1, <1>5, <1>6, <1>7, <2>1, <2>2, <2>3, <2>4, <2>5, OneThread
<1>11. CASE ~b /\ UNCHANGED <<stack, klabel, passer, refused>>
  <2>1. StackOK(t)'
    BY <1>1, <1>5, <1>11 DEF StackOK, Marked
  <2>2. ~Marked(t) /\ ~Marked(t)' /\ Own(t)' = {}
    BY <1>1, <1>5, <1>11 DEF StackOK, Marked, Own
  <2>3. LabelOK(t)'
    BY <1>1, <1>11, <2>2 DEF LabelOK
  <2>4. stack' = [stack EXCEPT ![t] = stack[t]]
    BY <1>1, <1>11
  <2> HIDE DEF b
  <2> QED
    BY <1>1, <1>5, <1>6, <1>7, <1>11, <2>1, <2>3, <2>4, OneThread
<1> QED
  BY <1>9, <1>10, <1>11 DEF OSpassCurrentLabels

LEMMA InitLabels == Init => LInv
<1> SUFFICES ASSUME Init PROVE LInv
  OBVIOUS
<1>1. \A t \in Threads : /\ <<Region({}, Plus[t], Minus[t])>> \in Seq(SRState)
                         /\ stack[t] = <<Region({}, Plus[t], Minus[t])>>
  <2> SUFFICES ASSUME NEW t \in Threads
               PROVE  /\ <<Region({}, Plus[t], Minus[t])>> \in Seq(SRState)
                      /\ stack[t] = <<Region({}, Plus[t], Minus[t])>>
    OBVIOUS
  <2>1. Region({}, Plus[t], Minus[t]) \in SRState
    BY JvmFilesAssumption DEF Region, SRState
  <2> QED
    BY <2>1 DEF Init
<1>2. \A t \in Threads : StackOK(t)
  BY <1>1 DEF Init, StackOK, Marked
<1>3. \A t \in Threads : LabelOK(t)
  <2> SUFFICES ASSUME NEW t \in Threads PROVE LabelOK(t)
    OBVIOUS
  <2>1. call[t].pc = "idle"
    BY NoCallFacts DEF Init
  <2> QED
    BY <2>1 DEF Init, LabelOK, Busy
<1> QED
  BY <1>1, <1>2, <1>3 DEF Init, LInv

LEMMA NextLabels == LInv /\ TInv /\ TInv' /\ [Next]_vars => LInv'
<1> SUFFICES ASSUME LInv, TInv, TInv', [Next]_vars PROVE LInv'
  OBVIOUS
<1>1. ASSUME NEW t \in Threads, OSpassCurrentLabels(t) PROVE LInv'
  BY <1>1, OSpassLabels
<1>2. ASSUME NEW t \in Threads, Regions(t) PROVE LInv'
  BY <1>2, StartLabels, EndLabels DEF Regions
<1>3. ASSUME NEW t \in Threads,
             \/ SysFails(t) \/ SysMoves(t) \/ SysBlocks(t) \/ dequeue(t)
             \/ \E f \in Fds, r \in Requests[t] : Enter(t, f, r)
      PROVE  LInv'
  <2>1. UNCHANGED <<stack, inSecureRegion, klabel, passer, refused, status>>
    BY <1>3 DEF SysFails, SysMoves, SysBlocks, dequeue, Enter
  <2>2. \A u \in Threads : Busy(u)' => Busy(u)
    BY <1>3, BusyFacts
  <2> QED
    BY <2>1, <2>2, NoLabels DEF LInv
<1>4. ASSUME Tick \/ (\E f \in Fds : Peer(f)) \/ UNCHANGED vars PROVE LInv'
  <2>1. UNCHANGED <<stack, inSecureRegion, klabel, passer, refused>>
    BY <1>4 DEF Tick, Peer, vars
  <2>2. status' \in [Fds -> {"open", "eof", "bad"}]
    BY <1>4 DEF Tick, Peer, vars, LInv
  <2>3. \A u \in Threads : Busy(u)' => Busy(u)
    BY <1>4, BusyFacts
  <2> QED
    BY <2>1, <2>2, <2>3, NoLabels
<1> QED
  BY <1>1, <1>2, <1>3, <1>4 DEF Next, Step

LEMMA Invariants == Spec => [](TInv /\ LInv)
<1>1. Init => TInv /\ LInv
  BY InitHonest, InitLabels
<1>2. TInv /\ LInv /\ [Next]_vars => TInv' /\ LInv'
  BY NextHonest, NextLabels
<1> QED
  BY <1>1, <1>2, PTL DEF Spec

\* TypeOK holds in every instance.
THEOREM TypeCorrect == Spec => []TypeOK
<1>1. TInv /\ LInv => TypeOK
  BY DEF TInv, LInv, StackOK, Finished, TypeOK
<1> QED
  BY <1>1, Invariants, PTL

\* For any threads and regions: when bytes move under another label than the
\* calling thread's, another thread has passed its own (OSpassCurrentLabels,
\* endSecureRegion), or the kernel refused the thread's own last attempt.
THEOREM InterferenceOnly == Spec => []OnlyOthersInterfere
<1>1. TInv /\ LInv => OnlyOthersInterfere
  BY DEF LInv, LabelOK, Busy, OnlyOthersInterfere, Transfers, Moves
<1> QED
  BY <1>1, Invariants, PTL
=============================================================================
