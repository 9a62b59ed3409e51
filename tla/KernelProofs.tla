---------------------------- MODULE KernelProofs ----------------------------
(***************************************************************************)
(* What the operators of Kernel do to a kernel state, for every finite set *)
(* of threads and every set of semaphores: each one preserves KernelOK,    *)
(* and none leaves an up on a sleeping thread unanswered.                  *)
(***************************************************************************)
EXTENDS Kernel, FiniteSetTheorems, SequenceTheorems, TLAPS

-----------------------------------------------------------------------------
(* Queues: appending a new thread and taking one off either end. *)

(* A queue with one more at its end. *)
LEMMA AppendQueue ==
  ASSUME NEW q \in Seq(Thread), NEW t \in Thread, Distinct(q), ~ InQueue(q, t)
  PROVE  /\ Append(q, t) \in Seq(Thread)
         /\ Distinct(Append(q, t))
         /\ \A u \in Thread : InQueue(Append(q, t), u) <=> InQueue(q, u) \/ u = t
<1> DEFINE r == Append(q, t)
<1>1. r \in Seq(Thread) /\ Len(r) = Len(q) + 1 /\ r[Len(q) + 1] = t
      /\ \A i \in 1..Len(q) : r[i] = q[i]
  OBVIOUS
<1>2. Len(q) \in Nat
  OBVIOUS
<1>3. Distinct(r)
  BY <1>1, <1>2 DEF Distinct, InQueue
<1>4. \A u \in Thread : InQueue(r, u) <=> InQueue(q, u) \/ u = t
  BY <1>1, <1>2 DEF InQueue
<1> QED
  BY <1>1, <1>3, <1>4

(* A queue without its first. *)
LEMMA TailQueue ==
  ASSUME NEW q \in Seq(Thread), q # <<>>, Distinct(q)
  PROVE  /\ Head(q) \in Thread /\ InQueue(q, Head(q))
         /\ Tail(q) \in Seq(Thread)
         /\ Distinct(Tail(q))
         /\ \A u \in Thread : InQueue(Tail(q), u) <=> InQueue(q, u) /\ u # Head(q)
<1> DEFINE r == Tail(q)
<1>1. r \in Seq(Thread) /\ Len(r) = Len(q) - 1 /\ \A i \in 1..Len(r) : r[i] = q[i + 1]
  OBVIOUS
<1>2. Len(q) \in Nat /\ Len(q) > 0 /\ Head(q) = q[1] /\ q[1] \in Thread
  OBVIOUS
<1>3. Distinct(r)
  BY <1>1, <1>2 DEF Distinct
<1>4. ASSUME NEW u \in Thread, InQueue(r, u) PROVE InQueue(q, u) /\ u # q[1]
  BY <1>1, <1>2, <1>4 DEF Distinct, InQueue
<1>5. ASSUME NEW u \in Thread, InQueue(q, u), u # q[1] PROVE InQueue(r, u)
  <2>1. PICK i \in 1..Len(q) : q[i] = u
    BY <1>5 DEF InQueue
  <2>2. i - 1 \in 1..Len(r) /\ r[i - 1] = u
    BY <1>1, <1>2, <1>5, <2>1
  <2> QED
    BY <2>2 DEF InQueue
<1>6. InQueue(q, q[1])
  BY <1>2 DEF InQueue
<1> QED
  BY <1>1, <1>2, <1>3, <1>4, <1>5, <1>6

(* A queue without its last. *)
LEMMA FrontQueue ==
  ASSUME NEW q \in Seq(Thread), q # <<>>, Distinct(q)
  PROVE  /\ Last(q) \in Thread /\ InQueue(q, Last(q))
         /\ Front(q) \in Seq(Thread)
         /\ Distinct(Front(q))
         /\ \A u \in Thread : InQueue(Front(q), u) <=> InQueue(q, u) /\ u # Last(q)
<1> DEFINE r == SubSeq(q, 1, Len(q) - 1)
           l == q[Len(q)]
<1>1. Len(q) \in Nat /\ Len(q) > 0 /\ l \in Thread
  OBVIOUS
<1>2. r \in Seq(Thread) /\ Len(r) = Len(q) - 1 /\ \A i \in 1..Len(r) : r[i] = q[i]
  <2>1. PICK n \in Nat : n = Len(q) - 1
    BY <1>1
  <2>2. n \in Int /\ 1 \in Int /\ \A i \in 1..n : q[i] \in Thread
    BY <1>1, <2>1
  <2>3. r = SubSeq(q, 1, n)
    BY <2>1
  <2> HIDE DEF r
  <2>4. /\ r \in Seq(Thread)
        /\ Len(r) = IF 1 <= n THEN n - 1 + 1 ELSE 0
        /\ \A i \in 1..(n - 1 + 1) : r[i] = q[1 + i - 1]
    BY <2>2, <2>3, SubSeqProperties
  <2>5. Len(r) = n /\ n - 1 + 1 = n
    BY <2>4
  <2>6. \A i \in 1..n : r[i] = q[i]
    BY <2>4, <2>5
  <2> QED
    BY <2>1, <2>4, <2>5, <2>6
<1>3. Distinct(r)
  BY <1>1, <1>2 DEF Distinct
<1>4. \A u \in Thread : InQueue(r, u) <=> InQueue(q, u) /\ u # l
  BY <1>1, <1>2 DEF Distinct, InQueue
<1>5. InQueue(q, l)
  BY <1>1 DEF InQueue
<1> QED
  BY <1>1, <1>2, <1>3, <1>4, <1>5 DEF Last, Front

(* Whichever end a project pops, and main put last or not, the next thread *)
(* is one of the ready list and the rest is the others, each still once.   *)
LEMMA NextIsReady ==
  ASSUME NEW p \in {2, 3, 4}, NEW q \in Seq(Thread), Distinct(q), q # <<>>,
         NEW n, n = NextThreadToRun(p, q)
  PROVE  /\ n.next \in Thread /\ InQueue(q, n.next)
         /\ n.rest \in Seq(Thread)
         /\ Distinct(n.rest)
         /\ \A u \in Thread : InQueue(n.rest, u) <=> InQueue(q, u) /\ u # n.next
<1>1. CASE p = 2
  <2>1. n = PopBack(q)
    BY <1>1 DEF NextThreadToRun
  <2>2. n.next = Last(q) /\ n.rest = Front(q)
    BY <2>1 DEF PopBack
  <2> QED
    BY <2>2, FrontQueue
<1>2. CASE p = 4 \/ (p = 3 /\ ~ (Head(q) = Main /\ Len(q) > 1))
  <2>1. n = PopFront(q)
    <3>1. CASE p = 4
      BY <3>1 DEF NextThreadToRun
    <3>2. CASE p = 3
      <4>1. n = PopMainLast(q)
        BY <3>2 DEF NextThreadToRun
      <4> QED
        BY <4>1, <3>2, <1>2 DEF PopMainLast
    <3> QED
      BY <1>2, <3>1, <3>2
  <2>2. n.next = Head(q) /\ n.rest = Tail(q)
    BY <2>1 DEF PopFront
  <2> QED
    BY <2>2, TailQueue
<1>3. CASE p = 3 /\ Head(q) = Main /\ Len(q) > 1
  <2> DEFINE r == Append(Tail(q), Main)
  <2>1. /\ Tail(q) \in Seq(Thread) /\ Distinct(Tail(q)) /\ Main \in Thread
        /\ ~ InQueue(Tail(q), Main)
        /\ \A u \in Thread : InQueue(Tail(q), u) <=> InQueue(q, u) /\ u # Main
        /\ InQueue(q, Main)
    BY <1>3, TailQueue
  <2>2. /\ r \in Seq(Thread) /\ Distinct(r)
        /\ \A u \in Thread : InQueue(r, u) <=> InQueue(q, u)
    BY <2>1, AppendQueue
  <2>3. r # <<>>
    BY <2>1, <2>2 DEF InQueue
  <2>4. /\ Head(r) \in Thread /\ InQueue(r, Head(r))
        /\ Tail(r) \in Seq(Thread) /\ Distinct(Tail(r))
        /\ \A u \in Thread : InQueue(Tail(r), u) <=> InQueue(r, u) /\ u # Head(r)
    BY <2>2, <2>3, TailQueue
  <2>5. n = PopMainLast(q)
    BY <1>3 DEF NextThreadToRun
  <2>6. n = PopFront(r)
    BY <1>3, <2>5 DEF PopMainLast
  <2>7. n.next = Head(r) /\ n.rest = Tail(r)
    BY <2>6 DEF PopFront
  <2> HIDE DEF r
  <2> QED
    BY <2>2, <2>4, <2>7
<1> QED
  BY <1>1, <1>2, <1>3

-----------------------------------------------------------------------------
(* schedule is entered with nobody running: the caller has just left the   *)
(* CPU, and everything else is in order.                                   *)
NobodyRuns(k) ==
  /\ k \in KernelState
  /\ \A t \in Thread : k.status[t] # "RUNNING"
  /\ ReadyIsQueued(k)
  /\ BlockedIsQueued(k)
  /\ WantsIsLive(k)
  /\ SlotsOK(k)

(* What schedule does not touch, the woken threads among it. *)
SameSemaphores(k, m) ==
  /\ m.value = k.value
  /\ m.waiters = k.waiters
  /\ m.wants = k.wants
  /\ \A s \in Sema : Woken(m, s) = Woken(k, s)

(* The running thread keeps the CPU unless it blocked or died. *)
GivesUpCPU(k, m) == m.run = k.run \/ m.status[k.run] \notin {"READY", "RUNNING"}

(* A thread that exists and has not begun to die. *)
Live(k, t) == k.status[t] \in {"RUNNING", "READY", "BLOCKED"}

(* What no operation does, but to the threads of X it is about: free slots *)
(* stay free and nobody dies; and only the running thread falls asleep.    *)
Frame(k, m, X) ==
  /\ m.project = k.project
  /\ \A t \in Thread : k.status[t] = "NONE" /\ t \notin X => m.status[t] = "NONE"
  /\ \A t \in Thread : Live(k, t) /\ t \notin X => Live(m, t)
  /\ \A t \in Thread : m.status[t] = "BLOCKED" => k.status[t] = "BLOCKED" \/ t = k.run

(* What neither of two steps touches, both leave alone. *)
LEMMA FrameTrans ==
  ASSUME NEW k, NEW j, NEW m, NEW X, NEW Y, Frame(k, j, X), Frame(j, m, Y), j.run = k.run
  PROVE  Frame(k, m, X \cup Y)
<1>1. \A t \in Thread : k.status[t] = "NONE" /\ t \notin X \cup Y => m.status[t] = "NONE"
  BY DEF Frame
<1>2. \A t \in Thread : Live(k, t) /\ t \notin X \cup Y => Live(m, t)
  BY DEF Frame
<1>3. \A t \in Thread : m.status[t] = "BLOCKED" => k.status[t] = "BLOCKED" \/ t = k.run
  BY DEF Frame
<1>4. m.project = k.project
  BY DEF Frame
<1> QED
  BY <1>1, <1>2, <1>3, <1>4 DEF Frame

(* The types of the fields. *)
LEMMA KernelRecord ==
  ASSUME NEW k, k \in KernelState
  PROVE  /\ k.project \in {2, 3, 4} /\ k.run \in Thread
         /\ k.status \in [Thread -> Status] /\ k.ready \in Seq(Thread)
         /\ k.value \in [Sema -> Nat] /\ k.waiters \in [Sema -> Seq(Thread)]
         /\ k.wants \in [Thread -> Sema \cup {NoSema}]
  BY KernelAssumption DEF KernelState

(* The thread chosen is ready or idle, so the CPU is given to one thread    *)
(* that leaves the ready list, and a dying one that is freed is in no list. *)
LEMMA ScheduleOK ==
  ASSUME NEW k, NobodyRuns(k)
  PROVE  /\ KernelOK(Schedule(k)) /\ SameSemaphores(k, Schedule(k))
         /\ Frame(k, Schedule(k), {})
         /\ \A t \in Thread : \/ t = Schedule(k).run
                             \/ Schedule(k).status[t] \in {k.status[t], "NONE"}
<1> DEFINE n == NextThreadToRun(k.project, k.ready)
           st == [Reap(k.status, k.run) EXCEPT ![n.next] = "RUNNING"]
           m == Schedule(k)
<1>1. k \in KernelState
  BY DEF NobodyRuns
<1>2. /\ n.next \in Thread /\ n.rest \in Seq(Thread) /\ Distinct(n.rest)
      /\ n.next = Idle \/ (n.next # Idle /\ k.status[n.next] = "READY")
      /\ \A u \in Thread : InQueue(n.rest, u) <=> InQueue(k.ready, u) /\ u # n.next
  <2>1. CASE k.ready = <<>>
    <3>1. n = [next |-> Idle, rest |-> k.ready]
      BY <2>1 DEF NextThreadToRun
    <3>2. n.next = Idle /\ n.rest = k.ready
      BY <3>1
    <3>3. Distinct(k.ready) /\ \A u \in Thread : ~ InQueue(k.ready, u)
      BY <2>1 DEF Distinct, InQueue
    <3> QED
      BY <3>2, <3>3, <1>1, KernelRecord, KernelAssumption
  <2>2. CASE k.ready # <<>>
    <3>1. Distinct(k.ready)
      BY DEF NobodyRuns, ReadyIsQueued
    <3>2. /\ n.next \in Thread /\ InQueue(k.ready, n.next)
          /\ n.rest \in Seq(Thread)
          /\ Distinct(n.rest)
          /\ \A u \in Thread : InQueue(n.rest, u) <=> InQueue(k.ready, u) /\ u # n.next
      BY <2>2, <3>1, <1>1, KernelRecord, NextIsReady
    <3>3. k.status[n.next] = "READY" /\ n.next # Idle
      BY <3>2 DEF NobodyRuns, ReadyIsQueued
    <3> QED
      BY <3>2, <3>3
  <2> QED
    BY <2>1, <2>2
<1> HIDE DEF n
<1>3. /\ st \in [Thread -> Status]
      /\ st[n.next] = "RUNNING"
      /\ \A t \in Thread : t # n.next =>
           st[t] = k.status[t] \/ (st[t] = "NONE" /\ k.status[t] = "DYING" /\ t # Main)
  BY <1>1, <1>2, KernelRecord DEF Reap, Status
<1> HIDE DEF st
<1>4. m = [k EXCEPT !.run = n.next, !.ready = n.rest, !.status = st]
  BY DEF Schedule, n, st
<1> HIDE DEF m
<1>5. /\ m.project = k.project /\ m.run = n.next /\ m.ready = n.rest /\ m.status = st
      /\ m.value = k.value /\ m.waiters = k.waiters /\ m.wants = k.wants
      /\ m \in KernelState
  BY <1>1, <1>2, <1>3, <1>4 DEF KernelState
<1>6. OneRuns(m)
  BY <1>2, <1>3, <1>5 DEF OneRuns, NobodyRuns
<1>7. ReadyIsQueued(m)
  BY <1>2, <1>3, <1>5 DEF ReadyIsQueued, NobodyRuns
<1>8. BlockedIsQueued(m)
  BY <1>2, <1>3, <1>5, KernelAssumption
  DEF BlockedIsQueued, NobodyRuns, ReadyIsQueued, WantsIsLive
<1>9. WantsIsLive(m)
  BY <1>2, <1>3, <1>5 DEF WantsIsLive, NobodyRuns
<1>10. SlotsOK(m)
  BY <1>2, <1>3, <1>5, KernelAssumption DEF SlotsOK, NobodyRuns
<1>11. SameSemaphores(k, m)
  <2>1. ASSUME NEW s \in Sema PROVE Woken(m, s) = Woken(k, s)
    <3>1. k.wants[Idle] # s
      BY KernelAssumption DEF NobodyRuns, WantsIsLive
    <3> QED
      BY <3>1, <1>2, <1>3, <1>5 DEF Woken, NobodyRuns
  <2> QED
    BY <2>1, <1>5 DEF SameSemaphores
<1>12. Frame(k, m, {})
  <2>1. k.status[n.next] # "NONE"
    BY <1>2 DEF NobodyRuns, SlotsOK
  <2> QED
    BY <2>1, <1>2, <1>3, <1>5 DEF Frame, Live
<1> QED
  BY <1>3, <1>5, <1>6, <1>7, <1>8, <1>9, <1>10, <1>11, <1>12 DEF KernelOK, m

-----------------------------------------------------------------------------
(* The operations, one lemma each. *)

(* Blocking a thread that is in no sema_down. *)
LEMMA BlockOK ==
  ASSUME NEW k, KernelOK(k), k.wants[k.run] = NoSema
  PROVE  /\ KernelOK(ThreadBlock(k)) /\ SameSemaphores(k, ThreadBlock(k))
         /\ GivesUpCPU(k, ThreadBlock(k)) /\ Frame(k, ThreadBlock(k), {})
<1> DEFINE j == [k EXCEPT !.status[k.run] = "BLOCKED"]
<1>1. k \in KernelState /\ k.run \in Thread /\ k.status[k.run] = "RUNNING"
  BY KernelRecord DEF KernelOK, OneRuns
<1>2. /\ j.project = k.project /\ j.run = k.run /\ j.ready = k.ready
      /\ j.value = k.value /\ j.waiters = k.waiters /\ j.wants = k.wants
      /\ j.status = [k.status EXCEPT ![k.run] = "BLOCKED"]
      /\ j \in KernelState
  BY <1>1 DEF KernelState, Status
<1> HIDE DEF j
<1>3. /\ j.status[k.run] = "BLOCKED"
      /\ \A t \in Thread : t # k.run => j.status[t] = k.status[t]
  BY <1>1, <1>2, KernelRecord
<1>4. NobodyRuns(j)
  <2>1. \A t \in Thread : j.status[t] # "RUNNING"
    BY <1>1, <1>3 DEF KernelOK, OneRuns
  <2>2. ReadyIsQueued(j)
    BY <1>1, <1>2, <1>3 DEF KernelOK, ReadyIsQueued
  <2>3. BlockedIsQueued(j)
    BY <1>1, <1>2, <1>3, KernelAssumption DEF KernelOK, BlockedIsQueued
  <2>4. WantsIsLive(j)
    BY <1>1, <1>2, <1>3 DEF KernelOK, WantsIsLive
  <2>5. SlotsOK(j)
    BY <1>1, <1>2, <1>3, KernelAssumption DEF KernelOK, SlotsOK
  <2> QED
    BY <1>2, <2>1, <2>2, <2>3, <2>4, <2>5 DEF NobodyRuns
<1>5. SameSemaphores(k, j)
  <2>1. ASSUME NEW s \in Sema PROVE Woken(j, s) = Woken(k, s)
    BY <1>1, <1>2, <1>3, KernelAssumption DEF Woken
  <2> QED
    BY <1>2, <2>1 DEF SameSemaphores
<1>6. ThreadBlock(k) = Schedule(j)
  BY DEF ThreadBlock, j
<1>7. Frame(k, j, {})
  BY <1>1, <1>2, <1>3 DEF Frame, Live
<1>8. Frame(k, ThreadBlock(k), {})
  BY <1>2, <1>4, <1>6, <1>7, ScheduleOK, FrameTrans
<1> QED
  BY <1>1, <1>3, <1>4, <1>5, <1>6, <1>8, ScheduleOK DEF SameSemaphores, GivesUpCPU

(* Making ready a blocked thread that waits on no semaphore. *)
LEMMA UnblockOK ==
  ASSUME NEW k, KernelOK(k), NEW t \in Thread,
         t # Idle, k.status[t] = "BLOCKED", k.wants[t] = NoSema
  PROVE  /\ KernelOK(ThreadUnblock(k, t)) /\ SameSemaphores(k, ThreadUnblock(k, t))
         /\ ThreadUnblock(k, t).run = k.run /\ Frame(k, ThreadUnblock(k, t), {})
         /\ ThreadUnblock(k, t).status = [k.status EXCEPT ![t] = "READY"]
<1> DEFINE m == ThreadUnblock(k, t)
<1>1. k \in KernelState
  BY DEF KernelOK
<1>2. /\ Append(k.ready, t) \in Seq(Thread) /\ Distinct(Append(k.ready, t))
      /\ \A u \in Thread : InQueue(Append(k.ready, t), u) <=> InQueue(k.ready, u) \/ u = t
  BY <1>1, KernelRecord, AppendQueue DEF KernelOK, ReadyIsQueued
<1>3. /\ m.project = k.project /\ m.run = k.run /\ m.ready = Append(k.ready, t)
      /\ m.value = k.value /\ m.waiters = k.waiters /\ m.wants = k.wants
      /\ m.status = [k.status EXCEPT ![t] = "READY"]
      /\ m \in KernelState
  BY <1>1, <1>2 DEF ThreadUnblock, KernelState, Status
<1> HIDE DEF m
<1>4. m.status[t] = "READY" /\ \A u \in Thread : u # t => m.status[u] = k.status[u]
  BY <1>1, <1>3, KernelRecord
<1>5. OneRuns(m)
  BY <1>3, <1>4 DEF KernelOK, OneRuns
<1>6. ReadyIsQueued(m)
  BY <1>2, <1>3, <1>4 DEF KernelOK, ReadyIsQueued
<1>7. BlockedIsQueued(m)
  BY <1>3, <1>4, KernelAssumption DEF KernelOK, BlockedIsQueued
<1>8. WantsIsLive(m) /\ SlotsOK(m)
  BY <1>3, <1>4, KernelAssumption DEF KernelOK, WantsIsLive, SlotsOK
<1>9. ASSUME NEW s \in Sema PROVE Woken(m, s) = Woken(k, s)
  BY <1>3, <1>4, KernelAssumption DEF Woken
<1>10. Frame(k, m, {})
  BY <1>3, <1>4 DEF Frame, Live
<1> QED
  BY <1>3, <1>5, <1>6, <1>7, <1>8, <1>9, <1>10 DEF KernelOK, SameSemaphores, m

(* thread_create makes one thread ready and preempts nobody. *)
LEMMA CreateOK ==
  ASSUME NEW k, KernelOK(k), NEW t \in Thread, k.status[t] = "NONE"
  PROVE  /\ KernelOK(ThreadCreate(k, t)) /\ SameSemaphores(k, ThreadCreate(k, t))
         /\ ThreadCreate(k, t).run = k.run /\ Frame(k, ThreadCreate(k, t), {t})
         /\ ThreadCreate(k, t).status = [k.status EXCEPT ![t] = "READY"]
<1> DEFINE j == [k EXCEPT !.status[t] = "BLOCKED"]
<1>1. k \in KernelState /\ t # Idle /\ t # Main /\ k.wants[t] = NoSema
  BY KernelRecord DEF KernelOK, SlotsOK, WantsIsLive
<1>2. /\ j.project = k.project /\ j.run = k.run /\ j.ready = k.ready
      /\ j.value = k.value /\ j.waiters = k.waiters /\ j.wants = k.wants
      /\ j.status = [k.status EXCEPT ![t] = "BLOCKED"]
      /\ j \in KernelState
  BY <1>1 DEF KernelState, Status
<1> HIDE DEF j
<1>3. j.status[t] = "BLOCKED" /\ \A u \in Thread : u # t => j.status[u] = k.status[u]
  BY <1>1, <1>2, KernelRecord
<1>4. KernelOK(j)
  <2>1. OneRuns(j)
    BY <1>2, <1>3 DEF KernelOK, OneRuns
  <2>2. ReadyIsQueued(j)
    BY <1>2, <1>3 DEF KernelOK, ReadyIsQueued
  <2>3. BlockedIsQueued(j)
    BY <1>1, <1>2, <1>3, KernelAssumption DEF KernelOK, BlockedIsQueued
  <2>4. WantsIsLive(j) /\ SlotsOK(j)
    BY <1>1, <1>2, <1>3, KernelAssumption DEF KernelOK, WantsIsLive, SlotsOK
  <2> QED
    BY <1>2, <2>1, <2>2, <2>3, <2>4 DEF KernelOK
<1>5. SameSemaphores(k, j)
  <2>1. ASSUME NEW s \in Sema PROVE Woken(j, s) = Woken(k, s)
    BY <1>1, <1>2, <1>3, KernelAssumption DEF Woken
  <2> QED
    BY <1>2, <2>1 DEF SameSemaphores
<1>6. ThreadCreate(k, t) = ThreadUnblock(j, t)
  BY DEF ThreadCreate, j
<1> DEFINE m == ThreadUnblock(j, t)
<1>7. /\ KernelOK(m) /\ SameSemaphores(j, m) /\ m.run = j.run /\ Frame(j, m, {})
      /\ m.status = [j.status EXCEPT ![t] = "READY"]
  BY <1>1, <1>2, <1>3, <1>4, UnblockOK
<1> HIDE DEF m
<1>8. m.status = [k.status EXCEPT ![t] = "READY"]
  BY <1>1, <1>2, <1>7, KernelRecord
<1>9. Frame(k, m, {t})
  BY <1>1, <1>2, <1>7, <1>8, KernelRecord DEF Frame, Live
<1> QED
  BY <1>2, <1>5, <1>6, <1>7, <1>8, <1>9 DEF SameSemaphores, m

(* A thread that yields goes to the ready list; idle is never put there. *)
LEMMA YieldOK ==
  ASSUME NEW k, KernelOK(k)
  PROVE  /\ KernelOK(ThreadYield(k)) /\ SameSemaphores(k, ThreadYield(k))
         /\ Frame(k, ThreadYield(k), {})
<1> DEFINE q == IF k.run # Idle THEN Append(k.ready, k.run) ELSE k.ready
           j == [k EXCEPT !.ready = IF k.run # Idle THEN Append(@, k.run) ELSE @,
                          !.status[k.run] = "READY"]
<1>1. k \in KernelState /\ k.run \in Thread /\ k.status[k.run] = "RUNNING"
  BY KernelRecord DEF KernelOK, OneRuns
<1>2. /\ q \in Seq(Thread) /\ Distinct(q)
      /\ \A u \in Thread : InQueue(q, u) <=> InQueue(k.ready, u) \/ (u = k.run /\ u # Idle)
  <2>1. CASE k.run = Idle
    BY <2>1, <1>1, KernelRecord DEF KernelOK, ReadyIsQueued
  <2>2. CASE k.run # Idle
    BY <2>2, <1>1, KernelRecord, AppendQueue DEF KernelOK, ReadyIsQueued
  <2> QED
    BY <2>1, <2>2
<1>3. j = [k EXCEPT !.ready = q, !.status[k.run] = "READY"]
  OBVIOUS
<1> HIDE DEF q, j
<1>4. /\ j.project = k.project /\ j.run = k.run /\ j.ready = q
      /\ j.value = k.value /\ j.waiters = k.waiters /\ j.wants = k.wants
      /\ j.status = [k.status EXCEPT ![k.run] = "READY"]
      /\ j \in KernelState
  BY <1>1, <1>2, <1>3 DEF KernelState, Status
<1>5. /\ j.status[k.run] = "READY"
      /\ \A t \in Thread : t # k.run => j.status[t] = k.status[t]
  BY <1>1, <1>4, KernelRecord
<1>6. NobodyRuns(j)
  <2>1. \A t \in Thread : j.status[t] # "RUNNING"
    BY <1>1, <1>5 DEF KernelOK, OneRuns
  <2>2. ReadyIsQueued(j)
    BY <1>1, <1>2, <1>4, <1>5 DEF KernelOK, ReadyIsQueued
  <2>3. BlockedIsQueued(j)
    BY <1>1, <1>4, <1>5, KernelAssumption DEF KernelOK, BlockedIsQueued
  <2>4. WantsIsLive(j) /\ SlotsOK(j)
    BY <1>1, <1>4, <1>5, KernelAssumption DEF KernelOK, WantsIsLive, SlotsOK
  <2> QED
    BY <1>4, <2>1, <2>2, <2>3, <2>4 DEF NobodyRuns
<1>7. SameSemaphores(k, j)
  <2>1. ASSUME NEW s \in Sema PROVE Woken(j, s) = Woken(k, s)
    BY <1>1, <1>4, <1>5 DEF Woken
  <2> QED
    BY <1>4, <2>1 DEF SameSemaphores
<1>8. ThreadYield(k) = Schedule(j)
  BY DEF ThreadYield, j
<1>9. Frame(k, j, {})
  BY <1>1, <1>4, <1>5 DEF Frame, Live
<1>10. Frame(k, ThreadYield(k), {})
  BY <1>4, <1>6, <1>8, <1>9, ScheduleOK, FrameTrans
<1> QED
  BY <1>6, <1>7, <1>8, <1>10, ScheduleOK DEF SameSemaphores

(* Project 2 pops what it has just pushed. *)
LEMMA YieldKeepsCPU ==
  ASSUME NEW k, KernelOK(k), k.project = 2, k.run # Idle
  PROVE  ThreadYield(k).run = k.run
<1> DEFINE q == Append(k.ready, k.run)
           j == [k EXCEPT !.ready = IF k.run # Idle THEN Append(@, k.run) ELSE @,
                          !.status[k.run] = "READY"]
           n == NextThreadToRun(j.project, j.ready)
<1>1. k \in KernelState /\ k.ready \in Seq(Thread) /\ k.run \in Thread
  BY KernelRecord DEF KernelOK
<1>2. q \in Seq(Thread) /\ q # <<>> /\ Last(q) = k.run
  BY <1>1, AppendProperties DEF Last
<1>3. j.project = 2 /\ j.ready = q /\ j \in KernelState
  BY <1>1, <1>2 DEF KernelState, Status
<1> HIDE DEF q, j
<1>4. n = PopBack(q)
  BY <1>2, <1>3 DEF NextThreadToRun
<1>5. n.next = k.run
  BY <1>2, <1>4 DEF PopBack
<1> HIDE DEF n
<1>6. ThreadYield(k) = Schedule(j)
  BY DEF ThreadYield, j
<1>7. Schedule(j).run = n.next
  BY <1>3 DEF Schedule, KernelState, n
<1> QED
  BY <1>5, <1>6, <1>7

(* thread_exit gives up the CPU and touches no semaphore. *)
LEMMA ExitOK ==
  ASSUME NEW k, KernelOK(k), k.run # Idle, k.wants[k.run] = NoSema
  PROVE  /\ KernelOK(ThreadExit(k)) /\ SameSemaphores(k, ThreadExit(k))
         /\ GivesUpCPU(k, ThreadExit(k)) /\ Frame(k, ThreadExit(k), {k.run})
<1> DEFINE j == [k EXCEPT !.status[k.run] = "DYING"]
<1>1. k \in KernelState /\ k.run \in Thread /\ k.status[k.run] = "RUNNING"
  BY KernelRecord DEF KernelOK, OneRuns
<1>2. /\ j.project = k.project /\ j.run = k.run /\ j.ready = k.ready
      /\ j.value = k.value /\ j.waiters = k.waiters /\ j.wants = k.wants
      /\ j.status = [k.status EXCEPT ![k.run] = "DYING"]
      /\ j \in KernelState
  BY <1>1 DEF KernelState, Status
<1> HIDE DEF j
<1>3. /\ j.status[k.run] = "DYING"
      /\ \A t \in Thread : t # k.run => j.status[t] = k.status[t]
  BY <1>1, <1>2, KernelRecord
<1>4. NobodyRuns(j)
  <2>1. \A t \in Thread : j.status[t] # "RUNNING"
    BY <1>1, <1>3 DEF KernelOK, OneRuns
  <2>2. ReadyIsQueued(j)
    BY <1>1, <1>2, <1>3 DEF KernelOK, ReadyIsQueued
  <2>3. BlockedIsQueued(j)
    BY <1>1, <1>2, <1>3 DEF KernelOK, BlockedIsQueued
  <2>4. WantsIsLive(j) /\ SlotsOK(j)
    BY <1>1, <1>2, <1>3, KernelAssumption DEF KernelOK, WantsIsLive, SlotsOK
  <2> QED
    BY <1>2, <2>1, <2>2, <2>3, <2>4 DEF NobodyRuns
<1>5. SameSemaphores(k, j)
  <2>1. ASSUME NEW s \in Sema PROVE Woken(j, s) = Woken(k, s)
    BY <1>1, <1>2, <1>3, KernelAssumption DEF Woken
  <2> QED
    BY <1>2, <2>1 DEF SameSemaphores
<1>6. ThreadExit(k) = Schedule(j)
  BY DEF ThreadExit, j
<1>7. Frame(k, j, {k.run})
  BY <1>1, <1>2, <1>3 DEF Frame, Live
<1>8. Frame(k, ThreadExit(k), {k.run} \cup {})
  BY <1>2, <1>4, <1>6, <1>7, ScheduleOK, FrameTrans
<1> QED
  BY <1>1, <1>3, <1>4, <1>5, <1>6, <1>8, ScheduleOK DEF SameSemaphores, GivesUpCPU

-----------------------------------------------------------------------------
(* Semaphores.  Ups that are not lost, for all of them: *)
Covered(k) == \A s \in Sema : WakeupsCover(k, s)

(* No wakeup is lost where no semaphore is touched. *)
LEMMA SameCovered ==
  ASSUME NEW k, NEW m, SameSemaphores(k, m), Covered(k)
  PROVE  Covered(m)
  BY DEF SameSemaphores, Covered, WakeupsCover

(* The woken can be counted. *)
LEMMA WokenFinite ==
  ASSUME NEW k, NEW s
  PROVE  IsFiniteSet(Woken(k, s)) /\ Cardinality(Woken(k, s)) \in Nat
<1>1. Woken(k, s) \subseteq Thread
  BY DEF Woken
<1> QED
  BY <1>1, KernelAssumption, FS_Subset, FS_CardinalityType

(* sema_try_down takes one or nothing, and never sleeps. *)
LEMMA TryDownOK ==
  ASSUME NEW k, KernelOK(k), Covered(k), NEW s \in Sema
  PROVE  /\ KernelOK(SemaTryDown(k, s)) /\ Covered(SemaTryDown(k, s))
         /\ SemaTryDown(k, s).run = k.run /\ SemaTryDown(k, s).wants = k.wants
         /\ \/ SemaTryDown(k, s).value = k.value
            \/ /\ k.value[s] > 0
               /\ SemaTryDown(k, s).value = [k.value EXCEPT ![s] = @ - 1]
<1> DEFINE m == SemaTryDown(k, s)
<1>1. CASE k.value[s] = 0
  <2>1. m = k
    BY <1>1 DEF SemaTryDown
  <2> QED
    BY <2>1
<1>2. CASE k.value[s] # 0
  <2>1. k \in KernelState /\ k.value \in [Sema -> Nat] /\ k.value[s] - 1 \in Nat
    BY <1>2, KernelRecord DEF KernelOK
  <2>2. m = [k EXCEPT !.value[s] = @ - 1]
    BY <1>2, <2>1 DEF SemaTryDown
  <2> HIDE DEF m
  <2>3. /\ m.run = k.run /\ m.ready = k.ready /\ m.status = k.status
        /\ m.waiters = k.waiters /\ m.wants = k.wants
        /\ m.value = [k.value EXCEPT ![s] = k.value[s] - 1]
        /\ m \in KernelState
    BY <2>1, <2>2 DEF KernelState
  <2>4. KernelOK(m)
    BY <2>3 DEF KernelOK, OneRuns, ReadyIsQueued, BlockedIsQueued, WantsIsLive, SlotsOK
  <2>5. ASSUME NEW r \in Sema PROVE WakeupsCover(m, r)
    <3>1. Woken(m, r) = Woken(k, r)
      BY <2>3 DEF Woken
    <3>2. k.value[r] \in Nat /\ m.value[r] \in Nat /\ m.value[r] <= k.value[r]
      BY <2>1, <2>3
    <3>3. k.waiters[r] # <<>> => k.value[r] <= Cardinality(Woken(k, r))
      BY DEF Covered, WakeupsCover
    <3>4. Cardinality(Woken(k, r)) \in Nat
      BY WokenFinite
    <3> QED
      BY <2>3, <3>1, <3>2, <3>3, <3>4 DEF WakeupsCover
  <2> QED
    BY <1>2, <2>1, <2>3, <2>4, <2>5 DEF Covered, m
<1> QED
  BY <1>1, <1>2

(* The decrement of sema_down takes one unit and, if the running thread had *)
(* been woken for s, one thread from those the value is owed to.            *)
LEMMA TakeOK ==
  ASSUME NEW k, KernelOK(k), Covered(k), NEW s \in Sema,
         k.value[s] # 0, k.wants[k.run] \in {NoSema, s}
  PROVE  /\ KernelOK(SemaTake(k, s)) /\ Covered(SemaTake(k, s))
         /\ SemaTake(k, s).run = k.run
         /\ SemaTake(k, s).wants = [k.wants EXCEPT ![k.run] = NoSema]
         /\ SemaTake(k, s).value = [k.value EXCEPT ![s] = @ - 1]
         /\ SemaTake(k, s).project = k.project /\ SemaTake(k, s).status = k.status
<1> DEFINE m == SemaTake(k, s)
<1>1. /\ k \in KernelState /\ k.value \in [Sema -> Nat] /\ k.value[s] - 1 \in Nat
      /\ k.run \in Thread /\ k.status[k.run] = "RUNNING"
  BY KernelRecord DEF KernelOK, OneRuns
<1>2. /\ m.project = k.project /\ m.run = k.run /\ m.ready = k.ready
      /\ m.status = k.status /\ m.waiters = k.waiters
      /\ m.wants = [k.wants EXCEPT ![k.run] = NoSema]
      /\ m.value = [k.value EXCEPT ![s] = k.value[s] - 1]
      /\ m \in KernelState
  BY <1>1 DEF KernelState, SemaTake
<1> HIDE DEF m
<1>3. /\ m.wants[k.run] = NoSema
      /\ \A t \in Thread : t # k.run => m.wants[t] = k.wants[t]
  BY <1>1, <1>2, KernelRecord
<1>4. OneRuns(m) /\ ReadyIsQueued(m) /\ SlotsOK(m)
  BY <1>2 DEF KernelOK, OneRuns, ReadyIsQueued, SlotsOK
<1>5. BlockedIsQueued(m)
  BY <1>1, <1>2, <1>3 DEF KernelOK, BlockedIsQueued
<1>6. WantsIsLive(m)
  BY <1>1, <1>2, <1>3 DEF KernelOK, WantsIsLive
<1>7. ASSUME NEW r \in Sema PROVE WakeupsCover(m, r)
  <2>1. k.waiters[r] # <<>> => k.value[r] <= Cardinality(Woken(k, r))
    BY DEF Covered, WakeupsCover
  <2>2. k.value[r] \in Nat /\ Cardinality(Woken(k, r)) \in Nat /\ m.waiters[r] = k.waiters[r]
    BY <1>1, <1>2, WokenFinite
  <2>3. CASE r # s
    <3>1. Woken(m, r) = Woken(k, r)
      BY <1>1, <1>2, <1>3, <2>3, KernelAssumption DEF Woken
    <3>2. m.value[r] = k.value[r]
      BY <1>1, <1>2, <2>3
    <3> QED
      BY <2>1, <2>2, <3>1, <3>2 DEF WakeupsCover
  <2>4. CASE r = s
    <3>1. m.value[r] = k.value[r] - 1
      BY <1>1, <1>2, <2>4
    <3>2. Woken(m, r) = Woken(k, r) \ {k.run}
      BY <1>1, <1>2, <1>3, KernelAssumption DEF Woken
    <3>3. Cardinality(Woken(m, r)) >= Cardinality(Woken(k, r)) - 1
      <4>1. CASE k.run \in Woken(k, r)
        <5>1. Cardinality(Woken(k, r) \ {k.run}) = Cardinality(Woken(k, r)) - 1
          BY <4>1, WokenFinite, FS_RemoveElement
        <5> QED
          BY <2>2, <3>2, <5>1
      <4>2. CASE k.run \notin Woken(k, r)
        <5>1. Woken(m, r) = Woken(k, r)
          BY <3>2, <4>2
        <5> QED
          BY <2>2, <5>1
      <4> QED
        BY <4>1, <4>2
    <3>4. Cardinality(Woken(m, r)) \in Nat
      BY WokenFinite
    <3> QED
      BY <2>1, <2>2, <3>1, <3>3, <3>4 DEF WakeupsCover
  <2> QED
    BY <2>3, <2>4
<1> QED
  BY <1>2, <1>4, <1>5, <1>6, <1>7 DEF KernelOK, Covered, m

(* Waiting is only for a semaphore at zero, of which nothing is owed. *)
LEMMA WaitOK ==
  ASSUME NEW k, KernelOK(k), Covered(k), NEW s \in Sema,
         k.value[s] = 0, k.run # Idle, k.wants[k.run] \in {NoSema, s}
  PROVE  /\ KernelOK(SemaWait(k, s)) /\ Covered(SemaWait(k, s))
         /\ GivesUpCPU(k, SemaWait(k, s))
         /\ SemaWait(k, s).wants = [k.wants EXCEPT ![k.run] = s]
         /\ SemaWait(k, s).value = k.value
         /\ Frame(k, SemaWait(k, s), {})
<1> DEFINE w == [k EXCEPT !.waiters[s] = Append(@, k.run), !.wants[k.run] = s]
           j == [w EXCEPT !.status[w.run] = "BLOCKED"]
<1>1. /\ k \in KernelState /\ k.value \in [Sema -> Nat]
      /\ k.waiters \in [Sema -> Seq(Thread)] /\ k.waiters[s] \in Seq(Thread)
      /\ k.run \in Thread /\ k.status[k.run] = "RUNNING"
  BY KernelRecord DEF KernelOK, OneRuns
<1>2. /\ Append(k.waiters[s], k.run) \in Seq(Thread)
      /\ Distinct(Append(k.waiters[s], k.run))
      /\ \A u \in Thread :
           InQueue(Append(k.waiters[s], k.run), u) <=> InQueue(k.waiters[s], u) \/ u = k.run
  BY <1>1, AppendQueue DEF KernelOK, BlockedIsQueued
<1>3. /\ w.project = k.project /\ w.run = k.run /\ w.ready = k.ready
      /\ w.status = k.status /\ w.value = k.value
      /\ w.waiters = [k.waiters EXCEPT ![s] = Append(k.waiters[s], k.run)]
      /\ w.wants = [k.wants EXCEPT ![k.run] = s]
      /\ w \in KernelState
  BY <1>1, <1>2 DEF KernelState
<1> HIDE DEF w
<1>4. /\ j.project = k.project /\ j.run = k.run
      /\ j.ready = k.ready /\ j.value = k.value
      /\ j.waiters = [k.waiters EXCEPT ![s] = Append(k.waiters[s], k.run)]
      /\ j.wants = [k.wants EXCEPT ![k.run] = s]
      /\ j.status = [k.status EXCEPT ![k.run] = "BLOCKED"]
      /\ j \in KernelState
  BY <1>1, <1>3 DEF KernelState, Status
<1> HIDE DEF j
<1>5. /\ j.status[k.run] = "BLOCKED" /\ j.wants[k.run] = s
      /\ \A t \in Thread : t # k.run => j.status[t] = k.status[t] /\ j.wants[t] = k.wants[t]
  BY <1>1, <1>4, KernelRecord
<1>6. /\ j.waiters[s] = Append(k.waiters[s], k.run)
      /\ \A r \in Sema : r # s => j.waiters[r] = k.waiters[r]
  BY <1>1, <1>4
<1>7. NobodyRuns(j)
  <2>1. \A t \in Thread : j.status[t] # "RUNNING"
    BY <1>1, <1>5 DEF KernelOK, OneRuns
  <2>2. ReadyIsQueued(j)
    BY <1>1, <1>4, <1>5 DEF KernelOK, ReadyIsQueued
  <2>3. BlockedIsQueued(j)
    <3> SUFFICES ASSUME NEW r \in Sema
                 PROVE  /\ Distinct(j.waiters[r])
                        /\ \A t \in Thread : InQueue(j.waiters[r], t)
                                <=> (j.status[t] = "BLOCKED" /\ j.wants[t] = r)
      BY DEF BlockedIsQueued
    <3>1. CASE r = s
      <4>1. \A t \in Thread : InQueue(k.waiters[s], t)
                               <=> (k.status[t] = "BLOCKED" /\ k.wants[t] = s)
        BY DEF KernelOK, BlockedIsQueued
      <4>2. j.waiters[r] = Append(k.waiters[s], k.run)
        BY <1>6, <3>1
      <4>3. \A t \in Thread : t # k.run =>
              (InQueue(j.waiters[r], t) <=> (j.status[t] = "BLOCKED" /\ j.wants[t] = r))
        BY <1>2, <1>5, <3>1, <4>1, <4>2
      <4>4. InQueue(j.waiters[r], k.run) /\ j.status[k.run] = "BLOCKED" /\ j.wants[k.run] = r
        BY <1>1, <1>2, <1>5, <3>1, <4>2
      <4> QED
        BY <1>2, <4>2, <4>3, <4>4
    <3>2. CASE r # s
      BY <1>1, <1>5, <1>6, <3>2, SMTT(20) DEF KernelOK, BlockedIsQueued
    <3> QED
      BY <3>1, <3>2
  <2>4. WantsIsLive(j) /\ SlotsOK(j)
    BY <1>1, <1>5, KernelAssumption DEF KernelOK, WantsIsLive, SlotsOK
  <2> QED
    BY <1>4, <2>1, <2>2, <2>3, <2>4 DEF NobodyRuns
<1>8. Covered(j)
  <2> SUFFICES ASSUME NEW r \in Sema PROVE WakeupsCover(j, r)
    BY DEF Covered
  <2>1. CASE r = s
    <3>1. j.value[r] = 0 /\ Cardinality(Woken(j, r)) \in Nat
      BY <1>4, <2>1, WokenFinite
    <3> QED
      BY <3>1 DEF WakeupsCover
  <2>2. CASE r # s
    <3>1. Woken(j, r) = Woken(k, r)
      BY <1>1, <1>5, <2>2, KernelAssumption DEF Woken
    <3> QED
      BY <1>4, <1>6, <2>2, <3>1 DEF Covered, WakeupsCover
  <2> QED
    BY <2>1, <2>2
<1>9. SemaWait(k, s) = Schedule(j)
  BY DEF SemaWait, ThreadBlock, j, w
<1>10. GivesUpCPU(k, Schedule(j))
  BY <1>1, <1>5, <1>7, ScheduleOK DEF GivesUpCPU
<1>11. Frame(k, j, {})
  BY <1>1, <1>4, <1>5 DEF Frame, Live
<1>12. Frame(k, Schedule(j), {})
  BY <1>4, <1>7, <1>11, ScheduleOK, FrameTrans
<1> QED
  BY <1>4, <1>7, <1>8, <1>9, <1>10, <1>12, ScheduleOK, SameCovered DEF SameSemaphores

(* sema_down takes one or sleeps. *)
LEMMA DownOK ==
  ASSUME NEW k, KernelOK(k), Covered(k), NEW s \in Sema,
         k.run # Idle, k.wants[k.run] \in {NoSema, s}
  PROVE  /\ KernelOK(SemaDown(k, s)) /\ Covered(SemaDown(k, s))
         /\ GivesUpCPU(k, SemaDown(k, s)) /\ Frame(k, SemaDown(k, s), {})
         /\ \/ /\ k.value[s] = 0
               /\ SemaDown(k, s).wants = [k.wants EXCEPT ![k.run] = s]
               /\ SemaDown(k, s).value = k.value
            \/ /\ k.value[s] > 0
               /\ SemaDown(k, s).run = k.run /\ SemaDown(k, s).status = k.status
               /\ SemaDown(k, s).wants = [k.wants EXCEPT ![k.run] = NoSema]
               /\ SemaDown(k, s).value = [k.value EXCEPT ![s] = @ - 1]
<1>1. CASE k.value[s] = 0
  <2>1. SemaDown(k, s) = SemaWait(k, s)
    BY <1>1 DEF SemaDown
  <2> QED
    BY <1>1, <2>1, WaitOK
<1>2. CASE k.value[s] # 0
  <2>1. SemaDown(k, s) = SemaTake(k, s)
    BY <1>2 DEF SemaDown
  <2> QED
    <3>1. k.value[s] > 0
      BY <1>2, KernelRecord DEF KernelOK
    <3> DEFINE m == SemaTake(k, s)
    <3>2. /\ KernelOK(m) /\ Covered(m) /\ m.run = k.run
          /\ m.wants = [k.wants EXCEPT ![k.run] = NoSema]
          /\ m.value = [k.value EXCEPT ![s] = @ - 1]
          /\ m.project = k.project /\ m.status = k.status
      BY <1>2, TakeOK
    <3> HIDE DEF m
    <3>3. Frame(k, m, {}) /\ GivesUpCPU(k, m)
      BY <3>2 DEF Frame, Live, GivesUpCPU
    <3> QED
      BY <2>1, <3>1, <3>2, <3>3 DEF m
<1> QED
  BY <1>1, <1>2

Sleeps(k, t, s) == k.status[t] = "BLOCKED" /\ k.wants[t] = s

(* Only a thread that sleeps on s is woken, and one is. *)
WakesOne(k, m, s) ==
  \A t \in Thread :
    /\ m.status[t] # k.status[t] => Sleeps(k, t, s) /\ m.status[t] = "READY"
    /\ Sleeps(m, t, s) => \E u \in Thread : u # t /\ Sleeps(k, u, s)

(* sema_up adds one unit and, if anybody sleeps, one thread it is owed to. *)
LEMMA UpOK ==
  ASSUME NEW k, KernelOK(k), Covered(k), NEW s \in Sema
  PROVE  /\ KernelOK(SemaUp(k, s)) /\ Covered(SemaUp(k, s))
         /\ SemaUp(k, s).run = k.run /\ SemaUp(k, s).wants = k.wants
         /\ SemaUp(k, s).value = [k.value EXCEPT ![s] = @ + 1]
         /\ Frame(k, SemaUp(k, s), {}) /\ WakesOne(k, SemaUp(k, s), s)
<1> DEFINE t == Head(k.waiters[s])
           d == [k EXCEPT !.waiters[s] = Tail(@)]
           w == SemaWake(k, s)
           m == SemaUp(k, s)
<1>1. /\ k \in KernelState /\ k.value \in [Sema -> Nat] /\ k.value[s] + 1 \in Nat
      /\ k.waiters \in [Sema -> Seq(Thread)] /\ k.waiters[s] \in Seq(Thread)
  BY KernelRecord DEF KernelOK
<1>2. m = [w EXCEPT !.value[s] = @ + 1]
  BY DEF SemaUp
<1> HIDE DEF m
<1>3. CASE k.waiters[s] = <<>>
  <2>1. w = k
    BY <1>3 DEF SemaWake
  <2> HIDE DEF w
  <2>2. /\ m.project = k.project /\ m.run = k.run /\ m.ready = k.ready
        /\ m.status = k.status /\ m.waiters = k.waiters /\ m.wants = k.wants
        /\ m.value = [k.value EXCEPT ![s] = k.value[s] + 1]
        /\ m \in KernelState
    BY <1>1, <1>2, <2>1 DEF KernelState
  <2>3. KernelOK(m)
    BY <2>2 DEF KernelOK, OneRuns, ReadyIsQueued, BlockedIsQueued, WantsIsLive, SlotsOK
  <2>4. ASSUME NEW r \in Sema PROVE WakeupsCover(m, r)
    <3>1. Woken(m, r) = Woken(k, r)
      BY <2>2 DEF Woken
    <3>2. r # s => m.value[r] = k.value[r]
      BY <1>1, <2>2
    <3> QED
      BY <1>3, <2>2, <3>1, <3>2 DEF Covered, WakeupsCover
  <2>5. Frame(k, m, {})
    BY <2>2 DEF Frame, Live
  <2>6. WakesOne(k, m, s)
    <3>1. \A u \in Thread : ~ InQueue(k.waiters[s], u)
      BY <1>3 DEF InQueue
    <3> QED
      BY <2>2, <3>1 DEF WakesOne, Sleeps, KernelOK, BlockedIsQueued
  <2> QED
    BY <2>2, <2>3, <2>4, <2>5, <2>6 DEF Covered, m
<1>4. CASE k.waiters[s] # <<>>
  <2>1. /\ t \in Thread /\ InQueue(k.waiters[s], t)
        /\ Tail(k.waiters[s]) \in Seq(Thread) /\ Distinct(Tail(k.waiters[s]))
        /\ \A u \in Thread :
             InQueue(Tail(k.waiters[s]), u) <=> InQueue(k.waiters[s], u) /\ u # t
    BY <1>1, <1>4, TailQueue DEF KernelOK, BlockedIsQueued
  <2>2. k.status[t] = "BLOCKED" /\ k.wants[t] = s /\ t # Idle
    BY <2>1, KernelAssumption DEF KernelOK, BlockedIsQueued, WantsIsLive
  <2>3. /\ Append(k.ready, t) \in Seq(Thread) /\ Distinct(Append(k.ready, t))
        /\ \A u \in Thread : InQueue(Append(k.ready, t), u) <=> InQueue(k.ready, u) \/ u = t
    BY <1>1, <2>1, <2>2, KernelRecord, AppendQueue DEF KernelOK, ReadyIsQueued
  <2>4. w = ThreadUnblock(d, t)
    BY <1>4 DEF SemaWake
  <2> HIDE DEF w
  <2>5. /\ d.project = k.project /\ d.run = k.run /\ d.ready = k.ready
        /\ d.status = k.status /\ d.value = k.value /\ d.wants = k.wants
        /\ d.waiters = [k.waiters EXCEPT ![s] = Tail(k.waiters[s])]
        /\ d \in KernelState
    BY <1>1, <2>1 DEF KernelState
  <2> HIDE DEF d, t
  <2>6. /\ w.project = k.project /\ w.run = k.run /\ w.ready = Append(k.ready, t) /\ w.value = k.value
        /\ w.waiters = d.waiters /\ w.wants = k.wants
        /\ w.status = [k.status EXCEPT ![t] = "READY"]
        /\ w \in KernelState
    BY <2>1, <2>3, <2>4, <2>5 DEF KernelState, ThreadUnblock, Status
  <2>7. /\ m.project = k.project /\ m.run = k.run
        /\ m.ready = Append(k.ready, t) /\ m.wants = k.wants
        /\ m.waiters = [k.waiters EXCEPT ![s] = Tail(k.waiters[s])]
        /\ m.status = [k.status EXCEPT ![t] = "READY"]
        /\ m.value = [k.value EXCEPT ![s] = k.value[s] + 1]
        /\ m \in KernelState
    BY <1>1, <1>2, <2>5, <2>6 DEF KernelState
  <2>8. m.status[t] = "READY" /\ \A u \in Thread : u # t => m.status[u] = k.status[u]
    BY <1>1, <2>1, <2>7, KernelRecord
  <2>9. /\ m.waiters[s] = Tail(k.waiters[s])
        /\ \A r \in Sema : r # s => m.waiters[r] = k.waiters[r] /\ m.value[r] = k.value[r]
        /\ m.value[s] = k.value[s] + 1
    BY <1>1, <2>7
  <2>10. OneRuns(m) /\ WantsIsLive(m) /\ SlotsOK(m)
    BY <2>2, <2>7, <2>8, KernelAssumption DEF KernelOK, OneRuns, WantsIsLive, SlotsOK
  <2>11. ReadyIsQueued(m)
    BY <2>2, <2>3, <2>7, <2>8 DEF KernelOK, ReadyIsQueued
  <2>12. BlockedIsQueued(m)
    <3> SUFFICES ASSUME NEW r \in Sema
                 PROVE  /\ Distinct(m.waiters[r])
                        /\ \A u \in Thread : InQueue(m.waiters[r], u)
                                <=> (m.status[u] = "BLOCKED" /\ m.wants[u] = r)
      BY DEF BlockedIsQueued
    <3>1. CASE r = s
      BY <2>1, <2>7, <2>8, <2>9, <3>1 DEF KernelOK, BlockedIsQueued
    <3>2. CASE r # s
      BY <2>2, <2>7, <2>8, <2>9, <3>2 DEF KernelOK, BlockedIsQueued
    <3> QED
      BY <3>1, <3>2
  <2>13. ASSUME NEW r \in Sema PROVE WakeupsCover(m, r)
    <3>1. CASE r = s
      <4>1. Woken(m, r) = Woken(k, r) \cup {t} /\ t \notin Woken(k, r)
        BY <2>1, <2>2, <2>7, <2>8, <3>1 DEF Woken
      <4>2. /\ Cardinality(Woken(m, r)) = Cardinality(Woken(k, r)) + 1
            /\ Cardinality(Woken(k, r)) \in Nat
        BY <4>1, WokenFinite, FS_AddElement
      <4>3. k.value[r] \in Nat /\ k.value[r] <= Cardinality(Woken(k, r))
        BY <1>1, <1>4, <3>1 DEF Covered, WakeupsCover
      <4> QED
        BY <2>9, <3>1, <4>2, <4>3 DEF WakeupsCover
    <3>2. CASE r # s
      <4>1. Woken(m, r) = Woken(k, r)
        BY <2>2, <2>7, <2>8, <3>2 DEF Woken
      <4> QED
        BY <2>9, <3>2, <4>1 DEF Covered, WakeupsCover
    <3> QED
      BY <3>1, <3>2
  <2>14. Frame(k, m, {})
    BY <2>2, <2>7, <2>8 DEF Frame, Live
  <2>15. WakesOne(k, m, s)
    <3>1. ASSUME NEW u \in Thread, Sleeps(m, u, s) PROVE u # t
      BY <2>8, <3>1 DEF Sleeps
    <3> QED
      BY <2>1, <2>2, <2>8, <3>1 DEF WakesOne, Sleeps
  <2> QED
    BY <2>7, <2>10, <2>11, <2>12, <2>13, <2>14, <2>15 DEF KernelOK, Covered, m
<1> QED
  BY <1>3, <1>4

(* The kernel after thread_start. *)
LEMMA BootedOK ==
  ASSUME NEW p \in Projects, NEW v \in [Sema -> Nat]
  PROVE  KernelOK(Booted(p, v)) /\ Covered(Booted(p, v))
<1> DEFINE m == Booted(p, v)
<1>1. \A t \in Thread : ~ InQueue(<<>>, t)
  BY DEF InQueue
<1>2. Distinct(<<>>)
  BY DEF Distinct
<1>3. /\ m.run = Main /\ m.ready = <<>>
      /\ m.value = v /\ m.waiters = [s \in Sema |-> <<>>]
      /\ m.wants = [t \in Thread |-> NoSema]
      /\ m.status = [t \in Thread |-> IF t = Main THEN "RUNNING"
                                      ELSE IF t = Idle THEN "BLOCKED" ELSE "NONE"]
      /\ m \in KernelState
  BY KernelAssumption DEF Booted, KernelState, Status
<1> HIDE DEF m
<1>4. OneRuns(m) /\ SlotsOK(m) /\ WantsIsLive(m)
  BY <1>3, KernelAssumption DEF OneRuns, SlotsOK, WantsIsLive
<1>5. ReadyIsQueued(m)
  BY <1>1, <1>2, <1>3 DEF ReadyIsQueued
<1>6. BlockedIsQueued(m)
  BY <1>1, <1>2, <1>3, KernelAssumption DEF BlockedIsQueued
<1>7. Covered(m)
  BY <1>3 DEF Covered, WakeupsCover
<1> QED
  BY <1>3, <1>4, <1>5, <1>6, <1>7 DEF KernelOK, m
=============================================================================
