---------------------------- MODULE ThreadsProofs ----------------------------
(***************************************************************************)
(* Theorems about Threads, for every finite set of threads, every set of   *)
(* semaphores and every bound on their values: the kernel's lists agree,   *)
(* no wakeup is lost, Project 2 does not preempt, and the semaphores are   *)
(* the abstract ones.                                                      *)
(***************************************************************************)
EXTENDS Threads, KernelProofs

(* The inductive invariant.  That no wakeup is lost is not inductive alone: *)
(* an up wakes one thread more only if the head of the waiters is a blocked *)
(* thread of this semaphore and of no other list, which KernelOK says.      *)
IInv == KernelOK(k) /\ Covered(k)

(* The booted kernel satisfies the invariant. *)
LEMMA InitIInv == Init => IInv
<1> SUFFICES ASSUME NEW p \in Projects, NEW v \in [Sema -> 0..MaxValue], k = Booted(p, v)
             PROVE  IInv
  BY DEF Init
<1>1. v \in [Sema -> Nat]
  BY MaxValueAssumption
<1> QED
  BY <1>1, BootedOK DEF IInv

(* What one step may do to the CPU, and to the abstract semaphores. *)
StepKeeps ==
  /\ IInv'
  /\ k.project = 2 /\ k.run # Idle => GivesUpCPU(k, k')
  /\ [S!SNext]_(S!svars)

(* A step that leaves the semaphores as they are. *)
LEMMA QuietStep ==
  ASSUME IInv, KernelOK(k'), SameSemaphores(k, k'),
         k.project = 2 /\ k.run # Idle => GivesUpCPU(k, k')
  PROVE  StepKeeps
<1>1. Covered(k')
  BY SameCovered DEF IInv
<1>2. UNCHANGED S!svars
  BY DEF SameSemaphores, S!svars
<1> QED
  BY <1>1, <1>2 DEF StepKeeps, IInv

(* Each step keeps the invariant, and is one of Semaphores. *)
LEMMA NextKeeps == IInv /\ [Next]_vars => StepKeeps
<1> SUFFICES ASSUME IInv, [Next]_vars PROVE StepKeeps
  OBVIOUS
<1>1. KernelOK(k) /\ Covered(k)
  BY DEF IInv
<1>2. /\ k \in KernelState /\ k.run \in Thread /\ k.value \in [Sema -> Nat]
      /\ k.wants \in [Thread -> Sema \cup {NoSema}]
  BY <1>1, KernelRecord DEF KernelOK
<1>3. ASSUME NEW t \in Thread, Create(t) PROVE StepKeeps
  BY <1>1, <1>3, CreateOK, QuietStep DEF Create, GivesUpCPU
<1>4. ASSUME NEW t \in Thread, Wake(t) PROVE StepKeeps
  BY <1>1, <1>4, UnblockOK, QuietStep DEF Wake, GivesUpCPU
<1>5. ASSUME NEW s \in Sema, Down(s) PROVE StepKeeps
  <2>1. k.wants[k.run] = NoSema /\ k.run # Idle /\ k' = SemaDown(k, s)
    BY <1>5 DEF Down, InThread, InterruptsOn, InSemaDown
  <2>2. KernelOK(k') /\ Covered(k') /\ GivesUpCPU(k, k')
    BY <1>1, <2>1, DownOK
  <2>3. CASE k'.wants = [k.wants EXCEPT ![k.run] = s] /\ k'.value = k.value
    <3>1. S!Ask(k.run, s)
      BY <2>1, <2>3 DEF S!Ask
    <3> QED
      BY <1>2, <2>2, <3>1 DEF StepKeeps, IInv, S!SNext
  <2>4. CASE /\ k.value[s] > 0 /\ k'.wants = [k.wants EXCEPT ![k.run] = NoSema]
             /\ k'.value = [k.value EXCEPT ![s] = @ - 1]
    <3>1. k'.wants = k.wants
      BY <1>2, <2>1, <2>4
    <3>2. S!TakeAtOnce(s)
      BY <2>4, <3>1 DEF S!TakeAtOnce
    <3> QED
      BY <2>2, <3>2 DEF StepKeeps, IInv, S!SNext
  <2> QED
    BY <1>1, <2>1, <2>3, <2>4, DownOK
<1>6. ASSUME NEW s \in Sema, TryDown(s) PROVE StepKeeps
  <2>1. k' = SemaTryDown(k, s)
    BY <1>6 DEF TryDown
  <2>2. /\ KernelOK(k') /\ Covered(k') /\ k'.run = k.run /\ k'.wants = k.wants
        /\ \/ k'.value = k.value
           \/ k.value[s] > 0 /\ k'.value = [k.value EXCEPT ![s] = @ - 1]
    BY <1>1, <2>1, TryDownOK
  <2>3. [S!SNext]_(S!svars)
    BY <2>2 DEF S!SNext, S!svars, S!TakeAtOnce
  <2> QED
    BY <2>2, <2>3 DEF StepKeeps, IInv, GivesUpCPU
<1>7. ASSUME NEW s \in Sema, Up(s) PROVE StepKeeps
  <2>1. k' = SemaUp(k, s)
    BY <1>7 DEF Up
  <2>2. /\ KernelOK(k') /\ Covered(k') /\ k'.run = k.run /\ k'.wants = k.wants
        /\ k'.value = [k.value EXCEPT ![s] = @ + 1]
    BY <1>1, <2>1, UpOK
  <2>3. k'.value = [r \in Sema |-> k.value[r] + (IF r \in {s} THEN 1 ELSE 0)]
    BY <1>2, <2>2
  <2>4. S!SNext
    BY <2>2, <2>3 DEF S!SNext, S!UpAll
  <2> QED
    BY <2>2, <2>4 DEF StepKeeps, IInv, GivesUpCPU
<1>8. ASSUME NEW s \in Sema, NEW r \in Sema, ExitWaking(s, r) PROVE StepKeeps
  <2> DEFINE u == IF s = r THEN SemaUp(k, s) ELSE SemaUp(SemaUp(k, s), r)
  <2>1. k.wants[k.run] = NoSema /\ k.run # Idle /\ k' = ThreadExit(u)
    BY <1>8 DEF ExitWaking, InThread, InterruptsOn, InSemaDown
  <2>2. /\ KernelOK(u) /\ Covered(u) /\ u.run = k.run /\ u.wants = k.wants
        /\ u.value = [q \in Sema |-> k.value[q] + (IF q \in {s, r} THEN 1 ELSE 0)]
    <3>1. CASE s = r
      <4>1. /\ KernelOK(u) /\ Covered(u) /\ u.run = k.run /\ u.wants = k.wants
            /\ u.value = [k.value EXCEPT ![s] = @ + 1]
        BY <1>1, <3>1, UpOK
      <4> HIDE DEF u
      <4> QED
        BY <1>2, <3>1, <4>1
    <3>2. CASE s # r
      <4> DEFINE w == SemaUp(k, s)
      <4>1. /\ KernelOK(w) /\ Covered(w) /\ w.run = k.run /\ w.wants = k.wants
            /\ w.value = [k.value EXCEPT ![s] = @ + 1]
        BY <1>1, UpOK
      <4>2. u = SemaUp(w, r)
        BY <3>2
      <4> HIDE DEF u, w
      <4>3. /\ KernelOK(u) /\ Covered(u) /\ u.run = k.run /\ u.wants = k.wants
            /\ u.value = [w.value EXCEPT ![r] = @ + 1]
        BY <4>1, <4>2, UpOK
      <4> QED
        BY <1>2, <3>2, <4>1, <4>3
    <3> QED
      BY <3>1, <3>2
  <2> HIDE DEF u
  <2>3. KernelOK(k') /\ SameSemaphores(u, k') /\ GivesUpCPU(k, k')
    BY <2>1, <2>2, ExitOK DEF GivesUpCPU
  <2>4. Covered(k')
    BY <2>2, <2>3, SameCovered
  <2>5. S!UpAll({s, r})
    BY <2>2, <2>3 DEF S!UpAll, SameSemaphores
  <2>6. S!SNext
    BY <2>5 DEF S!SNext
  <2> QED
    BY <2>3, <2>4, <2>6 DEF StepKeeps, IInv
<1>9. CASE Resume
  <2> DEFINE s == k.wants[k.run]
  <2>1. s \in Sema /\ s # NoSema /\ k.run # Idle /\ k' = SemaDown(k, s)
    BY <1>1, <1>2, <1>9 DEF Resume, InSemaDown, SemaResume, KernelOK, WantsIsLive
  <2>2. KernelOK(k') /\ Covered(k') /\ GivesUpCPU(k, k')
    BY <1>1, <2>1, DownOK
  <2>3. CASE k'.wants = [k.wants EXCEPT ![k.run] = s] /\ k'.value = k.value
    <3>1. UNCHANGED S!svars
      BY <1>2, <2>3 DEF S!svars
    <3> QED
      BY <2>2, <3>1 DEF StepKeeps, IInv
  <2>4. CASE /\ k.value[s] > 0 /\ k'.wants = [k.wants EXCEPT ![k.run] = NoSema]
             /\ k'.value = [k.value EXCEPT ![s] = @ - 1]
    <3>1. S!Grant(k.run, s)
      BY <2>4 DEF S!Grant
    <3> QED
      BY <1>2, <2>1, <2>2, <3>1 DEF StepKeeps, IInv, S!SNext
  <2> QED
    BY <1>1, <2>1, <2>3, <2>4, DownOK
<1>10. CASE Sleep
  BY <1>1, <1>10, BlockOK, QuietStep DEF Sleep, InThread, InterruptsOn, InSemaDown
<1>11. CASE Yield
  BY <1>1, <1>11, YieldOK, YieldKeepsCPU, QuietStep DEF Yield, GivesUpCPU
<1>12. CASE Exit
  BY <1>1, <1>12, ExitOK, QuietStep DEF Exit, InThread, InterruptsOn, InSemaDown
<1>13. CASE IdleLoop
  BY <1>1, <1>13, BlockOK, QuietStep DEF IdleLoop, InterruptsOn, InSemaDown
<1>14. CASE UNCHANGED vars
  BY <1>14 DEF vars, StepKeeps, IInv, GivesUpCPU, S!svars
<1> QED
  BY <1>3, <1>4, <1>5, <1>6, <1>7, <1>8, <1>9, <1>10, <1>11, <1>12, <1>13, <1>14 DEF Next

(* The invariant holds at every moment. *)
LEMMA SpecIInv == Spec => []IInv
<1>1. IInv /\ [Next]_vars => IInv'
  BY NextKeeps DEF StepKeeps
<1> QED
  BY InitIInv, <1>1, PTL DEF Spec

-----------------------------------------------------------------------------
(* Every kernel state has the shape of struct thread, struct semaphore and *)
(* ready_list: no operation ever writes anything else there.               *)
THEOREM TypeCorrect == Spec => []TypeOK
<1>1. IInv => TypeOK
  BY DEF IInv, KernelOK, TypeOK
<1> QED
  BY SpecIInv, <1>1, PTL

(* At every moment one thread runs, the ready list holds exactly the ready *)
(* threads but idle, each semaphore's waiters are exactly the threads      *)
(* blocked in its sema_down, and no thread is queued twice.                *)
THEOREM ListsAlwaysAgree == Spec => []ListsAgree
<1>1. IInv => ListsAgree
  BY DEF IInv, KernelOK, ListsAgree
<1> QED
  BY SpecIInv, <1>1, PTL

(* While threads sleep on a semaphore, every unit of its value has a       *)
(* thread already woken to take it: sema_up loses no wakeup.               *)
THEOREM NoWakeupIsLost == Spec => []NoLostWakeup
<1>1. IInv => NoLostWakeup
  BY DEF IInv, Covered, NoLostWakeup
<1> QED
  BY SpecIInv, <1>1, PTL

(* The running thread of Project 2 keeps the CPU until it blocks or exits. *)
NoPreemption ==
  [][k.project = 2 /\ k'.run # k.run /\ k.run # Idle =>
       k'.status[k.run] \notin {"READY", "RUNNING"}]_vars

(* Project 2's thread.c says "use round-robin scheduler" (line 58) and     *)
(* counts the ticks of a slice to "enforce preemption" (line 139), but it  *)
(* pops the ready list at the end it pushes to (line 550): with any number *)
(* of threads the thread that yields at the end of its slice runs on, and  *)
(* the others starve for as long as it likes.                              *)
THEOREM Project2NeverPreempts == Spec => NoPreemption
<1>1. IInv /\ [Next]_vars =>
        [k.project = 2 /\ k'.run # k.run /\ k.run # Idle =>
           k'.status[k.run] \notin {"READY", "RUNNING"}]_vars
  BY NextKeeps DEF StepKeeps, GivesUpCPU
<1> QED
  BY SpecIInv, <1>1, PTL DEF Spec, NoPreemption

(* The semaphores of synch.c, with their lists, statuses and scheduler,    *)
(* implement the safety of the abstract Semaphores.                        *)
THEOREM ImplementsSemaphores == Spec => SemaphoresKept
<1>1. Init => S!SInit
  BY MaxValueAssumption DEF Init, Booted, S!SInit
<1>2. IInv /\ [Next]_vars => [S!SNext]_(S!svars)
  BY NextKeeps DEF StepKeeps
<1> QED
  BY SpecIInv, <1>1, <1>2, PTL DEF Spec, SemaphoresKept, S!SSafe
=============================================================================
