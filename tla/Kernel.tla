------------------------------- MODULE Kernel -------------------------------
(***************************************************************************)
(* The Pintos kernel's threads and semaphores, as Projects 2, 3 and 4     *)
(* have them (CS439/Project?/threads/thread.c and synch.c): what each     *)
(* function does to the kernel's state, as an operator from a state k to  *)
(* the state after it.  Every function here runs with interrupts off, so  *)
(* one application is one atomic step of the machine.                     *)
(*                                                                        *)
(* A kernel state is a record:                                            *)
(*   project  which of the three kernels it is                            *)
(*   run      the running thread (there is one CPU)                       *)
(*   status   the status of every thread; "NONE": no such thread         *)
(*   ready    ready_list                                                  *)
(*   value    the value of every semaphore                                *)
(*   waiters  the waiters list of every semaphore                         *)
(*   wants    the saved stack of a switched-out thread: the semaphore     *)
(*            whose sema_down loop it is inside, or NoSema                *)
(***************************************************************************)
EXTENDS Integers, Sequences, SequencesExt, FiniteSets

CONSTANTS
  Thread,     \* the thread structures
  Idle,       \* idle_thread
  Main,       \* initial_thread, the thread named "main"
  Sema,       \* the semaphores
  NoSema,     \* not a semaphore
  Projects    \* the kernels considered, of 2, 3 and 4

ASSUME KernelAssumption ==
  /\ IsFiniteSet(Thread)
  /\ Idle \in Thread /\ Main \in Thread /\ Idle # Main
  /\ NoSema \notin Sema
  /\ Projects \subseteq {2, 3, 4}

Status == {"NONE", "RUNNING", "READY", "BLOCKED", "DYING"}

KernelState ==
  [project : Projects, run : Thread, status : [Thread -> Status], ready : Seq(Thread),
   value : [Sema -> Nat], waiters : [Sema -> Seq(Thread)],
   wants : [Thread -> Sema \cup {NoSema}]]

-----------------------------------------------------------------------------
(* The three versions of next_thread_to_run, on a nonempty ready list. *)

PopBack(q) == [next |-> Last(q), rest |-> Front(q)]

(* Mutant of PopFront: the ready list is popped at the back. *)
PopFrontFromBack(q) == [next |-> Last(q), rest |-> Front(q)]

PopFront(q) == [next |-> Head(q), rest |-> Tail(q)]

(* Mutant of PopMainLast: main is pushed back and returned all the same. *)
PopMainTwice(q) ==
  IF Head(q) = Main /\ Len(q) > 1 THEN PopFront(Append(q, Main)) ELSE PopFront(q)

PopMainLast(q) ==
  IF Head(q) = Main /\ Len(q) > 1
  THEN PopFront(Append(Tail(q), Main))
  ELSE PopFront(q)

NextThreadToRun(project, q) ==
  CASE q = <<>>                  -> [next |-> Idle, rest |-> q]
    [] q # <<>> /\ project = 2   -> PopBack(q)
    [] q # <<>> /\ project = 3   -> PopMainLast(q)
    [] q # <<>> /\ project = 4   -> PopFront(q)

(* thread_schedule_tail frees the thread it switched from if that is dying; *)
(* the initial thread's memory is never freed.                              *)
Reap(status, prev) ==
  IF status[prev] = "DYING" /\ prev # Main
  THEN [status EXCEPT ![prev] = "NONE"]
  ELSE status

(* schedule: the running thread has already left the RUNNING status. *)
Schedule(k) ==
  LET n == NextThreadToRun(k.project, k.ready)
  IN  [k EXCEPT !.run = n.next,
                !.ready = n.rest,
                !.status = [Reap(k.status, k.run) EXCEPT ![n.next] = "RUNNING"]]

ThreadBlock(k) == Schedule([k EXCEPT !.status[k.run] = "BLOCKED"])

ThreadUnblock(k, t) ==
  [k EXCEPT !.ready = Append(@, t), !.status[t] = "READY"]

(* The new thread is initialised BLOCKED and made ready at once. *)
ThreadCreate(k, t) == ThreadUnblock([k EXCEPT !.status[t] = "BLOCKED"], t)

ThreadYield(k) ==
  Schedule([k EXCEPT
    !.ready = IF k.run # Idle THEN Append(@, k.run) ELSE @,
    !.status[k.run] = "READY"])

ThreadExit(k) == Schedule([k EXCEPT !.status[k.run] = "DYING"])

-----------------------------------------------------------------------------
(* Semaphores.  SemaDown is one evaluation of the loop condition and what  *)
(* follows it: the decrement, or joining the waiters and blocking.  A      *)
(* thread that is switched back in inside the loop evaluates it again.     *)

SemaWait(k, s) ==
  ThreadBlock([k EXCEPT !.waiters[s] = Append(@, k.run), !.wants[k.run] = s])

SemaTake(k, s) == [k EXCEPT !.value[s] = @ - 1, !.wants[k.run] = NoSema]

(* Mutant of SemaDown: the value is not looked at. *)
SemaDownUnchecked(k, s) == SemaTake(k, s)

SemaDown(k, s) == IF k.value[s] = 0 THEN SemaWait(k, s) ELSE SemaTake(k, s)

SemaTryDown(k, s) == IF k.value[s] > 0 THEN [k EXCEPT !.value[s] = @ - 1] ELSE k

(* Mutant of SemaWake: a waiter is woken only when the value was zero. *)
SemaWakeAtZero(k, s) ==
  IF k.waiters[s] = <<>> \/ k.value[s] > 0 THEN k
  ELSE ThreadUnblock([k EXCEPT !.waiters[s] = Tail(@)], Head(k.waiters[s]))

SemaWake(k, s) ==
  IF k.waiters[s] = <<>> THEN k
  ELSE ThreadUnblock([k EXCEPT !.waiters[s] = Tail(@)], Head(k.waiters[s]))

(* Mutant of SemaUp: nobody is woken. *)
SemaUpSilent(k, s) == [k EXCEPT !.value[s] = @ + 1]

SemaUp(k, s) ==
  LET w == SemaWake(k, s) IN [w EXCEPT !.value[s] = @ + 1]

-----------------------------------------------------------------------------
(* The running thread has come back inside a sema_down loop: interrupts are *)
(* still off and the only thing it can do is evaluate the loop condition.   *)
InSemaDown(k) == k.wants[k.run] # NoSema

(* Mutant of SemaResume: if for while, the value is not looked at again. *)
SemaResumeUnchecked(k) == SemaTake(k, k.wants[k.run])

SemaResume(k) == SemaDown(k, k.wants[k.run])

(* Project p's kernel when thread_start returns, with values v in the       *)
(* semaphores: main is running, idle has run once and blocked.              *)
Booted(p, v) ==
  [project |-> p,
   run |-> Main,
   status |-> [t \in Thread |-> IF t = Main THEN "RUNNING"
                                ELSE IF t = Idle THEN "BLOCKED" ELSE "NONE"],
   ready |-> <<>>,
   value |-> v,
   waiters |-> [s \in Sema |-> <<>>],
   wants |-> [t \in Thread |-> NoSema]]

-----------------------------------------------------------------------------
(* What every kernel state must satisfy. *)

Distinct(q) == \A i, j \in 1..Len(q) : q[i] = q[j] => i = j

InQueue(q, t) == \E i \in 1..Len(q) : q[i] = t

(* One thread runs, the one the CPU is on. *)
OneRuns(k) == \A t \in Thread : k.status[t] = "RUNNING" <=> t = k.run

(* thread.h: a thread's elem is in the ready list or in one semaphore's     *)
(* waiters list, never in both, never twice; the status tells which.        *)
ReadyIsQueued(k) ==
  /\ Distinct(k.ready)
  /\ \A t \in Thread : InQueue(k.ready, t) <=> (k.status[t] = "READY" /\ t # Idle)

BlockedIsQueued(k) ==
  \A s \in Sema :
    /\ Distinct(k.waiters[s])
    /\ \A t \in Thread :
         InQueue(k.waiters[s], t) <=> (k.status[t] = "BLOCKED" /\ k.wants[t] = s)

(* Only a live thread other than idle is inside sema_down. *)
WantsIsLive(k) ==
  \A t \in Thread : k.wants[t] # NoSema =>
    t # Idle /\ k.status[t] \in {"RUNNING", "READY", "BLOCKED"}

(* A free or dying thread is neither idle nor, if freed, main. *)
SlotsOK(k) ==
  /\ k.status[Idle] \notin {"NONE", "DYING"}
  /\ k.status[Main] # "NONE"

KernelOK(k) ==
  /\ k \in KernelState
  /\ OneRuns(k)
  /\ ReadyIsQueued(k)
  /\ BlockedIsQueued(k)
  /\ WantsIsLive(k)
  /\ SlotsOK(k)

(* The threads woken on s, on their way to evaluate its loop again. *)
Woken(k, s) ==
  {t \in Thread : k.wants[t] = s /\ k.status[t] \in {"READY", "RUNNING"}}

(* While threads wait on s, every unit of its value has a thread already    *)
(* woken to take it: no up is ever lost on a sleeping thread.               *)
WakeupsCover(k, s) ==
  k.waiters[s] # <<>> => k.value[s] <= Cardinality(Woken(k, s))
=============================================================================
