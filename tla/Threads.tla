------------------------------- MODULE Threads -------------------------------
(***************************************************************************)
(* The scheduler and the semaphores of Kernel as a state machine: any     *)
(* thread may call any of their operations at any time interrupts are on, *)
(* the timer may take the CPU from any of them, and an interrupt handler  *)
(* may up a semaphore whoever runs.                                       *)
(***************************************************************************)
EXTENDS Kernel

CONSTANT MaxValue   \* bound: no semaphore is upped beyond this value

ASSUME MaxValueAssumption == MaxValue \in Nat

VARIABLE k

vars == <<k>>

Init == \E p \in Projects, v \in [Sema -> 0..MaxValue] : k = Booted(p, v)

InterruptsOn == ~ InSemaDown(k)

(* The running thread executes code of its own: it is not idle. *)
InThread == InterruptsOn /\ k.run # Idle

-----------------------------------------------------------------------------
Create(t) ==
  /\ InThread
  /\ k.status[t] = "NONE"
  /\ k' = ThreadCreate(k, t)

Down(s) == InThread /\ k' = SemaDown(k, s)

TryDown(s) == InterruptsOn /\ k' = SemaTryDown(k, s)

(* The caller is the running thread or an interrupt handler. *)
Up(s) ==
  /\ InterruptsOn
  /\ k.value[s] < MaxValue
  /\ k' = SemaUp(k, s)

Resume == InSemaDown(k) /\ k' = SemaResume(k)

(* intq_wait blocks the running thread on a device queue, not a semaphore; *)
(* intq's signal unblocks it.                                              *)
Sleep == InThread /\ k' = ThreadBlock(k)

Wake(t) ==
  /\ InterruptsOn
  /\ t # Idle /\ k.status[t] = "BLOCKED" /\ k.wants[t] = NoSema
  /\ k' = ThreadUnblock(k, t)

(* A voluntary thread_yield, or intr_yield_on_return at the end of the slice. *)
Yield == InterruptsOn /\ k' = ThreadYield(k)

(* thread_exit ups the semaphores of its birth record on which its parent  *)
(* may be waiting, then dies, all with interrupts off.                     *)
Exit ==
  /\ InThread
  /\ k' = ThreadExit(k)

ExitWaking(s, r) ==
  /\ InThread
  /\ k.value[s] < MaxValue /\ k.value[r] < MaxValue
  /\ k' = ThreadExit(IF s = r THEN SemaUp(k, s) ELSE SemaUp(SemaUp(k, s), r))

(* hlt returned after some interrupt; idle loops and blocks again. *)
IdleLoop ==
  /\ InterruptsOn /\ k.run = Idle
  /\ k' = ThreadBlock(k)

Next ==
  \/ \E t \in Thread : Create(t) \/ Wake(t)
  \/ \E s \in Sema : Down(s) \/ TryDown(s) \/ Up(s)
  \/ \E s, r \in Sema : ExitWaking(s, r)
  \/ Resume \/ Sleep \/ Yield \/ Exit \/ IdleLoop

Spec == Init /\ [][Next]_vars

(* The timer ticks for ever and interrupts are never off for ever, so the  *)
(* slice of whoever runs ends; a thread switched in inside sema_down goes  *)
(* on.  Nothing else is owed: no thread has to call anything.              *)
Fairness == WF_vars(Yield) /\ WF_vars(Resume)

FairSpec == Spec /\ Fairness

-----------------------------------------------------------------------------
(* The kernel's lists, statuses and the CPU agree (thread.h:80-85: a       *)
(* thread's elem is in the run queue or a semaphore wait list, and the two *)
(* are mutually exclusive).                                                *)
TypeOK == k \in KernelState

ListsAgree ==
  OneRuns(k) /\ ReadyIsQueued(k) /\ BlockedIsQueued(k) /\ WantsIsLive(k) /\ SlotsOK(k)

(* sema_up wakes one waiter per unit it adds, so while threads sleep on a  *)
(* semaphore every unit of its value has a thread already on its way.      *)
NoLostWakeup == \A s \in Sema : WakeupsCover(k, s)

(* Round robin (thread.c:58): in Project 4 a ready thread is run           *)
(* eventually; in Project 3 one other than main, which is put last.        *)
ReadyRuns ==
  \A t \in Thread \ {Idle} :
    (k.status[t] = "READY" /\ (k.project = 4 \/ (k.project = 3 /\ t # Main))) ~> k.run = t

S == INSTANCE Semaphores WITH value <- k.value, asking <- k.wants

(* To their callers the semaphores are Semaphores, in every project ...     *)
SemaphoresKept == S!SSafe

(* ... and in Project 4 a value above zero that somebody is waiting for    *)
(* does not stay so for ever (synch.c:104-107).                            *)
AskersAreGranted == k.project = 4 => S!SFair
=============================================================================
