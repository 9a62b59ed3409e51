----------------------------- MODULE Priority -----------------------------
(***************************************************************************)
(* src/CS439/Project1: the priority scheduler, priority donation and the   *)
(* alarm clock, as written in threads/thread.c, threads/synch.c and        *)
(* devices/timer.c.  One CPU runs cur, the others are ready, wait in a     *)
(* semaphore or sleep.  A thread's calls are broken up where interrupts    *)
(* are on and another thread's step makes a difference; pc names the next  *)
(* piece.  Interrupts are off from the moment a thread blocks in sema_down *)
(* until it leaves sema_down, also when it runs again (off).               *)
(*                                                                         *)
(* Times are kept relative to the present: wake is the number of ticks     *)
(* left, and -1 stands for every time in the past.                         *)
(***************************************************************************)
EXTENDS Integers, Sequences, FiniteSets, Functions, SequencesExt

CONSTANTS Thread,    \* the threads, without the idle thread
          Idle,      \* the idle thread
          LockOrder, \* the locks, in the order in which threads nest them
          None,      \* NULL
          EndOfList, \* the end of sleep_list
          Prios,     \* the priorities of threads
          Machines   \* what the threads do: see machine

Lock == Range(LockOrder)

\* A lock's semaphore bears the lock's name.  A thread's own semaphore is its
\* sleep_sema in timer_sleep and its waiter.semaphore in cond_wait.
Sema == Lock \cup Thread

\* PRI_MIN - 1, also the -1 of a lock nobody has acquired.
Unset == -1

ASSUME PriorityAssumption ==
  /\ IsFiniteSet(Thread) /\ Thread # {}
  /\ LockOrder \in Seq(Lock) /\ LockOrder # <<>>
  /\ Idle \notin Thread /\ None \notin Lock \cup Thread /\ EndOfList \notin Thread
  /\ Lock \cap Thread = {}
  /\ Prios \subseteq Nat
  /\ \A m \in Machines : m.prios \subseteq [Thread -> Prios] /\ m.naps \subseteq Nat

VARIABLES
  machine,   \* calls: the calls threads make; nested: they hold several locks;
             \* naps: the arguments of timer_sleep; prios: the priorities they
             \* have at first; disturbed: interrupts come in mid-call, too
  cur,       \* the running thread
  ready,     \* ready_list
  th,        \* struct thread and the state of the thread's call
  lck,       \* struct lock
  sem,       \* struct semaphore
  sleepers,  \* sleep_list
  condq,     \* the waiters of a condition of the first lock
  broken     \* how the kernel has broken down

vars == <<machine, cur, ready, th, lck, sem, sleepers, condq, broken>>

PriorityOf == [t \in Thread |-> th[t].prio]

\* list_insert_ordered with one of the descending less functions.
InsertDesc(q, x, key) ==
  LET before == {i \in DOMAIN q : \A j \in 1 .. i : key[q[j]] >= key[x]}
  IN  InsertAt(q, Cardinality(before) + 1, x)

\* The elements of new that are in chosen, inserted into q one after the other.
InsertAll(q, new, chosen, key) ==
  LET after[i \in 0 .. Len(new)] ==
        IF i = 0 THEN q
        ELSE IF new[i] \in chosen THEN InsertDesc(after[i - 1], new[i], key) ELSE after[i - 1]
  IN  after[Len(new)]

\* list_sort, which keeps the order of equals.
SortDesc(q, key) == InsertAll(<<>>, q, Range(q), key)

\* list_remove of an element of q.
Without(q, x) == RemoveAt(q, CHOOSE i \in DOMAIN q : q[i] = x)

----------------------------------------------------------------------------
(* The scheduler *)

\* next_thread_to_run takes the front of ready_list, sorted or not.
RunNext(q) == /\ cur' = IF q = <<>> THEN Idle ELSE Head(q)
              /\ ready' = IF q = <<>> THEN q ELSE Tail(q)

\* Mutant: the idle thread's test is turned round, so that who yields is lost.
YieldWithout(q, key) == RunNext(SortDesc(q, key))
\* thread_yield by cur.
YieldWith(q, key) ==
  LET sorted == SortDesc(q, key)
  IN  RunNext(IF cur = Idle THEN sorted ELSE InsertDesc(sorted, cur, key))

\* Mutant: thread_unblock, as it was handed out, yields to nobody.
OutranksNever(u, key) == FALSE
Outranks(u, key) == cur # Idle /\ key[u] > key[cur]

\* thread_unblock called by cur.
Unblock(u, key) ==
  LET q == InsertDesc(ready, u, key)
  IN  IF Outranks(u, key) THEN YieldWith(q, key) ELSE ready' = q /\ UNCHANGED cur

\* Mutant: sema_up counts and wakes nobody.
SemaUpSilent(s) == sem' = [sem EXCEPT ![s].value = @ + 1] /\ UNCHANGED <<cur, ready>>

\* sema_up of s by cur.
SemaUp(s) ==
  LET waiters == SortDesc(sem[s].waiters, PriorityOf)
  IN  /\ sem' = [sem EXCEPT ![s] = [value |-> @.value + 1,
                                    waiters |-> IF waiters = <<>> THEN <<>> ELSE Tail(waiters)]]
      /\ IF waiters = <<>> THEN UNCHANGED <<cur, ready>>
         ELSE Unblock(Head(waiters), PriorityOf)

----------------------------------------------------------------------------
(* Calls.  Running(t, p): t has the CPU and its call is at p. *)

Running(t, p) == broken = "no" /\ cur = t /\ th[t].pc = p

Call(t, c) == Running(t, "home") /\ c \in machine.calls

\* th with t's call at p.
At(t, p) == [th EXCEPT ![t].pc = p]

SchedulerSame == UNCHANGED <<cur, ready, sem>>
AlarmSame == UNCHANGED sleepers
Rest == UNCHANGED machine

\* What the caller must see to: a lock is not acquired twice, and locks are
\* nested in one order.
Rank(l) == CHOOSE i \in DOMAIN LockOrder : LockOrder[i] = l
MayAcquire(t, l) ==
  \A i \in DOMAIN th[t].locks : machine.nested /\ Rank(th[t].locks[i]) < Rank(l)

Acquire(t, l) ==
  /\ Call(t, "lock") /\ MayAcquire(t, l)
  /\ th' = [th EXCEPT ![t].pc = "check", ![t].lk = l]
  /\ SchedulerSame /\ AlarmSame /\ Rest
  /\ UNCHANGED <<lck, condq, broken>>

\* lock_acquire looks at the holder with interrupts on.
Check(t) ==
  LET l == th[t].lk
  IN  /\ Running(t, "check")
      /\ th' = IF lck[l].holder = None THEN At(t, "down")
               ELSE [th EXCEPT ![t].pc = "donate", ![t].waiting = l, ![t].at = l]
      /\ SchedulerSame /\ AlarmSame /\ Rest
      /\ UNCHANGED <<lck, condq, broken>>

\* One level of donate: the holder gets cur's priority, and whoever holds the
\* lock it waits for is next.  A holder that is NULL by now is dereferenced.
Donate(t) ==
  LET l == th[t].at
      h == lck[l].holder
  IN  /\ Running(t, "donate")
      /\ IF h = None THEN broken' = "null holder" /\ UNCHANGED <<th, lck>>
         ELSE /\ IF th[t].prio > th[h].prio
                 THEN /\ th' = [th EXCEPT ![h].prio = th[t].prio,
                                          ![t].pc = IF th[h].waiting = None THEN "down" ELSE @,
                                          ![t].at = th[h].waiting]
                      /\ lck' = [lck EXCEPT ![l].highest = IF th[t].prio > @ THEN th[t].prio ELSE @]
                 ELSE th' = [th EXCEPT ![t].pc = "down", ![t].at = None] /\ UNCHANGED lck
              /\ UNCHANGED broken
      /\ SchedulerSame /\ AlarmSame /\ Rest /\ UNCHANGED condq

\* Mutant: sema_down tests once, as with an if.
DownOnce(t, s, next) ==
  /\ IF sem[s].value > 0 \/ th[t].off
     THEN /\ sem' = [sem EXCEPT ![s].value = 0]
          /\ th' = [th EXCEPT ![t].pc = next, ![t].off = FALSE]
          /\ UNCHANGED <<cur, ready>>
     ELSE /\ sem' = [sem EXCEPT ![s].waiters = InsertDesc(@, t, PriorityOf)]
          /\ th' = [th EXCEPT ![t].off = TRUE]
          /\ RunNext(ready)
  /\ AlarmSame /\ Rest
  /\ UNCHANGED <<lck, condq, broken>>

\* sema_down of s, and where the call goes on.
Down(t, s, next) ==
  /\ IF sem[s].value > 0
     THEN /\ sem' = [sem EXCEPT ![s].value = @ - 1]
          /\ th' = [th EXCEPT ![t].pc = next, ![t].off = FALSE]
          /\ UNCHANGED <<cur, ready>>
     ELSE /\ sem' = [sem EXCEPT ![s].waiters = InsertDesc(@, t, PriorityOf)]
          /\ th' = [th EXCEPT ![t].off = TRUE]
          /\ RunNext(ready)
  /\ AlarmSame /\ Rest
  /\ UNCHANGED <<lck, condq, broken>>

AcquireDown(t) == Running(t, "down") /\ Down(t, th[t].lk, "got")

Got(t) ==
  /\ Running(t, "got")
  /\ lck' = [lck EXCEPT ![th[t].lk].holder = t]
  /\ th' = At(t, "record")
  /\ SchedulerSame /\ AlarmSame /\ Rest /\ UNCHANGED <<condq, broken>>

\* The lock is inserted before its highest_donation is set: the order of
\* locks is that of their acquisition.
Record(t) ==
  LET l == th[t].lk
      donations == [k \in Lock |-> lck[k].highest]
  IN  /\ Running(t, "record")
      /\ th' = [th EXCEPT ![t].waiting = None, ![t].locks = InsertDesc(@, l, donations),
                         ![t].pc = "home", ![t].lk = None, ![t].cond = FALSE]
      /\ lck' = [lck EXCEPT ![l] = [@ EXCEPT !.highest = th[t].prio, !.old = th[t].prio]]
      /\ SchedulerSame /\ AlarmSame /\ Rest /\ UNCHANGED <<condq, broken>>

Release(t, l) ==
  /\ Call(t, "lock") /\ Contains(th[t].locks, l)
  /\ th' = [th EXCEPT ![t].pc = "restore", ![t].lk = l]
  /\ SchedulerSame /\ AlarmSame /\ Rest
  /\ UNCHANGED <<lck, condq, broken>>

\* Mutant: lock_release keeps the donated priority.
RestoredKept(t, left) == th[t].prio
\* The priority of t when it has given up th[t].lk and has locks left.
Restored(t, left) == IF left = <<>> THEN lck[th[t].lk].old ELSE lck[Head(left)].highest

Restore(t) ==
  LET left == Without(th[t].locks, th[t].lk)
  IN  /\ Running(t, "restore")
      /\ th' = [th EXCEPT ![t].prio = Restored(t, left), ![t].locks = left, ![t].pc = "clear"]
      /\ SchedulerSame /\ AlarmSame /\ Rest
      /\ UNCHANGED <<lck, condq, broken>>

Clear(t) ==
  /\ Running(t, "clear")
  /\ lck' = [lck EXCEPT ![th[t].lk] = [holder |-> None, highest |-> Unset, old |-> Unset]]
  /\ th' = At(t, "up")
  /\ SchedulerSame /\ AlarmSame /\ Rest /\ UNCHANGED <<condq, broken>>

Up(t) ==
  /\ Running(t, "up")
  /\ SemaUp(th[t].lk)
  /\ th' = IF th[t].cond THEN At(t, "await") ELSE [th EXCEPT ![t].pc = "home", ![t].lk = None]
  /\ AlarmSame /\ Rest
  /\ UNCHANGED <<lck, condq, broken>>

\* thread_set_priority: base is the priority the thread asked for last.
SetPriority(t, p) ==
  /\ Call(t, "set")
  /\ th' = [th EXCEPT ![t].base = p, ![t].new = p, ![t].pc = "compare",
                     ![t].prio = IF th[t].locks # <<>> /\ p <= @ THEN @ ELSE p]
  /\ lck' = [l \in Lock |-> IF Contains(th[t].locks, l) THEN [lck[l] EXCEPT !.old = p] ELSE lck[l]]
  /\ SchedulerSame /\ AlarmSame /\ Rest /\ UNCHANGED <<condq, broken>>

\* Its end: a running thread waits for no lock, so nothing is donated.
Compare(t) ==
  /\ Running(t, "compare")
  /\ th' = At(t, "home")
  /\ IF ready # <<>> /\ th[t].new < th[Head(ready)].prio THEN YieldWith(ready, PriorityOf)
     ELSE UNCHANGED <<cur, ready>>
  /\ AlarmSame /\ Rest
  /\ UNCHANGED <<sem, lck, condq, broken>>

----------------------------------------------------------------------------
(* Condition variables: one, which belongs to the first lock *)

CondLock == LockOrder[1]

CondWait(t) ==
  /\ Call(t, "cond") /\ Contains(th[t].locks, CondLock)
  /\ sem' = [sem EXCEPT ![t] = [value |-> 0, waiters |-> <<>>]]
  /\ condq' = InsertDesc(condq, t, [u \in Thread |-> IF u = t THEN th[t].prio ELSE th[u].cprio])
  /\ th' = [th EXCEPT ![t].cprio = th[t].prio, ![t].cond = TRUE,
                     ![t].pc = "restore", ![t].lk = CondLock]
  /\ UNCHANGED <<cur, ready>> /\ AlarmSame /\ Rest
  /\ UNCHANGED <<lck, broken>>

CondDown(t) == Running(t, "await") /\ Down(t, t, "check")

\* cond_signal, and one turn of cond_broadcast's loop.
Signalling(t) ==
  /\ IF condq = <<>> THEN UNCHANGED <<condq, cur, ready, sem>>
     ELSE condq' = Tail(condq) /\ SemaUp(Head(condq))
  /\ AlarmSame /\ Rest
  /\ UNCHANGED <<lck, broken>>

CondSignal(t) ==
  /\ Call(t, "cond") /\ Contains(th[t].locks, CondLock)
  /\ Signalling(t) /\ UNCHANGED th

CondBroadcast(t) ==
  /\ Call(t, "cond") /\ Contains(th[t].locks, CondLock)
  /\ Signalling(t)
  /\ th' = At(t, IF condq = <<>> THEN "home" ELSE "broadcast")

BroadcastMore(t) ==
  /\ Running(t, "broadcast")
  /\ Signalling(t)
  /\ th' = At(t, IF condq = <<>> THEN "home" ELSE "broadcast")

----------------------------------------------------------------------------
(* The alarm clock *)

\* timer_sleep up to the search in thread_sleep's list_insert_ordered.
TimerSleep(t, n) ==
  LET later == {i \in DOMAIN sleepers : th[sleepers[i]].wake > n}
  IN  /\ Call(t, "sleep")
      /\ sem' = [sem EXCEPT ![t] = [value |-> 0, waiters |-> <<>>]]
      /\ th' = [th EXCEPT ![t].wake = n, ![t].pc = "link",
                         ![t].succ = IF later = {} THEN EndOfList ELSE sleepers[Min(later)]]
      /\ UNCHANGED <<cur, ready>> /\ AlarmSame /\ Rest
      /\ UNCHANGED <<lck, condq, broken>>

\* Mutant: every sleeper is linked in at the end.
LinkedLast(t) == Append(sleepers, t)
\* Its list_insert, in front of the element found.
Linked(t) ==
  IF th[t].succ = EndOfList THEN Append(sleepers, t)
  ELSE InsertAt(sleepers, CHOOSE i \in DOMAIN sleepers : sleepers[i] = th[t].succ, t)

\* Linking in front of an element that has left the list corrupts it.
Link(t) ==
  /\ Running(t, "link")
  /\ IF th[t].succ = EndOfList \/ Contains(sleepers, th[t].succ)
     THEN sleepers' = Linked(t) /\ UNCHANGED broken
     ELSE broken' = "sleep_list" /\ AlarmSame
  /\ th' = [th EXCEPT ![t].pc = "nap", ![t].succ = None]
  /\ SchedulerSame /\ Rest
  /\ UNCHANGED <<lck, condq>>

Nap(t) == Running(t, "nap") /\ Down(t, t, "home")

\* The timer interrupt: thread_tick rings for the sleepers at the front of
\* sleep_list that are due.  It ends cur's slice or not: how long cur has run
\* is not kept.
MayInterrupt ==
  IF cur = Idle THEN TRUE
  ELSE ~th[cur].off /\ (machine.disturbed \/ th[cur].pc = "home")

Aged == [t \in Thread |-> [th[t] EXCEPT !.wake = IF @ >= 0 THEN @ - 1 ELSE @]]

Due(a) == {i \in DOMAIN sleepers : \A j \in 1 .. i : a[sleepers[j]].wake <= 0}

Tick(sliceOver) ==
  LET n == Cardinality(Due(Aged))
      rung == SubSeq(sleepers, 1, n)
      woken == {u \in ToSet(rung) : sem[u].waiters # <<>>}
      q == InsertAll(ready, rung, woken, PriorityOf)
      outranked == \E u \in woken : Outranks(u, PriorityOf)
  IN  /\ broken = "no" /\ MayInterrupt
      /\ th' = Aged
      /\ sleepers' = SubSeq(sleepers, n + 1, Len(sleepers))
      /\ sem' = [s \in Sema |-> IF Contains(rung, s)
                                THEN [value |-> sem[s].value + 1, waiters |-> <<>>] ELSE sem[s]]
      /\ IF sliceOver \/ outranked THEN YieldWith(q, PriorityOf)
         ELSE ready' = q /\ UNCHANGED cur
      /\ Rest /\ UNCHANGED <<lck, condq, broken>>

\* idle, when its hlt is over.
IdleBlocks ==
  /\ broken = "no" /\ cur = Idle /\ ready # <<>>
  /\ RunNext(ready)
  /\ AlarmSame /\ Rest
  /\ UNCHANGED <<th, lck, sem, condq, broken>>

----------------------------------------------------------------------------
NewThread(p) ==
  [prio |-> p, base |-> p, pc |-> "home", lk |-> None, at |-> None,
   waiting |-> None, locks |-> <<>>, off |-> FALSE, new |-> p, cond |-> FALSE,
   cprio |-> Unset, wake |-> -1, succ |-> None]

\* All threads have been created; the CPU is the first thread's of the highest
\* priority and ready_list is in order.
Init ==
  /\ machine \in Machines
  /\ \E p \in machine.prios :
       /\ th = [t \in Thread |-> NewThread(p[t])]
       /\ LET q == SortDesc(SetToSeq(Thread), p)
          IN  cur = Head(q) /\ ready = Tail(q)
  /\ lck = [l \in Lock |-> [holder |-> None, highest |-> Unset, old |-> Unset]]
  /\ sem = [s \in Sema |-> [value |-> IF s \in Lock THEN 1 ELSE 0, waiters |-> <<>>]]
  /\ sleepers = <<>> /\ condq = <<>> /\ broken = "no"

\* A thread goes on with a call it has begun.
Continue(t) ==
  \/ Check(t) \/ Donate(t) \/ AcquireDown(t) \/ Got(t) \/ Record(t)
  \/ Restore(t) \/ Clear(t) \/ Up(t) \/ Compare(t)
  \/ CondDown(t) \/ BroadcastMore(t)
  \/ Link(t) \/ Nap(t)

Begin(t) ==
  \/ \E l \in Lock : Acquire(t, l) \/ Release(t, l)
  \/ \E p \in Prios : SetPriority(t, p)
  \/ CondWait(t) \/ CondSignal(t) \/ CondBroadcast(t)
  \/ \E n \in machine.naps : TimerSleep(t, n)

Timer == \E over \in BOOLEAN : Tick(over)

Next == Timer \/ IdleBlocks \/ \E t \in Thread : Continue(t) \/ Begin(t)

Spec == Init /\ [][Next]_vars

----------------------------------------------------------------------------
(* Properties *)

Pcs == {"home", "check", "donate", "down", "got", "record", "restore", "clear", "up",
        "await", "broadcast", "compare", "link", "nap"}

ThreadRecord ==
  [prio : Prios, base : Prios, new : Prios, cprio : Prios \cup {Unset}, pc : Pcs,
   lk : Lock \cup {None}, at : Lock \cup {None}, waiting : Lock \cup {None},
   locks : Seq(Lock), off : BOOLEAN, cond : BOOLEAN, wake : Nat \cup {-1},
   succ : Thread \cup {None, EndOfList}]

LockRecord ==
  [holder : Thread \cup {None}, highest : Prios \cup {Unset}, old : Prios \cup {Unset}]

\* Every thread but the running one is in one list of the scheduler, once.
OnePlace ==
  /\ cur \in Thread \cup {Idle} /\ cur \notin ToSet(ready)
  /\ ready \in Seq(Thread) /\ IsInjective(ready)
  /\ \A s \in Sema : /\ sem[s].waiters \in Seq(Thread) /\ IsInjective(sem[s].waiters)
                     /\ ToSet(sem[s].waiters) \cap (ToSet(ready) \cup {cur}) = {}
  /\ \A s, r \in Sema : s # r => ToSet(sem[s].waiters) \cap ToSet(sem[r].waiters) = {}
  /\ \A t \in Thread :
       t = cur \/ t \in ToSet(ready) \/ \E s \in Sema : t \in ToSet(sem[s].waiters)

TypeOK ==
  /\ machine \in Machines
  /\ th \in [Thread -> ThreadRecord]
  /\ lck \in [Lock -> LockRecord]
  /\ sem \in [Sema -> [value : 0 .. 1, waiters : Seq(Thread)]]
  /\ sleepers \in Seq(Thread) /\ IsInjective(sleepers)
  /\ condq \in Seq(Thread) /\ IsInjective(condq)
  /\ broken \in {"no", "null holder", "sleep_list"}
  /\ OnePlace

\* Between the end of lock_acquire and lock_release nobody else has the lock,
\* whichever interrupts come: sema_down's loop turns away who comes late.
LocksExclude ==
  \A l \in Lock, t \in Thread :
    Contains(th[t].locks, l) => lck[l].holder = t /\ sem[l].value = 0

\* A semaphore is not up while threads sleep on it, unless it is a lock's and
\* somebody is on the way to take it: a woken thread that is still in sema_down.
NoLostWakeup ==
  \A s \in Sema : sem[s].value > 0 /\ sem[s].waiters # <<>> =>
    \E t \in (ToSet(ready) \cup {cur}) \ {Idle} :
      th[t].off /\ th[t].pc = "down" /\ th[t].lk = s

\* No call of the running thread is under way.
AtRest == IF cur = Idle THEN TRUE ELSE th[cur].pc = "home"

\* The holder of a lock is at least as urgent as any thread that waits for it.
DonationReaches ==
  \A h \in Thread : \A l \in ToSet(th[h].locks) : \A w \in ToSet(sem[l].waiters) :
    th[h].prio >= th[w].prio

\* A thread without a lock is as urgent as it wants to be.
PriorityRestored ==
  \A t \in Thread : th[t].locks = <<>> /\ th[t].pc = "home" => th[t].prio = th[t].base

\* Priority donation does what it is for where threads hold one lock at a time
\* and do not change their priority, and interrupts spare lock_acquire and
\* lock_release: the holder gets the waiters' priority, gives it back with the
\* lock, and no NULL holder is followed.
DonationPlain ==
  ~machine.nested /\ ~machine.disturbed /\ "set" \notin machine.calls
    => broken = "no" /\ PriorityRestored /\ (AtRest => DonationReaches)

\* Who sleeps for at least one tick leaves sleep_list in the step in which its
\* time comes, and in no other, where interrupts spare thread_sleep: the list is
\* in order, so that the loop of thread_tick stops at the right sleeper.  This
\* is not so of timer_sleep(0), whose time has come before it is on the list;
\* it sleeps until the next tick.
AlarmsOnTime ==
  [][~machine.disturbed =>
       \A t \in ToSet(sleepers) : th[t].wake > 0 =>
         (t \notin ToSet(sleepers') <=> th'[t].wake = 0)]_vars

\* The running thread is as urgent as any ready one, where no lock is used.
HighestRuns ==
  "lock" \notin machine.calls /\ AtRest /\ cur # Idle
    => \A i \in DOMAIN ready : th[cur].prio >= th[ready[i]].prio
=============================================================================
