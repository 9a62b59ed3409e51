-------------------------- MODULE InodeSyncProofs ---------------------------
(***************************************************************************)
(* Theorems about InodeSync, for every finite set of threads, every number *)
(* of calls and every amount of free disk: extending writes exclude        *)
(* readers and each other, the monitor's counts are exact, every waiter is *)
(* owed a signal, and the calls never all wait for each other.             *)
(***************************************************************************)
EXTENDS InodeSync, KernelProofs, FiniteSetTheorems

(* Where sema_down on the lock has returned, or will return, to a thread. *)
Getting == {"entered", "cond_return", "leaving"}

(* The lock is t's: it is recorded as the holder, or is about to record it. *)
Owns(t) == holder = t \/ (pc[t] \in Getting /\ k.wants[t] = NoSema)

(* t has queued itself on a condition variable and has not been let go. *)
InCondWait(t) == pc[t] = "cond_down" \/ (pc[t] = "cond_acquire" /\ k.wants[t] # NoSema)

Queued(t) == \E c \in Cond : InQueue(condq[c], t)

ReadingSet == {t \in Worker : Reading(t)}

CountedInSet == {t \in Worker : CountedIn(t)}

DenyingSet == {t \in Worker : pc[t] = "denied"}

-----------------------------------------------------------------------------
(* The inductive invariant, in parts. *)

(* The call a thread is in, by where it is. *)
Calls ==
  \A t \in Worker :
    /\ pc[t] \in {"call", "dead"} => op[t] = "none"
    /\ pc[t] \in {"check", "extend", "extended", "broadcast"} => op[t] = "write"
    /\ pc[t] \in {"leave", "leaving", "leave_release"} => op[t] = "read"
    /\ pc[t] \in {"deny", "denied"} => op[t] = "deny"
    /\ pc[t] \in {"enter", "entered", "test", "cond_wait", "cond_down", "cond_acquire",
                  "cond_return", "release", "data"} => op[t] \in {"read", "write"}

Alive == \A t \in Worker : pc[t] # "dead" => Live(k, t)

(* Who is inside sema_down, and for which semaphore. *)
Asks ==
  \A t \in Thread : k.wants[t] # NoSema =>
    /\ t \in Worker
    /\ \/ k.wants[t] = LockSema /\ pc[t] \in Getting
       \/ k.wants[t] = WaiterSema(t) /\ pc[t] = "cond_acquire"

(* One thread owns the lock or its semaphore is one.  A holder that is not  *)
(* inside the monitor has leaked the lock, and starts calls at most.        *)
LockOK ==
  /\ \A t \in Worker : pc[t] \in Inside => holder = t
  /\ \A t \in Worker : holder = t =>
       pc[t] \in Inside \cup {"call", "check", "enter", "deny", "denied", "dead", "panic"}
  /\ \A t, u \in Worker : Owns(t) /\ Owns(u) => t = u
  /\ k.value[LockSema] = IF \E t \in Worker : Owns(t) THEN 0 ELSE 1

(* A thread is in the queue of the condition it waits for until signalled,  *)
(* and its semaphore is one from then until it has taken it.                *)
QueuesOK ==
  /\ \A c \in Cond : Distinct(condq[c])
  /\ \A c \in Cond, t \in Worker : InQueue(condq[c], t) => InCondWait(t) /\ WaitsOn(t) = c
  /\ \A t \in Worker :
       k.value[WaiterSema(t)] = IF InCondWait(t) /\ ~ Queued(t) THEN 1 ELSE 0

(* What a thread has found, it finds still: nobody else has the lock. *)
Tested ==
  \A t \in Worker :
    /\ pc[t] = "cond_wait" => MustWait(t)
    /\ pc[t] \in {"extend", "extended"} => readers = 0

Counted ==
  /\ readers = Cardinality(ReadingSet)
  /\ deny = Cardinality(DenyingSet)
  /\ ~ Leaked => writers = Cardinality(CountedInSet)

IInv ==
  /\ KernelOK(k) /\ Covered(k)
  /\ TypeOK
  /\ Calls /\ Alive /\ Asks
  /\ LockOK /\ QueuesOK /\ Tested
  /\ Counted /\ WaitersAreOwed

-----------------------------------------------------------------------------

(* The types, and that the lock and each waiter have a semaphore of their own. *)
LEMMA SyncRecord ==
  ASSUME KernelOK(k)
  PROVE  /\ k.run \in Thread /\ k.status \in [Thread -> Status]
         /\ k.value \in [Sema -> Nat] /\ k.wants \in [Thread -> Sema \cup {NoSema}]
         /\ LockSema \in Sema /\ LockSema # NoSema
         /\ \A t \in Worker : /\ t \in Thread /\ t # Idle /\ t # NoSema
                              /\ WaiterSema(t) \in Sema /\ WaiterSema(t) # NoSema
                              /\ WaiterSema(t) # LockSema
         /\ \A t, u \in Worker : WaiterSema(t) = WaiterSema(u) => t = u
<1>1. k \in KernelState
  BY DEF KernelOK
<1> QED
  BY <1>1, KernelRecord, KernelAssumption, InodeSyncAssumption
  DEF Worker, LockSema, WaiterSema

(* Counting calls: one fewer, one more, the only one. *)
LEMMA WorkersFinite ==
  ASSUME NEW S \in SUBSET Worker
  PROVE  /\ IsFiniteSet(S) /\ Cardinality(S) \in Nat
         /\ Cardinality(S) = 0 <=> S = {}
         /\ \A t \in S : Cardinality(S \ {t}) = Cardinality(S) - 1
         /\ \A t : t \notin S => Cardinality(S \cup {t}) = Cardinality(S) + 1
         /\ \A t \in S : Cardinality(S) = 1 => S = {t}
<1>1. IsFiniteSet(S)
  BY KernelAssumption, FS_Subset DEF Worker
<1>2. ASSUME NEW t \in S, Cardinality(S) = 1 PROVE S = {t}
  BY <1>1, <1>2, FS_Singleton
<1> QED
  BY <1>1, <1>2, FS_CardinalityType, FS_EmptySet, FS_AddElement, FS_RemoveElement

(* Every worker has been created, and nothing else has happened yet. *)
LEMMA InitOK == Init => IInv
<1> SUFFICES ASSUME Init PROVE IInv
  OBVIOUS
<1>1. PICK order \in SetToSeqs(Worker) : k = ThreadBlock(Created(order))
  BY DEF Init
<1> DEFINE n == Cardinality(Worker)
           m == Created(order)
           v == [s \in Sema |-> IF s = LockSema THEN 1 ELSE 0]
<1>2. n \in Nat /\ IsFiniteSet(Worker) /\ IsFiniteSet(1..n) /\ Cardinality(1..n) = n
  BY WorkersFinite, FS_Interval
<1>3. /\ order \in [1..n -> Worker]
      /\ \A i, j \in 1..n : i # j => order[i] # order[j]
  BY DEF SetToSeqs
<1>4. order \in Seq(Worker) /\ Len(order) = n
  BY <1>2, <1>3
<1>5. \A t \in Worker : \E i \in 1..n : order[i] = t
  <2>1. order \in Injection(1..n, Worker)
    BY <1>3 DEF Injection, IsInjective
  <2>2. order \in Surjection(1..n, Worker)
    BY <1>2, <2>1, FS_Injection
  <2> QED
    BY <2>2 DEF Surjection
<1>6. /\ m.project = 4 /\ m.run = Main /\ m.ready = order /\ m.value = v
      /\ m.waiters = [s \in Sema |-> <<>>] /\ m.wants = [t \in Thread |-> NoSema]
      /\ m.status = [t \in Thread |-> IF t \in Worker THEN "READY"
                                      ELSE IF t = Main THEN "RUNNING" ELSE "BLOCKED"]
  BY DEF Created, Booted, Worker
<1>7. KernelOK(m)
  <2>1. order \in Seq(Thread) /\ v \in [Sema -> Nat]
    BY <1>4 DEF Worker
  <2>2. m \in KernelState
    <3> DEFINE b == Booted(4, v)
               ready == [t \in Thread |-> IF t \in Worker THEN "READY" ELSE b.status[t]]
    <3>1. b \in KernelState
      BY <2>1, BootedOK, InodeSyncAssumption DEF KernelOK
    <3>2. m = [b EXCEPT !.ready = order, !.status = ready]
      BY DEF Created
    <3> HIDE DEF b, m
    <3>3. ready \in [Thread -> Status]
      BY <3>1 DEF KernelState, Status
    <3> HIDE DEF ready
    <3> QED
      BY <2>1, <3>1, <3>2, <3>3 DEF KernelState
  <2>3. OneRuns(m)
    BY <1>6, KernelAssumption DEF OneRuns, Worker
  <2>4. ReadyIsQueued(m)
    <3>1. Distinct(order)
      BY <1>3, <1>4 DEF Distinct
    <3>2. \A t \in Thread : InQueue(order, t) <=> t \in Worker
      BY <1>3, <1>4, <1>5 DEF InQueue
    <3> QED
      BY <1>6, <3>1, <3>2 DEF ReadyIsQueued, Worker
  <2>5. BlockedIsQueued(m)
    BY <1>6, KernelAssumption DEF BlockedIsQueued, Distinct, InQueue
  <2>6. WantsIsLive(m) /\ SlotsOK(m)
    BY <1>6, KernelAssumption DEF WantsIsLive, SlotsOK, Worker
  <2> QED
    BY <2>2, <2>3, <2>4, <2>5, <2>6 DEF KernelOK
<1>8. KernelOK(k) /\ SameSemaphores(m, k) /\ Frame(m, k, {})
  BY <1>1, <1>6, <1>7, BlockOK, KernelAssumption
<1>9. /\ k.value = v /\ k.waiters = [s \in Sema |-> <<>>]
      /\ k.wants = [t \in Thread |-> NoSema]
      /\ \A t \in Worker : Live(k, t)
  <2>1. \A t \in Worker : t \in Thread /\ Live(m, t)
    BY <1>6 DEF Live, Worker
  <2> QED
    BY <1>6, <1>8, <2>1 DEF SameSemaphores, Frame
<1> HIDE DEF m
<1>10. Covered(k)
  BY <1>9 DEF Covered, WakeupsCover
<1>11. /\ pc = [t \in Worker |-> "call"] /\ op = [t \in Worker |-> "none"]
       /\ calls = [t \in Worker |-> MaxCalls] /\ holder = Nobody
       /\ condq = [c \in Cond |-> <<>>]
       /\ readers = 0 /\ writers = 0 /\ deny = 0 /\ spare = SpareBlocks
  BY DEF Init
<1>12. TypeOK
  BY <1>8, <1>11, InodeSyncAssumption DEF TypeOK, KernelOK, Labels
<1>13. Calls /\ Alive /\ Asks
  BY <1>8, <1>9, <1>11, SyncRecord DEF Calls, Alive, Asks
<1>14. \A t \in Worker : holder # t
  BY <1>8, <1>11, SyncRecord DEF Nobody
<1>15. LockOK
  BY <1>8, <1>9, <1>11, <1>14, SyncRecord DEF LockOK, Owns, Inside, Getting
<1>16. QueuesOK
  BY <1>8, <1>9, <1>11, SyncRecord DEF QueuesOK, InCondWait, Distinct, InQueue
<1>17. Tested
  BY <1>11 DEF Tested
<1>18. Counted
  <2>1. ReadingSet = {} /\ CountedInSet = {} /\ DenyingSet = {}
    BY <1>11 DEF ReadingSet, CountedInSet, DenyingSet, Reading, CountedIn
  <2> QED
    BY <1>11, <2>1, FS_EmptySet DEF Counted
<1>19. WaitersAreOwed
  BY <1>11 DEF WaitersAreOwed, Cond
<1> QED
  BY <1>8, <1>10, <1>12, <1>13, <1>15, <1>16, <1>17, <1>18, <1>19 DEF IInv

-----------------------------------------------------------------------------
(* What one thread's step leaves alone. *)
Only(t) == \A u \in Worker : u # t => pc'[u] = pc[u] /\ op'[u] = op[u]

(* A call that moves is the running thread's; within the monitor it has the lock. *)
LEMMA Caller ==
  ASSUME IInv, NEW t \in Worker, NEW label, At(t, label)
  PROVE  /\ k.run = t /\ pc[t] = label /\ k.wants[t] = NoSema /\ t # Idle /\ t \in Thread
         /\ label \in Inside => holder = t
  BY SyncRecord DEF IInv, LockOK, At, InterruptsOn, InSemaDown

(* A thread inside the monitor, or about to be, shows that it is not leaked. *)
LEMMA OwnerInside ==
  ASSUME IInv, NEW t \in Worker, Owns(t), pc[t] \in Inside \cup Getting
  PROVE  ~ Leaked /\ \A u \in Worker : Owns(u) => u = t
<1>1. \A u \in Worker : Owns(u) => u = t
  BY DEF IInv, LockOK
<1>2. holder = t => pc[t] \in Inside
  BY DEF IInv, LockOK, Getting
<1> QED
  BY <1>1, <1>2 DEF Leaked, Owns

(* Who is alive, when one call moves. *)
LEMMA AliveFrame ==
  ASSUME IInv, NEW t \in Worker, Only(t),
         \A u \in Worker : u # t /\ Live(k, u) => Live(k', u),
         pc'[t] = "dead" \/ Live(k', t)
  PROVE  Alive'
  BY DEF IInv, Only, Alive

(* Who has the lock, when one call moves and the semaphore is not touched. *)
LEMMA LockFrame ==
  ASSUME IInv, NEW t \in Worker, Only(t),
         k'.wants = k.wants, k'.value[LockSema] = k.value[LockSema],
         holder' = holder \/ (holder' = t /\ Owns(t)), Owns(t)' = Owns(t),
         pc'[t] \in Inside => holder' = t,
         holder' = t =>
           pc'[t] \in Inside \cup {"call", "check", "enter", "deny", "denied", "dead", "panic"}
  PROVE  LockOK'
<1>1. \A u \in Worker : u # t => (holder = u => ~ Owns(t))
  BY DEF IInv, LockOK, Owns
<1>2. \A u \in Worker : Owns(u)' = Owns(u)
  <2> SUFFICES ASSUME NEW u \in Worker, u # t PROVE Owns(u)' = Owns(u)
    OBVIOUS
  <2>1. pc'[u] = pc[u]
    BY DEF Only
  <2> QED
    BY <1>1, <2>1 DEF Owns
<1>3. \A u \in Worker : u # t => pc'[u] = pc[u] /\ (holder' = u => holder = u)
  BY DEF Only
<1>4. \A u \in Worker : u # t /\ pc[u] \in Inside => holder' = u
  BY <1>1 DEF IInv, LockOK, Owns
<1> QED
  BY <1>2, <1>3, <1>4 DEF IInv, LockOK

(* The queues of the conditions, when one call moves that is not in cond_wait. *)
LEMMA QueuesFrame ==
  ASSUME IInv, NEW t \in Worker, Only(t), condq' = condq, k'.wants = k.wants,
         \A u \in Worker : k'.value[WaiterSema(u)] = k.value[WaiterSema(u)],
         pc[t] \notin {"cond_down", "cond_acquire"}, pc'[t] \notin {"cond_down", "cond_acquire"}
  PROVE  QueuesOK'
<1>1. \A u \in Worker : InCondWait(u)' = InCondWait(u) /\ Queued(u)' = Queued(u)
  BY DEF Only, InCondWait, Queued
<1>2. \A u \in Worker : u # t => WaitsOn(u)' = WaitsOn(u)
  BY DEF Only, WaitsOn
<1>3. ~ InCondWait(t)
  BY DEF InCondWait
<1> QED
  BY <1>1, <1>2, <1>3 DEF IInv, QueuesOK

(* What is owed to the waiters is owed still. *)
LEMMA OwedFrame ==
  ASSUME IInv, NEW t \in Worker, Only(t), condq' = condq, Leaked => Leaked',
         readers' >= readers, writers' >= writers, readers \in Nat, writers \in Nat,
         readers' \in Nat, writers' \in Nat,
         CountedIn(t) => CountedIn(t)', pc[t] = "broadcast" => pc'[t] = "broadcast"
  PROVE  WaitersAreOwed'
<1>1. \A u \in Worker : CountedIn(u) => CountedIn(u)'
  BY DEF Only, CountedIn
<1>2. \A u \in Worker : pc[u] = "broadcast" => pc'[u] = "broadcast"
  BY DEF Only
<1> QED
  BY <1>1, <1>2 DEF IInv, WaitersAreOwed

-----------------------------------------------------------------------------
(* Steps of a thread that touch nothing of the monitor: it goes to l, in    *)
(* call o, inside the monitor or outside as before.                         *)
Aside(t, l, o) ==
  /\ k.run = t /\ k.wants[t] = NoSema
  /\ pc' = [pc EXCEPT ![t] = l] /\ op' = [op EXCEPT ![t] = o]
  /\ UNCHANGED <<k, holder, condq, readers, writers>>
  /\ l \in Labels \ ({"dead", "panic", "cond_down", "cond_acquire", "broadcast"} \cup Getting)
  /\ pc[t] \notin {"dead", "cond_down", "cond_acquire", "broadcast"} \cup Getting
  /\ calls' \in [Worker -> 0..MaxCalls] /\ spare' \in Nat

(* A step of one call that touches neither lock nor queues keeps the invariant. *)
LEMMA AsideOK ==
  ASSUME IInv, NEW t \in Worker, NEW l, NEW o \in {"none", "read", "write", "deny"},
         Aside(t, l, o), Calls',
         l \in Inside => holder = t,
         holder = t => l \in Inside \cup {"call", "check", "enter", "deny", "denied"},
         l = "cond_wait" => MustWait(t)', l \in {"extend", "extended"} => readers = 0,
         Reading(t)' = Reading(t), Leaked => Leaked',
         Leaked' \/ CountedIn(t)' = CountedIn(t),
         deny' \in Nat, deny' = Cardinality(DenyingSet')
  PROVE  IInv'
<1>1. /\ t \in Thread /\ l \in Labels /\ pc'[t] = l /\ op'[t] = o
      /\ KernelOK(k') /\ Covered(k') /\ k' = k
      /\ k.value \in [Sema -> Nat] /\ LockSema \in Sema
  BY SyncRecord DEF IInv, Aside, TypeOK
<1>2. Only(t)
  BY DEF Only, Aside, IInv, TypeOK
<1>3. TypeOK'
  BY <1>1 DEF IInv, TypeOK, Aside
<1>4. Alive' /\ Asks'
  BY <1>1, <1>2 DEF IInv, Alive, Asks, Aside, Only
<1>5. LockOK'
  <2>1. Owns(t)' = Owns(t)
    BY <1>1 DEF Owns, Aside
  <2> QED
    BY <1>1, <1>2, <2>1, LockFrame DEF Aside
<1>6. QueuesOK'
  BY <1>1, <1>2, QueuesFrame DEF Aside
<1>7. Tested'
  BY <1>1, <1>2 DEF IInv, Tested, Only, Aside, MustWait
<1>8. Counted'
  <2>1. ReadingSet' = ReadingSet
    BY <1>2 DEF ReadingSet, Only, Reading
  <2>2. ASSUME ~ Leaked' PROVE CountedInSet' = CountedInSet
    BY <1>2, <2>2 DEF CountedInSet, Only, CountedIn
  <2> QED
    BY <2>1, <2>2 DEF IInv, Counted, Aside
<1>9. WaitersAreOwed'
  <2>1. CASE Leaked'
    BY <2>1 DEF WaitersAreOwed
  <2>2. CASE ~ Leaked'
    BY <1>1, <1>2, <2>2, OwedFrame DEF IInv, TypeOK, Aside
  <2> QED
    BY <2>1, <2>2
<1> QED
  BY <1>1, <1>3, <1>4, <1>5, <1>6, <1>7, <1>8, <1>9 DEF IInv

(* Leaving the monitor's states alone keeps the leak, too. *)
LEMMA LeakedFrame ==
  ASSUME IInv, NEW t \in Worker, Only(t), holder' = holder,
         (pc'[t] \in Inside) = (pc[t] \in Inside)
  PROVE  Leaked' = Leaked
  BY DEF Only, Leaked

(* deny_write_cnt, when the calls that deny stay the same. *)
LEMMA DenyingFrame ==
  ASSUME IInv, NEW t \in Worker, Only(t), deny' = deny, (pc'[t] = "denied") = (pc[t] = "denied")
  PROVE  deny' \in Nat /\ deny' = Cardinality(DenyingSet')
<1>1. DenyingSet' = DenyingSet
  BY DEF Only, DenyingSet
<1> QED
  BY <1>1 DEF IInv, Counted, TypeOK

(* Which operation is at which label, when one call moves. *)
LEMMA CallsFrame ==
  ASSUME IInv, NEW t \in Worker, Only(t),
    /\ pc'[t] \in {"call", "dead"} => op'[t] = "none"
    /\ pc'[t] \in {"check", "extend", "extended", "broadcast"} => op'[t] = "write"
    /\ pc'[t] \in {"leave", "leaving", "leave_release"} => op'[t] = "read"
    /\ pc'[t] \in {"deny", "denied"} => op'[t] = "deny"
    /\ pc'[t] \in {"enter", "entered", "test", "cond_wait", "cond_down", "cond_acquire",
                   "cond_return", "release", "data"} => op'[t] \in {"read", "write"}
  PROVE  Calls'
  BY DEF IInv, Calls, Only

(* A call begins. *)
LEMMA BeginOK ==
  ASSUME IInv, NEW t \in Worker, NEW o \in {"read", "write", "deny"}, Begin(t, o)
  PROVE  IInv'
<1> DEFINE l == CASE o = "read" -> "enter" [] o = "write" -> "check" [] o = "deny" -> "deny"
<1>1. k.run = t /\ pc[t] = "call" /\ k.wants[t] = NoSema
  BY Caller DEF Begin
<1>2. l \in {"enter", "check", "deny"}
  OBVIOUS
<1>3. Aside(t, l, o)
  <2>1. calls' \in [Worker -> 0..MaxCalls]
    BY InodeSyncAssumption DEF Begin, IInv, TypeOK
  <2> QED
    BY <1>1, <1>2, <2>1 DEF Begin, Aside, Goto, inode, Labels, Getting, IInv, TypeOK
<1>4. Only(t) /\ pc'[t] = l /\ op'[t] = o /\ deny' = deny /\ holder' = holder
  BY DEF Begin, Only, Goto, IInv, TypeOK, inode
<1>5. Calls'
  BY <1>2, <1>4, CallsFrame
<1>6. deny' \in Nat /\ deny' = Cardinality(DenyingSet')
  BY <1>1, <1>2, <1>4, DenyingFrame
<1>7. Leaked' = Leaked
  BY <1>1, <1>2, <1>4, LeakedFrame DEF Inside
<1>8. Reading(t)' = Reading(t) /\ CountedIn(t)' = CountedIn(t)
  BY <1>1, <1>2, <1>4 DEF Reading, CountedIn
<1> HIDE DEF l
<1> QED
  BY <1>2, <1>3, <1>5, <1>6, <1>7, <1>8, AsideOK DEF Inside

(* inode_deny_write and inode_allow_write, which take no lock. *)
LEMMA DenyOK ==
  ASSUME IInv, NEW t \in Worker, DenyWrite(t) \/ AllowWrite(t) PROVE IInv'
<1> DEFINE l == IF pc[t] = "deny" THEN "denied" ELSE "call"
           o == IF pc[t] = "deny" THEN op[t] ELSE "none"
<1>1. /\ k.run = t /\ pc[t] \in {"deny", "denied"} /\ k.wants[t] = NoSema
      /\ pc' = [pc EXCEPT ![t] = l] /\ op' = [op EXCEPT ![t] = o] /\ UNCHANGED calls
      /\ deny' = IF pc[t] = "deny" THEN deny + 1 ELSE deny - 1
      /\ UNCHANGED <<k, holder, condq, readers, writers, spare>>
  <2>1. op = [op EXCEPT ![t] = op[t]]
    BY DEF IInv, TypeOK
  <2> QED
    BY <2>1, Caller DEF DenyWrite, AllowWrite, Goto, Return, local
<1>2. o \in {"none", "deny"} /\ l \in {"denied", "call"}
  BY <1>1 DEF IInv, Calls
<1>3. Aside(t, l, o)
  BY <1>1, <1>2 DEF Aside, Labels, Getting, IInv, TypeOK
<1>4. Only(t) /\ pc'[t] = l /\ op'[t] = o
  BY <1>1 DEF Only, IInv, TypeOK
<1>5. Calls'
  BY <1>1, <1>4, CallsFrame DEF IInv, Calls
<1>6. deny' \in Nat /\ deny' = Cardinality(DenyingSet')
  <2>1. CASE pc[t] = "deny"
    <3>1. t \notin DenyingSet /\ DenyingSet' = DenyingSet \cup {t}
      BY <1>4, <2>1 DEF DenyingSet, Only
    <3>2. DenyingSet \in SUBSET Worker /\ DenyingSet' \in SUBSET Worker
      BY DEF DenyingSet
    <3>3. Cardinality(DenyingSet') = Cardinality(DenyingSet) + 1 /\ Cardinality(DenyingSet') \in Nat
      BY <3>1, <3>2, WorkersFinite
    <3> QED
      BY <1>1, <2>1, <3>3 DEF IInv, Counted, TypeOK
  <2>2. CASE pc[t] = "denied"
    <3>1. t \in DenyingSet /\ DenyingSet' = DenyingSet \ {t}
      BY <1>4, <2>2 DEF DenyingSet, Only
    <3>2. DenyingSet \in SUBSET Worker /\ DenyingSet' \in SUBSET Worker
      BY DEF DenyingSet
    <3>3. Cardinality(DenyingSet') = Cardinality(DenyingSet) - 1 /\ Cardinality(DenyingSet') \in Nat
      BY <3>1, <3>2, WorkersFinite
    <3> QED
      BY <1>1, <2>2, <3>3 DEF IInv, Counted, TypeOK
  <2> QED
    BY <1>1, <2>1, <2>2
<1>7. Leaked' = Leaked
  BY <1>1, <1>4, LeakedFrame DEF Inside
<1>8. Reading(t)' = Reading(t) /\ CountedIn(t)' = CountedIn(t)
  BY <1>1, <1>4 DEF Reading, CountedIn
<1> QED
  BY <1>1, <1>2, <1>3, <1>5, <1>6, <1>7, <1>8, AsideOK DEF Inside

(* Steps inside the monitor, or outside it, that change no count: the test  *)
(* of a thread that must wait or may extend, the index blocks, the data,    *)
(* the look at deny_write_cnt, and the write that gives up with the lock.   *)
AsideStep(t) ==
  \/ CheckDeny(t) \/ (Test(t) /\ readers' = readers)
  \/ Extend(t, 0) \/ Extend(t, 1) \/ ExtendFails(t)
  \/ ReadData(t) \/ WriteData(t)

(* Each of the steps aside of lock and queues. *)
LEMMA AsideStepOK == ASSUME IInv, NEW t \in Worker, AsideStep(t) PROVE IInv'
<1>1. k.run = t /\ k.wants[t] = NoSema /\ (pc[t] \in Inside => holder = t)
  BY Caller
  DEF AsideStep, CheckDeny, Test, Extend, ExtendFails, ReadData, WriteData, Inside
<1>2. /\ op = [op EXCEPT ![t] = op[t]] /\ op[t] \in {"none", "read", "write", "deny"}
      /\ readers \in Nat /\ writers \in Nat /\ spare \in Nat /\ deny \in Nat
  BY DEF IInv, TypeOK
<1>3. PICK l \in Labels, o \in {"none", op[t]} :
        /\ pc' = [pc EXCEPT ![t] = l] /\ op' = [op EXCEPT ![t] = o]
        /\ \/ /\ pc[t] = "check" /\ l \in {"call", "enter"}
              /\ o = IF l = "call" THEN "none" ELSE op[t]
           \/ pc[t] = "test" /\ l = "cond_wait" /\ o = op[t] /\ MustWait(t)
           \/ pc[t] = "test" /\ l = "extend" /\ o = op[t] /\ ~ MustWait(t) /\ op[t] # "read"
           \/ pc[t] = "extend" /\ l = "extended" /\ o = op[t]
           \/ pc[t] = "extend" /\ l = "call" /\ o = "none"
           \/ pc[t] = "data" /\ l = "leave" /\ o = op[t] /\ op[t] = "read"
           \/ pc[t] = "data" /\ l = "call" /\ o = "none" /\ op[t] = "write"
  <2>1. CASE CheckDeny(t)
    BY <1>2, <2>1, Caller DEF CheckDeny, Goto, Return, local, Labels
  <2>2. CASE Test(t) /\ readers' = readers
    BY <1>2, <2>2, Caller DEF Test, Goto, local, Labels
  <2>3. CASE Extend(t, 0) \/ Extend(t, 1)
    BY <1>2, <2>3, Caller DEF Extend, Goto, local, Labels
  <2>4. CASE ExtendFails(t) \/ WriteData(t)
    BY <1>2, <2>4, Caller DEF ExtendFails, WriteData, Goto, Return, local, Labels
  <2>5. CASE ReadData(t)
    BY <1>2, <2>5, Caller DEF ReadData, Goto, local, Labels
  <2> QED
    BY <2>1, <2>2, <2>3, <2>4, <2>5 DEF AsideStep
<1>4. UNCHANGED <<k, calls, holder, condq, readers, writers, deny>> /\ spare' \in Nat
  BY <1>2
  DEF AsideStep, CheckDeny, Test, Extend, ExtendFails, ReadData, WriteData, Return,
      local, inode
<1>5. Aside(t, l, o)
  BY <1>1, <1>3, <1>4 DEF Aside, Getting, IInv, TypeOK
<1>6. Only(t) /\ pc'[t] = l /\ op'[t] = o
  BY <1>3 DEF Only, IInv, TypeOK
<1>7. Calls'
  BY <1>3, <1>6, CallsFrame DEF IInv, Calls
<1>8. deny' \in Nat /\ deny' = Cardinality(DenyingSet')
  BY <1>3, <1>4, <1>6, DenyingFrame
<1>9. (Leaked => Leaked') /\ (Leaked' \/ CountedIn(t)' = CountedIn(t))
  <2>1. CASE pc[t] = "extend" /\ l = "call"
    BY <1>1, <1>4, <1>6, <2>1 DEF Leaked, Inside
  <2>2. CASE ~ (pc[t] = "extend" /\ l = "call")
    <3>1. Leaked' = Leaked
      BY <1>3, <1>4, <1>6, <2>2, LeakedFrame DEF Inside
    <3>2. CountedIn(t)' = CountedIn(t)
      BY <1>3, <1>6, <2>2 DEF CountedIn
    <3> QED
      BY <3>1, <3>2
  <2> QED
    BY <2>1, <2>2
<1>10. Reading(t)' = Reading(t)
  BY <1>3, <1>6 DEF Reading
<1>11. /\ l = "cond_wait" => MustWait(t)'
       /\ l \in {"extend", "extended"} => readers = 0
  BY <1>2, <1>3, <1>4, <1>6 DEF MustWait, IInv, Tested
<1>12. /\ l \in Inside => holder = t
       /\ holder = t => l \in Inside \cup {"call", "check", "enter", "deny", "denied"}
  BY <1>1, <1>3 DEF Inside, IInv, LockOK
<1> QED
  BY <1>2, <1>3, <1>5, <1>7, <1>8, <1>9, <1>10, <1>11, <1>12, AsideOK

-----------------------------------------------------------------------------
(* Steps of the lock's owner that keep it inside the monitor. *)
LEMMA OwnersStepOK ==
  ASSUME IInv, NEW t \in Worker, Owns(t), pc[t] \in Inside \cup Getting,
         KernelOK(k'), Covered(k'), k'.wants = k.wants,
         k'.value[LockSema] = k.value[LockSema],
         \A u \in Worker : Live(k, u) => Live(k', u),
         Only(t), pc' \in [Worker -> Labels],
         op' = op, calls' = calls, spare' = spare, deny' = deny,
         holder' = t, pc'[t] \in {"test", "release", "broadcast", "leave_release"},
         pc'[t] = "broadcast" => op[t] = "write", pc'[t] = "leave_release" => op[t] = "read",
         pc'[t] \in {"test", "release"} => op[t] \in {"read", "write"},
         condq' \in [Cond -> Seq(Worker)], QueuesOK',
         readers' \in Nat, readers' = Cardinality(ReadingSet'),
         writers' \in Nat, writers' = Cardinality(CountedInSet'), WaitersAreOwed'
  PROVE  IInv'
<1>1. TypeOK'
  BY DEF IInv, TypeOK, KernelOK
<1>2. Calls'
  BY CallsFrame
<1>3. Alive'
  <2>1. Live(k, t)
    BY DEF IInv, Alive, Inside, Getting
  <2> QED
    BY <2>1, AliveFrame
<1>4. Asks'
  <2>1. k.wants[t] = NoSema
    <3>1. holder = t => pc[t] \notin Getting
      BY DEF IInv, LockOK, Inside, Getting
    <3>2. pc[t] \in Inside => k.wants[t] = NoSema
      BY SyncRecord DEF IInv, Asks, Inside, Getting
    <3> QED
      BY <3>1, <3>2 DEF Owns
  <2> QED
    BY <2>1, SyncRecord DEF IInv, Asks, Only
<1>5. LockOK'
  <2>1. Owns(t)'
    BY DEF Owns
  <2> QED
    BY <2>1, LockFrame DEF Inside
<1>6. \A u \in Worker : u # t => pc'[u] \notin Inside
  BY OwnerInside DEF Only, IInv, LockOK, Owns
<1>7. Tested'
  BY <1>6 DEF Tested, Inside
<1>8. Counted'
  <2>1. pc[t] # "denied" /\ pc'[t] # "denied"
    BY DEF Inside, Getting
  <2>2. deny' = Cardinality(DenyingSet')
    BY <2>1, DenyingFrame
  <2> QED
    BY <2>2 DEF Counted
<1> QED
  BY <1>1, <1>2, <1>3, <1>4, <1>5, <1>7, <1>8 DEF IInv

(* A signal wakes the first waiter's semaphore and lets the waiter go. *)
LEMMA SignalOK ==
  ASSUME IInv, NEW t \in Worker, NEW c \in Cond, Signal(c), Only(t),
         k.run = t, pc[t] \notin {"cond_down", "cond_acquire"},
         pc'[t] \notin {"cond_down", "cond_acquire"}
  PROVE  /\ KernelOK(k') /\ Covered(k') /\ k'.wants = k.wants
         /\ k'.value[LockSema] = k.value[LockSema]
         /\ \A u \in Worker : Live(k, u) => Live(k', u)
         /\ condq' \in [Cond -> Seq(Worker)] /\ QueuesOK'
         /\ \A d \in Cond, u \in Worker : InQueue(condq'[d], u) => InQueue(condq[d], u)
         /\ \A d \in Cond : condq[d] = <<>> => condq'[d] = <<>>
         /\ condq[c] # <<>> => \E h \in Worker :
              h # t /\ InCondWait(h) /\ WaitsOn(h) = c /\ ~ InQueue(condq'[c], h)
<1>1. /\ KernelOK(k) /\ Covered(k) /\ k.value \in [Sema -> Nat]
      /\ condq \in [Cond -> Seq(Worker)] /\ LockSema \in Sema
      /\ \A u \in Worker : u \in Thread /\ WaiterSema(u) \in Sema /\ WaiterSema(u) # LockSema
      /\ \A u, v \in Worker : WaiterSema(u) = WaiterSema(v) => u = v
  BY SyncRecord DEF IInv, TypeOK
<1>2. CASE condq[c] = <<>>
  <2>1. k' = k /\ condq' = condq
    BY <1>2 DEF Signal
  <2>2. QueuesOK'
    BY <2>1, QueuesFrame
  <2> QED
    BY <1>1, <1>2, <2>1, <2>2
<1>3. CASE condq[c] # <<>>
  <2>1. PICK h \in Worker, q \in Seq(Worker) : h = Head(condq[c]) /\ q = Tail(condq[c])
    <3>1. condq[c] \in Seq(Worker)
      BY <1>1
    <3>2. Head(condq[c]) \in Worker /\ Tail(condq[c]) \in Seq(Worker)
      BY <1>3, <3>1
    <3> QED
      BY <3>2
  <2>2. PICK s \in Sema : s = WaiterSema(h)
    BY <1>1
  <2>3. /\ condq[c] \in Seq(Worker) /\ condq[c] \in Seq(Thread)
        /\ h \in Worker /\ q \in Seq(Worker) /\ Distinct(condq[c])
    BY <1>1, <1>3 DEF IInv, QueuesOK
  <2>4. /\ k' = SemaUp(k, s) /\ condq' = [condq EXCEPT ![c] = q]
    BY <1>3, <2>1, <2>2 DEF Signal
  <2>5. s \in Sema /\ s # LockSema
    BY <1>1, <2>3, <2>2
  <2>6. /\ KernelOK(k') /\ Covered(k') /\ k'.wants = k.wants
        /\ k'.value = [k.value EXCEPT ![s] = @ + 1] /\ Frame(k, k', {})
    BY <1>1, <2>4, <2>5, UpOK
  <2>7. /\ InQueue(condq[c], h) /\ Distinct(q) /\ ~ InQueue(q, h)
        /\ \A u \in Worker : u # h => (InQueue(q, u) <=> InQueue(condq[c], u))
    BY <1>1, <1>3, <2>3, <2>1, TailQueue
  <2>8. InCondWait(h) /\ WaitsOn(h) = c
    BY <2>3, <2>7 DEF IInv, QueuesOK
  <2>9. h # t
    BY <2>8 DEF InCondWait
  <2>10. condq'[c] = q /\ \A d \in Cond : d # c => condq'[d] = condq[d]
    BY <1>1, <2>4
  <2>11. k'.value[s] = k.value[s] + 1 /\ \A r \in Sema : r # s => k'.value[r] = k.value[r]
    BY <1>1, <2>5, <2>6
  <2>12. \A u \in Worker : InCondWait(u)' = InCondWait(u)
    BY <2>6 DEF Only, InCondWait
  <2>13. \A u \in Worker : u # t => WaitsOn(u)' = WaitsOn(u)
    BY DEF Only, WaitsOn
  <2>14. QueuesOK'
    <3>1. \A d \in Cond : Distinct(condq'[d])
      BY <2>7, <2>10 DEF IInv, QueuesOK
    <3>2. \A d \in Cond, u \in Worker : InQueue(condq'[d], u) => InQueue(condq[d], u)
      BY <2>3, <2>7, <2>10
    <3>3. \A d \in Cond, u \in Worker :
            InQueue(condq'[d], u) => InCondWait(u)' /\ WaitsOn(u)' = d
      BY <2>12, <2>13, <3>2 DEF IInv, QueuesOK, InCondWait
    <3>4. ~ Queued(h)' /\ Queued(h)
      <4>1. \A d \in Cond : InQueue(condq[d], h) => d = c
        BY <2>3, <2>8 DEF IInv, QueuesOK
      <4> QED
        BY <2>7, <2>10, <3>2, <4>1, <2>3 DEF Queued
    <3>5. \A u \in Worker : u # h => Queued(u)' = Queued(u)
      BY <2>7, <2>10 DEF Queued
    <3>6. \A u \in Worker :
            k'.value[WaiterSema(u)] = IF InCondWait(u)' /\ ~ Queued(u)' THEN 1 ELSE 0
      <4> SUFFICES ASSUME NEW u \in Worker
                   PROVE  k'.value[WaiterSema(u)] =
                            IF InCondWait(u)' /\ ~ Queued(u)' THEN 1 ELSE 0
        OBVIOUS
      <4>1. CASE u = h
        <5>1. k.value[s] = 0
          BY <2>3, <2>2, <3>4 DEF IInv, QueuesOK
        <5> QED
          BY <2>3, <2>2, <2>8, <2>11, <2>12, <3>4, <4>1, <5>1
      <4>2. CASE u # h
        <5>1. WaiterSema(u) # s /\ WaiterSema(u) \in Sema
          BY <1>1, <2>3, <2>2, <4>2
        <5> QED
          BY <2>11, <2>12, <3>5, <4>2, <5>1 DEF IInv, QueuesOK
      <4> QED
        BY <4>1, <4>2
    <3> QED
      BY <3>1, <3>3, <3>6 DEF QueuesOK
  <2>15. \A d \in Cond, u \in Worker : InQueue(condq'[d], u) => InQueue(condq[d], u)
    BY <2>3, <2>7, <2>10
  <2> QED
    BY <1>1, <1>3, <2>3, <2>4, <2>5, <2>6, <2>7, <2>8, <2>9, <2>10, <2>11, <2>14, <2>15
    DEF Frame
<1> QED
  BY <1>2, <1>3

(* The sets the counts count, of a step that changes neither. *)
LEMMA SameReaders ==
  ASSUME NEW t \in Worker, Only(t), Reading(t)' = Reading(t) PROVE ReadingSet' = ReadingSet
  BY DEF Only, ReadingSet, Reading

(* The calls that are counted, when one moves and stays counted or not. *)
LEMMA SameCountedIn ==
  ASSUME NEW t \in Worker, Only(t), CountedIn(t)' = CountedIn(t)
  PROVE  CountedInSet' = CountedInSet
  BY DEF Only, CountedInSet, CountedIn

(* A thread comes into the monitor: a writer counts itself. *)
LEMMA ComeInOK ==
  ASSUME IInv, NEW t \in Worker, Entered(t) \/ CondReturn(t) PROVE IInv'
<1>1. /\ k.run = t /\ pc[t] \in {"entered", "cond_return"} /\ k.wants[t] = NoSema
      /\ holder' = t /\ pc' = [pc EXCEPT ![t] = "test"]
      /\ writers' = IF pc[t] = "entered" /\ op[t] = "write" THEN writers + 1 ELSE writers
      /\ UNCHANGED <<k, local, condq, readers, deny, spare>>
  BY Caller DEF Entered, CondReturn, Goto
<1>2. Owns(t) /\ op[t] \in {"read", "write"}
  BY <1>1 DEF Owns, Getting, IInv, Calls
<1>3. /\ Only(t) /\ pc'[t] = "test" /\ op' = op /\ pc' \in [Worker -> Labels]
      /\ condq' \in [Cond -> Seq(Worker)]
  BY <1>1 DEF Only, IInv, TypeOK, Labels, local
<1>4. ~ Leaked
  BY <1>1, <1>2, OwnerInside DEF Getting
<1>5. QueuesOK'
  BY <1>1, <1>3, QueuesFrame
<1>6. readers' \in Nat /\ readers' = Cardinality(ReadingSet')
  <2>1. Reading(t)' = Reading(t)
    BY <1>1, <1>3 DEF Reading
  <2> QED
    BY <1>1, <1>3, <2>1, SameReaders DEF IInv, TypeOK, Counted
<1>7. /\ writers' \in Nat /\ writers' = Cardinality(CountedInSet')
      /\ writers' >= writers /\ CountedIn(t) => CountedIn(t)'
  <2>1. CASE pc[t] = "entered" /\ op[t] = "write"
    <3>1. t \notin CountedInSet /\ CountedInSet' = CountedInSet \cup {t}
      BY <1>3, <2>1 DEF CountedInSet, CountedIn, Only
    <3>2. CountedInSet \in SUBSET Worker
      BY DEF CountedInSet
    <3>3. Cardinality(CountedInSet') = Cardinality(CountedInSet) + 1
      BY <3>1, <3>2, WorkersFinite
    <3>4. writers \in Nat /\ writers = Cardinality(CountedInSet) /\ writers' = writers + 1
      BY <1>1, <1>4, <2>1 DEF IInv, TypeOK, Counted
    <3>5. CountedIn(t) => CountedIn(t)'
      BY <1>3, <2>1 DEF CountedIn
    <3> QED
      BY <3>3, <3>4, <3>5
  <2>2. CASE ~ (pc[t] = "entered" /\ op[t] = "write")
    <3>1. CountedIn(t)' = CountedIn(t)
      BY <1>1, <1>2, <1>3, <2>2 DEF CountedIn
    <3> QED
      BY <1>1, <1>3, <1>4, <2>2, <3>1, SameCountedIn DEF IInv, TypeOK, Counted
  <2> QED
    BY <2>1, <2>2
<1>8. WaitersAreOwed'
  BY <1>1, <1>3, <1>4, <1>7, OwedFrame DEF IInv, TypeOK
<1> QED
  BY <1>1, <1>2, <1>3, <1>5, <1>6, <1>7, <1>8, OwnersStepOK DEF Getting, IInv, local

(* A reader with no writer in its way counts itself and goes to read. *)
LEMMA TestReadOK ==
  ASSUME IInv, NEW t \in Worker, Test(t), readers' # readers PROVE IInv'
<1>1. /\ k.run = t /\ pc[t] = "test" /\ k.wants[t] = NoSema /\ holder = t
      /\ op[t] = "read" /\ pc' = [pc EXCEPT ![t] = "release"] /\ readers' = readers + 1
      /\ UNCHANGED <<k, local, holder, condq, writers, deny, spare>>
  BY Caller DEF Test, Goto, Inside
<1>2. Owns(t) /\ ~ Leaked
  BY <1>1, OwnerInside DEF Owns, Inside
<1>3. /\ Only(t) /\ pc'[t] = "release" /\ op' = op /\ pc' \in [Worker -> Labels]
      /\ condq' \in [Cond -> Seq(Worker)] /\ readers \in Nat /\ writers \in Nat
  BY <1>1 DEF Only, IInv, TypeOK, Labels, local
<1>4. QueuesOK'
  BY <1>1, <1>3, QueuesFrame
<1>5. readers' \in Nat /\ readers' = Cardinality(ReadingSet')
  <2>1. t \notin ReadingSet /\ ReadingSet' = ReadingSet \cup {t}
    BY <1>1, <1>3 DEF ReadingSet, Reading, Only
  <2>2. ReadingSet \in SUBSET Worker
    BY DEF ReadingSet
  <2> QED
    BY <1>1, <1>3, <2>1, <2>2, WorkersFinite DEF IInv, Counted
<1>6. CountedIn(t)' = CountedIn(t)
  BY <1>1, <1>3 DEF CountedIn
<1>7. writers' \in Nat /\ writers' = Cardinality(CountedInSet')
  BY <1>1, <1>2, <1>3, <1>6, SameCountedIn DEF IInv, Counted
<1>8. WaitersAreOwed'
  BY <1>1, <1>2, <1>3, <1>6, OwedFrame
<1> QED
  BY <1>1, <1>2, <1>3, <1>4, <1>5, <1>7, <1>8, OwnersStepOK DEF Inside, IInv, local

(* A thread signalled out of readers_cond is a writer still counted in. *)
LEMMA SignalledWriter ==
  ASSUME IInv, NEW t \in Worker, NEW h \in Worker, Only(t), h # t,
         InCondWait(h), WaitsOn(h) = "readers_cond"
  PROVE  CountedIn(h) /\ CountedIn(h)'
<1>1. op[h] = "write" /\ pc[h] \in {"cond_down", "cond_acquire"}
  BY DEF IInv, Calls, WaitsOn, InCondWait
<1> QED
  BY <1>1 DEF Only, CountedIn

(* A writer that has extended counts itself out: the last one will wake all *)
(* the readers, any other wakes a writer.                                   *)
LEMMA ExtendedOK == ASSUME IInv, NEW t \in Worker, Extended(t) PROVE IInv'
<1> DEFINE l == IF writers = 1 THEN "broadcast" ELSE "release"
<1>1. /\ k.run = t /\ pc[t] = "extended" /\ k.wants[t] = NoSema /\ holder = t
      /\ pc' = [pc EXCEPT ![t] = l] /\ writers' = writers - 1
      /\ IF writers = 1 THEN UNCHANGED <<k, condq>> ELSE Signal("readers_cond")
      /\ UNCHANGED <<local, holder, readers, deny, spare>>
  BY Caller DEF Extended, Goto, Inside
<1>2. Owns(t) /\ ~ Leaked /\ op[t] = "write"
  BY <1>1, OwnerInside DEF Owns, Inside, IInv, Calls
<1>3. /\ Only(t) /\ pc'[t] = l /\ op' = op /\ pc' \in [Worker -> Labels]
      /\ condq \in [Cond -> Seq(Worker)] /\ readers \in Nat /\ writers \in Nat
      /\ l \in {"broadcast", "release"} /\ "readers_cond" \in Cond /\ "writers_cond" \in Cond
  BY <1>1 DEF Only, IInv, TypeOK, Labels, local, Cond
<1>4. readers' \in Nat /\ readers' = Cardinality(ReadingSet')
  <2>1. Reading(t)' = Reading(t)
    BY <1>1, <1>2, <1>3 DEF Reading
  <2> QED
    BY <1>1, <1>3, <2>1, SameReaders DEF IInv, Counted
<1>5. /\ writers' \in Nat /\ writers' = Cardinality(CountedInSet')
      /\ writers = 1 => CountedInSet = {t}
  <2>1. t \in CountedInSet /\ CountedInSet' = CountedInSet \ {t}
    BY <1>1, <1>2, <1>3 DEF CountedInSet, CountedIn, Only
  <2>2. CountedInSet \in SUBSET Worker /\ CountedInSet' \in SUBSET Worker
    BY DEF CountedInSet
  <2>3. writers = Cardinality(CountedInSet)
    BY <1>2 DEF IInv, Counted
  <2>4. Cardinality(CountedInSet') = writers - 1 /\ Cardinality(CountedInSet') \in Nat
    BY <2>1, <2>2, <2>3, WorkersFinite
  <2>5. writers = 1 => CountedInSet = {t}
    BY <2>1, <2>2, <2>3, WorkersFinite
  <2> QED
    BY <1>1, <2>4, <2>5
<1>6. CASE writers = 1
  <2>1. UNCHANGED <<k, condq>> /\ l = "broadcast"
    BY <1>1, <1>6
  <2>2. QueuesOK'
    BY <1>1, <1>3, <2>1, QueuesFrame
  <2>3. condq["readers_cond"] = <<>>
    <3>1. SUFFICES ASSUME condq["readers_cond"] # <<>> PROVE FALSE
      OBVIOUS
    <3>2. condq["readers_cond"] \in Seq(Worker)
      BY <1>3
    <3>3. PICK h \in Worker : InQueue(condq["readers_cond"], h)
      BY <3>1, <3>2 DEF InQueue
    <3>4. InCondWait(h) /\ WaitsOn(h) = "readers_cond"
      BY <1>3, <3>3 DEF IInv, QueuesOK
    <3>5. h # t
      BY <1>1, <3>4 DEF InCondWait
    <3>6. h \in CountedInSet
      BY <1>3, <3>4, <3>5, SignalledWriter DEF CountedInSet
    <3> QED
      BY <1>5, <1>6, <3>5, <3>6
  <2>4. WaitersAreOwed'
    BY <1>3, <2>1, <2>3 DEF WaitersAreOwed
  <2> QED
    BY <1>1, <1>2, <1>3, <1>4, <1>5, <2>1, <2>2, <2>4, OwnersStepOK DEF Inside, IInv, local
<1>7. CASE writers # 1
  <2>1. Signal("readers_cond") /\ l = "release"
    BY <1>1, <1>7
  <2>2. /\ KernelOK(k') /\ Covered(k') /\ k'.wants = k.wants
        /\ k'.value[LockSema] = k.value[LockSema]
        /\ \A u \in Worker : Live(k, u) => Live(k', u)
        /\ condq' \in [Cond -> Seq(Worker)] /\ QueuesOK'
        /\ condq["readers_cond"] = <<>> => condq'["readers_cond"] = <<>>
        /\ condq["readers_cond"] # <<>> => \E h \in Worker :
             /\ h # t /\ InCondWait(h) /\ WaitsOn(h) = "readers_cond"
             /\ ~ InQueue(condq'["readers_cond"], h)
    BY <1>1, <1>3, <2>1, SignalOK
  <2>3. ASSUME condq'["readers_cond"] # <<>>
        PROVE  \E h \in Worker : CountedIn(h)' /\ ~ Contains(condq'["readers_cond"], h)
    BY <1>3, <2>2, <2>3, SignalledWriter DEF Contains, InQueue
  <2>4. writers' > 0
    BY <1>1, <1>3, <1>5, <1>7
  <2>5. WaitersAreOwed'
    BY <2>3, <2>4 DEF WaitersAreOwed
  <2> QED
    BY <1>1, <1>2, <1>3, <1>4, <1>5, <2>1, <2>2, <2>5, OwnersStepOK DEF Inside, local
<1> QED
  BY <1>6, <1>7

(* The last writer goes on waking readers until none is queued. *)
LEMMA BroadcastOK == ASSUME IInv, NEW t \in Worker, Broadcast(t) PROVE IInv'
<1> DEFINE l == IF condq["writers_cond"] = <<>> THEN "release" ELSE "broadcast"
<1>1. /\ k.run = t /\ pc[t] = "broadcast" /\ k.wants[t] = NoSema /\ holder = t
      /\ pc' = [pc EXCEPT ![t] = l] /\ Signal("writers_cond")
      /\ UNCHANGED <<local, holder, readers, writers, deny, spare>>
  BY Caller DEF Broadcast, Goto, Inside
<1>2. Owns(t) /\ ~ Leaked /\ op[t] = "write"
  BY <1>1, OwnerInside DEF Owns, Inside, IInv, Calls
<1>3. /\ Only(t) /\ pc'[t] = l /\ op' = op /\ pc' \in [Worker -> Labels]
      /\ readers \in Nat /\ writers \in Nat /\ "writers_cond" \in Cond /\ "readers_cond" \in Cond
  BY <1>1 DEF Only, IInv, TypeOK, Labels, local, Cond
<1>4. Reading(t)' = Reading(t) /\ CountedIn(t)' = CountedIn(t)
  BY <1>1, <1>2, <1>3 DEF Reading, CountedIn
<1>5. /\ readers' \in Nat /\ readers' = Cardinality(ReadingSet')
      /\ writers' \in Nat /\ writers' = Cardinality(CountedInSet')
  BY <1>1, <1>2, <1>3, <1>4, SameReaders, SameCountedIn DEF IInv, Counted
<1>6. /\ KernelOK(k') /\ Covered(k') /\ k'.wants = k.wants
      /\ k'.value[LockSema] = k.value[LockSema]
      /\ \A u \in Worker : Live(k, u) => Live(k', u)
      /\ condq' \in [Cond -> Seq(Worker)] /\ QueuesOK'
      /\ \A d \in Cond, u \in Worker : InQueue(condq'[d], u) => InQueue(condq[d], u)
      /\ \A d \in Cond : condq[d] = <<>> => condq'[d] = <<>>
  BY <1>1, <1>3, SignalOK
<1>7. WaitersAreOwed'
  <2>1. condq'["writers_cond"] # <<>> => pc'[t] = "broadcast"
    BY <1>3, <1>6
  <2>2. condq'["readers_cond"] # <<>> =>
          \/ readers' > 0
          \/ \E u \in Worker : CountedIn(u)' /\ ~ Contains(condq'["readers_cond"], u)
    <3>1. \A u \in Worker : CountedIn(u)' = CountedIn(u)
      BY <1>3, <1>4 DEF Only, CountedIn
    <3> QED
      BY <1>1, <1>2, <1>3, <1>6, <3>1 DEF IInv, WaitersAreOwed, Contains, InQueue
  <2> QED
    BY <2>1, <2>2 DEF WaitersAreOwed
<1> QED
  BY <1>1, <1>2, <1>3, <1>5, <1>6, <1>7, OwnersStepOK DEF Inside, local

(* A reader counts itself out: the last one wakes a writer. *)
LEMMA LeavingOK == ASSUME IInv, NEW t \in Worker, Leaving(t) PROVE IInv'
<1>1. /\ k.run = t /\ pc[t] = "leaving" /\ k.wants[t] = NoSema
      /\ holder' = t /\ pc' = [pc EXCEPT ![t] = "leave_release"] /\ readers' = readers - 1
      /\ IF readers = 1 THEN Signal("readers_cond") ELSE UNCHANGED <<k, condq>>
      /\ UNCHANGED <<local, writers, deny, spare>>
  BY Caller DEF Leaving, Goto
<1>2. Owns(t) /\ ~ Leaked /\ op[t] = "read"
  BY <1>1, OwnerInside DEF Owns, Getting, IInv, Calls
<1>3. /\ Only(t) /\ pc'[t] = "leave_release" /\ op' = op /\ pc' \in [Worker -> Labels]
      /\ condq \in [Cond -> Seq(Worker)] /\ readers \in Nat /\ writers \in Nat
      /\ "readers_cond" \in Cond /\ "writers_cond" \in Cond
  BY <1>1 DEF Only, IInv, TypeOK, Labels, local, Cond
<1>4. readers' \in Nat /\ readers' = Cardinality(ReadingSet')
  <2>1. t \in ReadingSet /\ ReadingSet' = ReadingSet \ {t}
    BY <1>1, <1>2, <1>3 DEF ReadingSet, Reading, Only
  <2>2. ReadingSet \in SUBSET Worker /\ ReadingSet' \in SUBSET Worker
    BY DEF ReadingSet
  <2>3. Cardinality(ReadingSet') = Cardinality(ReadingSet) - 1 /\ Cardinality(ReadingSet') \in Nat
    BY <2>1, <2>2, WorkersFinite
  <2> QED
    BY <1>1, <2>3 DEF IInv, Counted
<1>5. CountedIn(t)' = CountedIn(t)
  BY <1>2, <1>3 DEF CountedIn
<1>6. writers' \in Nat /\ writers' = Cardinality(CountedInSet')
  BY <1>1, <1>2, <1>3, <1>5, SameCountedIn DEF IInv, Counted
<1>7. /\ KernelOK(k') /\ Covered(k') /\ k'.wants = k.wants
      /\ k'.value[LockSema] = k.value[LockSema]
      /\ \A u \in Worker : Live(k, u) => Live(k', u)
      /\ condq' \in [Cond -> Seq(Worker)] /\ QueuesOK'
      /\ \A d \in Cond : condq[d] = <<>> => condq'[d] = <<>>
      /\ readers = 1 /\ condq["readers_cond"] # <<>> => \E h \in Worker :
           /\ h # t /\ InCondWait(h) /\ WaitsOn(h) = "readers_cond"
           /\ ~ InQueue(condq'["readers_cond"], h)
  <2>1. CASE readers = 1
    BY <1>1, <1>3, <2>1, SignalOK
  <2>2. CASE readers # 1
    <3>1. k' = k /\ condq' = condq
      BY <1>1, <2>2
    <3>2. QueuesOK'
      BY <1>1, <1>3, <3>1, QueuesFrame
    <3> QED
      BY <1>3, <2>2, <3>1, <3>2 DEF IInv
  <2> QED
    BY <2>1, <2>2
<1>8. WaitersAreOwed'
  <2>1. condq'["writers_cond"] # <<>> => writers' > 0 \/ \E u \in Worker : pc'[u] = "broadcast"
    BY <1>1, <1>2, <1>3, <1>7 DEF IInv, WaitersAreOwed, Only
  <2>2. ASSUME condq'["readers_cond"] # <<>>
        PROVE  \/ readers' > 0
               \/ \E u \in Worker : CountedIn(u)' /\ ~ Contains(condq'["readers_cond"], u)
    <3>1. CASE readers = 1
      BY <1>3, <1>7, <2>2, <3>1, SignalledWriter DEF Contains, InQueue
    <3>2. CASE readers # 1
      BY <1>1, <1>3, <1>4, <3>2
    <3> QED
      BY <3>1, <3>2
  <2> QED
    BY <2>1, <2>2 DEF WaitersAreOwed
<1> QED
  BY <1>1, <1>2, <1>3, <1>4, <1>6, <1>7, <1>8, OwnersStepOK DEF Getting, local

-----------------------------------------------------------------------------
(* The lock: asked for, given back. *)

(* t downs the lock's semaphore, for the first time or again, and is at l   *)
(* when it has it.                                                         *)
LockDowns(t, l) ==
  /\ k.run = t /\ holder # t /\ k' = SemaDown(k, LockSema)
  /\ pc' = [pc EXCEPT ![t] = l] /\ UNCHANGED <<local, inode>>
  /\ \/ k.wants[t] = NoSema /\ pc[t] = "enter" /\ l = "entered"
     \/ k.wants[t] = NoSema /\ pc[t] = "cond_acquire" /\ l = "cond_return"
     \/ k.wants[t] = NoSema /\ pc[t] = "leave" /\ l = "leaving"
     \/ k.wants[t] = LockSema /\ pc[t] = l /\ l \in Getting

(* lock_acquire takes the lock or sleeps. *)
LEMMA LockDownsOK ==
  ASSUME IInv, NEW t \in Worker, NEW l, LockDowns(t, l) PROVE IInv'
<1>1. /\ t \in Thread /\ t # Idle /\ LockSema \in Sema /\ LockSema # NoSema
      /\ k.value \in [Sema -> Nat] /\ k.wants \in [Thread -> Sema \cup {NoSema}]
      /\ \A u \in Worker : u \in Thread /\ WaiterSema(u) \in Sema /\ WaiterSema(u) # LockSema
  BY SyncRecord DEF IInv
<1>2. /\ k.run = t /\ k.wants[t] \in {NoSema, LockSema} /\ k' = SemaDown(k, LockSema)
      /\ holder # t /\ UNCHANGED <<local, inode>> /\ l \in Getting
  BY DEF LockDowns, Getting
<1>3. /\ KernelOK(k') /\ Covered(k') /\ Frame(k, k', {})
      /\ \/ /\ k.value[LockSema] = 0 /\ k'.wants = [k.wants EXCEPT ![t] = LockSema]
            /\ k'.value = k.value
         \/ /\ k.value[LockSema] > 0 /\ k'.wants = [k.wants EXCEPT ![t] = NoSema]
            /\ k'.value = [k.value EXCEPT ![LockSema] = @ - 1]
  BY <1>1, <1>2, DownOK DEF IInv
<1>4. /\ \A u \in Worker : Live(k, u) => Live(k', u)
      /\ \A u \in Thread : u # t => k'.wants[u] = k.wants[u]
      /\ \A s \in Sema : s # LockSema => k'.value[s] = k.value[s]
      /\ k'.wants[t] \in {NoSema, LockSema}
  BY <1>1, <1>3 DEF Frame
<1>5. /\ Only(t) /\ pc'[t] = l /\ op' = op /\ pc' \in [Worker -> Labels]
      /\ UNCHANGED <<calls, holder, condq, readers, writers, deny, spare>>
      /\ readers \in Nat /\ writers \in Nat
  BY <1>2 DEF LockDowns, Only, IInv, TypeOK, Labels, Getting, local, inode
<1>6. pc[t] \in {"enter", "cond_acquire", "leave"} \cup Getting
  BY DEF LockDowns
<1>7. TypeOK'
  BY <1>3, <1>5 DEF IInv, TypeOK, KernelOK
<1>8. Calls'
  <2>1. IF l = "leaving" THEN op[t] = "read" ELSE op[t] \in {"read", "write"}
    BY DEF LockDowns, IInv, Calls, Getting
  <2> QED
    BY <1>2, <1>5, <2>1, CallsFrame DEF Getting
<1>9. Alive'
  BY <1>4, <1>5, <1>6, AliveFrame DEF IInv, Alive, Getting
<1>10. Asks'
  BY <1>2, <1>4, <1>5 DEF IInv, Asks, Only
<1>11. LockOK'
  <2>1. ~ Owns(t)
    BY <1>1, <1>2 DEF LockDowns, Owns, Getting
  <2>2. \A u \in Worker : u # t => Owns(u)' = Owns(u)
    BY <1>1, <1>4, <1>5 DEF Only, Owns
  <2>3. Owns(t)' <=> k'.wants[t] = NoSema
    BY <1>2, <1>5 DEF Owns
  <2>4. k'.value[LockSema] = IF \E u \in Worker : Owns(u)' THEN 0 ELSE 1
    <3>1. k.value[LockSema] = IF \E u \in Worker : Owns(u) THEN 0 ELSE 1
      BY DEF IInv, LockOK
    <3>2. CASE k.value[LockSema] = 0
      <4>1. k'.wants[t] = LockSema /\ k'.value[LockSema] = 0
        BY <1>1, <1>3, <3>2
      <4>2. PICK u \in Worker : Owns(u)
        BY <3>1, <3>2
      <4> QED
        BY <2>1, <2>2, <4>1, <4>2
    <3>3. CASE k.value[LockSema] # 0
      <4>1. k'.wants[t] = NoSema /\ k'.value[LockSema] = 0
        BY <1>1, <1>3, <3>1, <3>3
      <4> QED
        BY <2>3, <4>1
    <3> QED
      BY <3>2, <3>3
  <2>5. \A u, v \in Worker : Owns(u)' /\ Owns(v)' => u = v
    <3>1. CASE k.value[LockSema] = 0
      <4>1. k'.wants[t] = LockSema
        BY <1>1, <1>3, <3>1
      <4> QED
        BY <1>1, <2>2, <2>3, <4>1 DEF IInv, LockOK
    <3>2. CASE k.value[LockSema] # 0
      <4>1. \A u \in Worker : ~ Owns(u)
        BY <3>2 DEF IInv, LockOK
      <4> QED
        BY <2>2, <4>1
    <3> QED
      BY <3>1, <3>2
  <2>6. /\ \A u \in Worker : pc'[u] \in Inside => holder' = u
        /\ \A u \in Worker : holder' = u =>
             pc'[u] \in Inside \cup {"call", "check", "enter", "deny", "denied", "dead", "panic"}
    BY <1>2, <1>5 DEF IInv, LockOK, Only, Inside, Getting
  <2> QED
    BY <2>4, <2>5, <2>6 DEF LockOK
<1>12. QueuesOK'
  <2>1. ~ InCondWait(t) /\ ~ InCondWait(t)'
    BY <1>1, <1>2, <1>5, <1>6 DEF LockDowns, InCondWait, Getting
  <2>2. \A u \in Worker : InCondWait(u)' = InCondWait(u) /\ Queued(u)' = Queued(u)
    BY <1>1, <1>4, <1>5, <2>1 DEF InCondWait, Queued, Only
  <2>3. \A u \in Worker : WaitsOn(u)' = WaitsOn(u)
    BY <1>5 DEF WaitsOn
  <2> QED
    BY <1>1, <1>4, <1>5, <2>2, <2>3 DEF IInv, QueuesOK
<1>13. Tested'
  BY <1>2, <1>5 DEF IInv, Tested, MustWait, Only, Getting
<1>14. Leaked' = Leaked
  BY <1>2, <1>5 DEF Leaked, Only
<1>15. Reading(t)' = Reading(t) /\ CountedIn(t)' = CountedIn(t)
  BY <1>5 DEF LockDowns, Reading, CountedIn, Getting, IInv, Calls
<1>16. Counted'
  <2>1. DenyingSet' = DenyingSet
    BY <1>2, <1>5, <1>6 DEF DenyingSet, Only, Getting
  <2> QED
    BY <1>5, <1>14, <1>15, <2>1, SameReaders, SameCountedIn DEF IInv, Counted
<1>17. WaitersAreOwed'
  BY <1>5, <1>6, <1>14, <1>15, OwedFrame DEF Getting
<1> QED
  BY <1>3, <1>7, <1>8, <1>9, <1>10, <1>11, <1>12, <1>13, <1>16, <1>17 DEF IInv

(* lock_acquire: a thread that has leaked the lock panics the kernel. *)
LEMMA AcquireOK ==
  ASSUME IInv, NEW t \in Worker, Enter(t) \/ CondAcquire(t) \/ Leave(t) PROVE IInv'
<1> DEFINE l == IF pc[t] = "enter" THEN "entered"
                ELSE IF pc[t] = "leave" THEN "leaving" ELSE "cond_return"
<1>1. /\ k.run = t /\ k.wants[t] = NoSema /\ pc[t] \in {"enter", "cond_acquire", "leave"}
      /\ LockAcquire(t, l)
  BY Caller DEF Enter, CondAcquire, Leave
<1>2. CASE holder # t
  <2>1. LockDowns(t, l)
    BY <1>1, <1>2 DEF LockAcquire, LockDowns, Goto
  <2> QED
    BY <2>1, LockDownsOK
<1>3. CASE holder = t
  <2>1. pc[t] = "enter"
    BY <1>1, <1>3 DEF IInv, LockOK, Inside
  <2>2. /\ pc' = [pc EXCEPT ![t] = "panic"] /\ k' = k
        /\ UNCHANGED <<op, calls, holder, condq, readers, writers, deny, spare>>
    BY <1>1, <1>3 DEF LockAcquire, Goto, local, inode
  <2>3. Only(t) /\ pc'[t] = "panic"
    BY <2>2 DEF Only, IInv, TypeOK
  <2>4. KernelOK(k') /\ Covered(k') /\ TypeOK'
    BY <2>2 DEF IInv, TypeOK, Labels
  <2>5. Calls'
    BY <2>3, CallsFrame
  <2>6. Alive' /\ Asks'
    BY <1>1, <2>1, <2>2, <2>3 DEF IInv, Alive, Asks, Only
  <2>7. LockOK'
    <3>1. Owns(t)' = Owns(t)
      BY <1>3, <2>2 DEF Owns
    <3> QED
      BY <2>2, <2>3, <3>1, LockFrame DEF Inside
  <2>8. QueuesOK'
    BY <2>1, <2>2, <2>3, QueuesFrame
  <2>9. Tested'
    BY <2>2, <2>3 DEF IInv, Tested, MustWait, Only
  <2>10. Leaked /\ Leaked'
    BY <1>3, <2>1, <2>2, <2>3 DEF Leaked, Inside
  <2>11. Counted'
    <3>1. Reading(t)' = Reading(t)
      BY <2>1, <2>3 DEF Reading
    <3>2. deny' = Cardinality(DenyingSet')
      BY <2>1, <2>2, <2>3, DenyingFrame
    <3> QED
      BY <2>2, <2>3, <2>10, <3>1, <3>2, SameReaders DEF IInv, Counted
  <2>12. WaitersAreOwed'
    BY <2>10 DEF WaitersAreOwed
  <2> QED
    BY <2>4, <2>5, <2>6, <2>7, <2>8, <2>9, <2>11, <2>12 DEF IInv
<1> QED
  BY <1>2, <1>3

(* lock_release by a thread that goes out of the monitor. *)
LEMMA ReleasedOK ==
  ASSUME IInv, NEW t \in Worker, holder = t, pc[t] \in Inside,
         holder' = Nobody, k' = SemaUp(k, LockSema),
         Only(t), pc' \in [Worker -> Labels], pc'[t] \in {"cond_down", "data", "call"},
         op' \in [Worker -> {"none", "read", "write", "deny"}], Calls',
         condq' \in [Cond -> Seq(Worker)], QueuesOK',
         calls' = calls, readers' = readers, writers' = writers, deny' = deny, spare' = spare,
         Reading(t)' = Reading(t), CountedIn(t)' = CountedIn(t), WaitersAreOwed'
  PROVE  IInv'
<1>1. /\ LockSema \in Sema /\ k.value \in [Sema -> Nat]
      /\ \A u \in Worker : u \in Thread /\ u # Nobody
  BY SyncRecord DEF IInv, Nobody
<1>2. /\ KernelOK(k') /\ Covered(k') /\ k'.wants = k.wants /\ Frame(k, k', {})
      /\ k'.value = [k.value EXCEPT ![LockSema] = @ + 1]
  BY <1>1, UpOK DEF IInv
<1>3. \A u \in Worker : Live(k, u) => Live(k', u)
  BY <1>1, <1>2 DEF Frame
<1>4. Owns(t) /\ k.wants[t] = NoSema
  BY <1>1 DEF Owns, IInv, Asks, Inside, Getting
<1>5. ~ Leaked /\ \A u \in Worker : Owns(u) => u = t
  BY <1>4, OwnerInside
<1>6. TypeOK'
  BY <1>2 DEF IInv, TypeOK, KernelOK
<1>7. Alive'
  <2>1. Live(k, t)
    BY DEF IInv, Alive, Inside
  <2> QED
    BY <1>3, <2>1, AliveFrame
<1>8. Asks'
  BY <1>2, <1>4 DEF IInv, Asks, Only
<1>9. LockOK'
  <2>1. \A u \in Worker : ~ Owns(u)'
    BY <1>1, <1>2, <1>5 DEF Owns, Only, Getting
  <2>2. k.value[LockSema] = 0
    BY <1>4 DEF IInv, LockOK
  <2>3. k'.value[LockSema] = 1
    BY <1>1, <1>2, <2>2
  <2>4. \A u \in Worker : pc'[u] \notin Inside
    BY <1>5 DEF IInv, LockOK, Owns, Only, Inside
  <2> QED
    BY <1>1, <2>1, <2>3, <2>4 DEF LockOK
<1>10. Tested'
  BY <1>5 DEF IInv, Tested, LockOK, Owns, Only, Inside
<1>11. ~ Leaked'
  BY <1>1 DEF Leaked
<1>12. Counted'
  <2>1. DenyingSet' = DenyingSet
    BY DEF DenyingSet, Only, Inside
  <2> QED
    BY <1>5, <2>1, SameReaders, SameCountedIn DEF IInv, Counted
<1> QED
  BY <1>2, <1>6, <1>7, <1>8, <1>9, <1>10, <1>12 DEF IInv

(* lock_release, in both of its places. *)
LEMMA ReleaseOK ==
  ASSUME IInv, NEW t \in Worker, Release(t) \/ LeaveRelease(t) PROVE IInv'
<1> DEFINE l == IF pc[t] = "release" THEN "data" ELSE "call"
           o == IF pc[t] = "release" THEN op[t] ELSE "none"
<1>1. /\ holder = t /\ pc[t] \in {"release", "leave_release"}
      /\ holder' = Nobody /\ k' = SemaUp(k, LockSema)
      /\ pc' = [pc EXCEPT ![t] = l] /\ op' = [op EXCEPT ![t] = o]
      /\ UNCHANGED <<calls, condq, readers, writers, deny, spare>>
  <2>1. op = [op EXCEPT ![t] = op[t]]
    BY DEF IInv, TypeOK
  <2> QED
    BY <2>1, Caller DEF Release, LeaveRelease, LockRelease, Return, Goto, Inside, local
<1>2. /\ Only(t) /\ pc'[t] = l /\ op'[t] = o /\ pc' \in [Worker -> Labels]
      /\ op' \in [Worker -> {"none", "read", "write", "deny"}]
      /\ condq' \in [Cond -> Seq(Worker)] /\ readers \in Nat /\ writers \in Nat
  BY <1>1 DEF Only, IInv, TypeOK, Labels
<1>3. Calls'
  BY <1>1, <1>2, CallsFrame DEF IInv, Calls
<1>4. QueuesOK'
  <2>1. /\ LockSema \in Sema /\ k.value \in [Sema -> Nat]
        /\ \A u \in Worker : WaiterSema(u) \in Sema /\ WaiterSema(u) # LockSema
    BY SyncRecord DEF IInv
  <2>2. k'.wants = k.wants /\ k'.value = [k.value EXCEPT ![LockSema] = @ + 1]
    BY <1>1, <2>1, UpOK DEF IInv
  <2>3. \A u \in Worker : k'.value[WaiterSema(u)] = k.value[WaiterSema(u)]
    BY <2>1, <2>2
  <2> QED
    BY <1>1, <1>2, <2>2, <2>3, QueuesFrame
<1>5. Reading(t)' = Reading(t) /\ CountedIn(t)' = CountedIn(t)
  BY <1>1, <1>2 DEF Reading, CountedIn, IInv, Calls
<1>6. ~ Leaked
  BY <1>1 DEF Leaked, Inside, IInv, TypeOK
<1>7. WaitersAreOwed'
  BY <1>1, <1>2, <1>5, <1>6, OwedFrame
<1> QED
  BY <1>1, <1>2, <1>3, <1>4, <1>5, <1>7, ReleasedOK DEF Inside

(* cond_wait: the thread is queued before the lock is free. *)
LEMMA CondWaitOK == ASSUME IInv, NEW t \in Worker, CondWait(t) PROVE IInv'
<1> DEFINE c == WaitsOn(t)
<1>1. /\ holder = t /\ pc[t] = "cond_wait"
      /\ holder' = Nobody /\ k' = SemaUp(k, LockSema)
      /\ pc' = [pc EXCEPT ![t] = "cond_down"]
      /\ condq' = [condq EXCEPT ![c] = Append(@, t)]
      /\ UNCHANGED <<op, calls, readers, writers, deny, spare>>
  BY Caller DEF CondWait, LockRelease, Goto, Inside, local
<1>2. /\ Only(t) /\ pc'[t] = "cond_down" /\ pc' \in [Worker -> Labels]
      /\ op' \in [Worker -> {"none", "read", "write", "deny"}]
      /\ condq \in [Cond -> Seq(Worker)] /\ readers \in Nat /\ writers \in Nat
      /\ op[t] \in {"read", "write"} /\ c \in Cond /\ MustWait(t)
  BY <1>1 DEF Only, IInv, TypeOK, Labels, Calls, Tested, WaitsOn, Cond
<1>3. Calls'
  BY <1>1, <1>2, CallsFrame
<1>4. ~ InCondWait(t) /\ InCondWait(t)' /\ WaitsOn(t)' = c
  BY <1>1, <1>2 DEF InCondWait, WaitsOn
<1>5. PICK q \in Seq(Worker), d \in Cond : q = Append(condq[c], t) /\ d = c
  <2>1. condq[c] \in Seq(Worker)
    BY <1>2
  <2>2. Append(condq[c], t) \in Seq(Worker)
    BY <2>1
  <2> QED
    BY <1>2, <2>2
<1>6. /\ Distinct(q) /\ \A u \in Worker : InQueue(q, u) <=> InQueue(condq[d], u) \/ u = t
  <2>1. condq[d] \in Seq(Thread) /\ t \in Thread /\ Distinct(condq[d]) /\ ~ InQueue(condq[d], t)
    BY <1>2, <1>4 DEF IInv, QueuesOK, Worker
  <2> QED
    BY <1>5, <2>1, AppendQueue DEF Worker
<1>7. /\ condq' \in [Cond -> Seq(Worker)] /\ condq'[d] = q
      /\ \A e \in Cond : e # d => condq'[e] = condq[e]
  BY <1>1, <1>2, <1>5
<1>8. QueuesOK'
  <2>1. /\ LockSema \in Sema /\ k.value \in [Sema -> Nat]
        /\ \A u \in Worker : WaiterSema(u) \in Sema /\ WaiterSema(u) # LockSema
    BY SyncRecord DEF IInv
  <2>2. k'.wants = k.wants /\ k'.value = [k.value EXCEPT ![LockSema] = @ + 1]
    BY <1>1, <2>1, UpOK DEF IInv
  <2>3. \A u \in Worker : k'.value[WaiterSema(u)] = k.value[WaiterSema(u)]
    BY <2>1, <2>2
  <2>4. \A u \in Worker : u # t => /\ InCondWait(u)' = InCondWait(u)
                                   /\ WaitsOn(u)' = WaitsOn(u) /\ Queued(u)' = Queued(u)
    BY <1>2, <1>6, <1>7, <2>2 DEF InCondWait, WaitsOn, Queued, Only
  <2>5. Queued(t)'
    BY <1>6, <1>7 DEF Queued
  <2>6. k.value[WaiterSema(t)] = 0
    BY <1>4 DEF IInv, QueuesOK
  <2>7. \A e \in Cond : Distinct(condq'[e])
    BY <1>6, <1>7 DEF IInv, QueuesOK
  <2>8. \A e \in Cond, u \in Worker :
          InQueue(condq'[e], u) => InCondWait(u)' /\ WaitsOn(u)' = e
    BY <1>4, <1>5, <1>6, <1>7, <2>4 DEF IInv, QueuesOK
  <2>9. \A u \in Worker :
          k'.value[WaiterSema(u)] = IF InCondWait(u)' /\ ~ Queued(u)' THEN 1 ELSE 0
    BY <2>3, <2>4, <2>5, <2>6 DEF IInv, QueuesOK
  <2> QED
    BY <2>7, <2>8, <2>9 DEF QueuesOK
<1>9. Reading(t)' = Reading(t) /\ CountedIn(t)' = CountedIn(t)
  BY <1>1, <1>2 DEF Reading, CountedIn
<1>10. WaitersAreOwed'
  <2>1. ~ Leaked
    BY <1>1 DEF Leaked, Inside, IInv, TypeOK
  <2>2. /\ \A u \in Worker : CountedIn(u)' = CountedIn(u)
        /\ \A u \in Worker : pc[u] = "broadcast" => pc'[u] = "broadcast"
    BY <1>1, <1>2, <1>9 DEF CountedIn, Only
  <2>3. "readers_cond" \in Cond /\ "writers_cond" \in Cond
    BY DEF Cond
  <2>4. CASE op[t] = "read"
    <3>1. writers' > 0 /\ condq'["readers_cond"] = condq["readers_cond"]
      BY <1>1, <1>2, <1>5, <1>7, <2>3, <2>4 DEF MustWait, WaitsOn
    <3> QED
      BY <1>1, <2>1, <2>2, <3>1 DEF IInv, WaitersAreOwed
  <2>5. CASE op[t] = "write"
    <3>1. readers' > 0 /\ condq'["writers_cond"] = condq["writers_cond"]
      BY <1>1, <1>2, <1>5, <1>7, <2>3, <2>5 DEF MustWait, WaitsOn
    <3> QED
      BY <1>1, <2>1, <2>2, <3>1 DEF IInv, WaitersAreOwed
  <2> QED
    BY <1>2, <2>4, <2>5
<1> QED
  BY <1>1, <1>2, <1>3, <1>7, <1>8, <1>9, <1>10, ReleasedOK DEF Inside

(* cond_wait's sema_down, for the first time or again. *)
WaiterDowns(t) ==
  /\ k.run = t /\ k' = SemaDown(k, WaiterSema(t))
  /\ pc' = [pc EXCEPT ![t] = "cond_acquire"] /\ UNCHANGED <<local, inode>>
  /\ \/ k.wants[t] = NoSema /\ pc[t] = "cond_down"
     \/ k.wants[t] = WaiterSema(t) /\ pc[t] = "cond_acquire"

(* cond_wait sleeps on its own semaphore, or has been signaled. *)
LEMMA WaiterDownsOK ==
  ASSUME IInv, NEW t \in Worker, WaiterDowns(t) PROVE IInv'
<1> DEFINE s == WaiterSema(t)
<1>1. /\ t \in Thread /\ t # Idle /\ LockSema \in Sema
      /\ k.value \in [Sema -> Nat] /\ k.wants \in [Thread -> Sema \cup {NoSema}]
      /\ s \in Sema /\ s # NoSema /\ s # LockSema
      /\ \A u \in Worker : /\ u \in Thread /\ WaiterSema(u) \in Sema
                           /\ u # t => WaiterSema(u) # s
  BY SyncRecord DEF IInv
<1>2. /\ k.run = t /\ k.wants[t] \in {NoSema, s} /\ k' = SemaDown(k, s)
      /\ pc[t] \in {"cond_down", "cond_acquire"} /\ InCondWait(t)
  BY <1>1 DEF WaiterDowns, InCondWait
<1>3. /\ KernelOK(k') /\ Covered(k') /\ Frame(k, k', {})
      /\ \/ /\ k.value[s] = 0 /\ k'.wants = [k.wants EXCEPT ![t] = s] /\ k'.value = k.value
         \/ /\ k.value[s] > 0 /\ k'.wants = [k.wants EXCEPT ![t] = NoSema]
            /\ k'.value = [k.value EXCEPT ![s] = @ - 1]
  BY <1>1, <1>2, DownOK DEF IInv
<1>4. /\ \A u \in Worker : Live(k, u) => Live(k', u)
      /\ \A u \in Thread : u # t => k'.wants[u] = k.wants[u]
      /\ \A r \in Sema : r # s => k'.value[r] = k.value[r]
      /\ k'.wants[t] \in {NoSema, s}
  BY <1>1, <1>3 DEF Frame
<1>5. /\ Only(t) /\ pc'[t] = "cond_acquire" /\ op' = op /\ pc' \in [Worker -> Labels]
      /\ UNCHANGED <<calls, holder, condq, readers, writers, deny, spare>>
      /\ readers \in Nat /\ writers \in Nat
  BY DEF WaiterDowns, Only, IInv, TypeOK, Labels, local, inode
<1>6. TypeOK'
  BY <1>3, <1>5 DEF IInv, TypeOK, KernelOK
<1>7. Calls'
  BY <1>2, <1>5, CallsFrame DEF IInv, Calls
<1>8. Alive'
  BY <1>2, <1>4, <1>5, AliveFrame DEF IInv, Alive
<1>9. Asks'
  BY <1>2, <1>4, <1>5 DEF IInv, Asks, Only
<1>10. LockOK'
  <2>1. \A u \in Worker : Owns(u)' = Owns(u)
    BY <1>1, <1>2, <1>4, <1>5 DEF Owns, Only, Getting
  <2>2. k'.value[LockSema] = k.value[LockSema]
    BY <1>1, <1>4
  <2> QED
    BY <1>2, <1>5, <2>1, <2>2 DEF IInv, LockOK, Only, Inside
<1>11. QueuesOK'
  <2>1. /\ \A u \in Worker : u # t => InCondWait(u)' = InCondWait(u)
        /\ InCondWait(t)' <=> k'.wants[t] = s
    BY <1>1, <1>4, <1>5 DEF InCondWait, Only
  <2>2. \A u \in Worker : WaitsOn(u)' = WaitsOn(u) /\ Queued(u)' = Queued(u)
    BY <1>5 DEF WaitsOn, Queued
  <2>3. k.value[s] = IF ~ Queued(t) THEN 1 ELSE 0
    BY <1>2 DEF IInv, QueuesOK
  <2>4. CASE Queued(t)
    <3>1. k'.wants[t] = s /\ k'.value[s] = 0
      BY <1>1, <1>3, <2>3, <2>4
    <3> QED
      BY <1>1, <1>4, <1>5, <2>1, <2>2, <2>4, <3>1 DEF IInv, QueuesOK
  <2>5. CASE ~ Queued(t)
    <3>1. k'.wants[t] = NoSema /\ k'.value[s] = 0
      BY <1>1, <1>3, <2>3, <2>5
    <3>2. \A c \in Cond : ~ InQueue(condq[c], t)
      BY <2>5 DEF Queued
    <3> QED
      BY <1>1, <1>4, <1>5, <2>1, <2>2, <2>5, <3>1, <3>2 DEF IInv, QueuesOK
  <2> QED
    BY <2>4, <2>5
<1>12. Tested'
  BY <1>2, <1>5 DEF IInv, Tested, MustWait, Only
<1>13. Leaked' = Leaked
  BY <1>2, <1>5, LeakedFrame DEF Inside
<1>14. Reading(t)' = Reading(t) /\ CountedIn(t)' = CountedIn(t)
  BY <1>2, <1>5 DEF Reading, CountedIn
<1>15. Counted'
  <2>1. DenyingSet' = DenyingSet
    BY <1>2, <1>5 DEF DenyingSet, Only
  <2> QED
    BY <1>5, <1>13, <1>14, <2>1, SameReaders, SameCountedIn DEF IInv, Counted
<1>16. WaitersAreOwed'
  BY <1>2, <1>5, <1>13, <1>14, OwedFrame
<1> QED
  BY <1>3, <1>6, <1>7, <1>8, <1>9, <1>10, <1>11, <1>12, <1>15, <1>16 DEF IInv

-----------------------------------------------------------------------------
(* Steps of the kernel. *)

(* The steps that go down on a semaphore, and those that come back to it. *)
LEMMA DownsOK ==
  ASSUME IInv, \/ \E t \in Worker : CondDown(t)
               \/ Resume
  PROVE  IInv'
<1>1. ASSUME NEW t \in Worker, CondDown(t) PROVE IInv'
  <2>1. WaiterDowns(t)
    BY <1>1, Caller DEF CondDown, WaiterDowns, Goto
  <2> QED
    BY <2>1, WaiterDownsOK
<1>2. CASE Resume
  <2>1. k.run \in Thread /\ k.wants[k.run] # NoSema
    BY <1>2, SyncRecord DEF Resume, InSemaDown, IInv
  <2>2. PICK t \in Worker : t = k.run
    BY <2>1 DEF IInv, Asks
  <2>3. /\ k' = SemaDown(k, k.wants[t]) /\ UNCHANGED <<pc, local, inode>>
        /\ pc' = [pc EXCEPT ![t] = pc[t]]
    BY <1>2, <2>2 DEF Resume, SemaResume, IInv, TypeOK
  <2>4. CASE k.wants[t] = LockSema /\ pc[t] \in Getting
    <3>1. holder # t
      BY <2>4 DEF IInv, LockOK, Inside, Getting
    <3>2. LockDowns(t, pc[t])
      BY <2>2, <2>3, <2>4, <3>1 DEF LockDowns
    <3> QED
      BY <3>2, LockDownsOK
  <2>5. CASE k.wants[t] = WaiterSema(t) /\ pc[t] = "cond_acquire"
    <3>1. WaiterDowns(t)
      BY <2>2, <2>3, <2>5 DEF WaiterDowns
    <3> QED
      BY <3>1, WaiterDownsOK
  <2> QED
    BY <2>1, <2>2, <2>4, <2>5 DEF IInv, Asks
<1> QED
  BY <1>1, <1>2

(* The scheduler moves, or t dies: the monitor does not notice. *)
LEMMA KernelStepOK ==
  ASSUME IInv, KernelOK(k'), SameSemaphores(k, k'), NEW X, Frame(k, k', X),
         UNCHANGED <<local, inode>>, pc' \in [Worker -> Labels],
         \A u \in Worker :
           IF u \in X THEN pc[u] = "call" /\ pc'[u] = "dead" /\ k.wants[u] = NoSema
                      ELSE pc'[u] = pc[u]
  PROVE  IInv'
<1>1. /\ k'.value = k.value /\ k'.wants = k.wants /\ Covered(k')
      /\ \A u \in Worker : u \in Thread
      /\ \A u \in Worker : Live(k, u) /\ u \notin X => Live(k', u)
  BY SyncRecord, SameCovered DEF IInv, SameSemaphores, Frame
<1>2. /\ UNCHANGED <<op, calls, holder, condq, readers, writers, deny, spare>>
      /\ \A u \in Worker : pc'[u] = pc[u] \/ (pc[u] = "call" /\ pc'[u] = "dead")
  BY DEF local, inode
<1>3. TypeOK'
  BY <1>2 DEF IInv, TypeOK, KernelOK
<1>4. Calls' /\ Alive'
  BY <1>1, <1>2 DEF IInv, Calls, Alive
<1>5. Asks'
  BY <1>1, <1>2 DEF IInv, Asks, Getting
<1>6. \A u \in Worker : Owns(u)' = Owns(u) /\ (pc'[u] \in Inside) = (pc[u] \in Inside)
  BY <1>1, <1>2 DEF Owns, Getting, Inside
<1>7. LockOK'
  BY <1>1, <1>2, <1>6 DEF IInv, LockOK
<1>8. QueuesOK'
  <2>1. \A u \in Worker : InCondWait(u)' = InCondWait(u) /\ WaitsOn(u)' = WaitsOn(u)
                          /\ Queued(u)' = Queued(u)
    BY <1>1, <1>2 DEF InCondWait, WaitsOn, Queued
  <2> QED
    BY <1>1, <1>2, <2>1 DEF IInv, QueuesOK
<1>9. Tested'
  BY <1>2 DEF IInv, Tested, MustWait
<1>10. Leaked' = Leaked
  BY <1>2, <1>6 DEF Leaked
<1>11. \A u \in Worker : Reading(u)' = Reading(u) /\ CountedIn(u)' = CountedIn(u)
                         /\ (pc'[u] = "denied") = (pc[u] = "denied")
  BY <1>2 DEF Reading, CountedIn
<1>12. Counted'
  <2>1. ReadingSet' = ReadingSet /\ CountedInSet' = CountedInSet /\ DenyingSet' = DenyingSet
    BY <1>11 DEF ReadingSet, CountedInSet, DenyingSet
  <2> QED
    BY <1>2, <1>10, <2>1 DEF IInv, Counted
<1>13. WaitersAreOwed'
  BY <1>2, <1>10, <1>11 DEF IInv, WaitersAreOwed
<1> QED
  BY <1>1, <1>3, <1>4, <1>5, <1>7, <1>8, <1>9, <1>12, <1>13 DEF IInv

(* Ticks, interrupts of the disk and the idle thread. *)
LEMMA SchedulingOK ==
  ASSUME IInv, \/ \E t \in Worker : Sleep(t) \/ DiskInterrupt(t)
               \/ Tick \/ IdleLoop
  PROVE  IInv'
<1>1. /\ k.wants[k.run] = NoSema /\ UNCHANGED <<pc, local, inode>> /\ KernelOK(k)
      /\ \A t \in Worker : t \in Thread /\ t # Idle
  BY SyncRecord DEF Sleep, DiskInterrupt, Tick, IdleLoop, InterruptsOn, InSemaDown, At, IInv
<1>2. KernelOK(k') /\ SameSemaphores(k, k') /\ Frame(k, k', {})
  <2>1. CASE IdleLoop \/ \E t \in Worker : Sleep(t)
    <3>1. k' = ThreadBlock(k)
      BY <2>1 DEF Sleep, IdleLoop
    <3> QED
      BY <1>1, <3>1, BlockOK
  <2>2. CASE Tick
    <3>1. k' = ThreadYield(k)
      BY <2>2 DEF Tick
    <3> QED
      BY <1>1, <3>1, YieldOK
  <2>3. ASSUME NEW t \in Worker, DiskInterrupt(t)
        PROVE  KernelOK(k') /\ SameSemaphores(k, k') /\ Frame(k, k', {})
    <3>1. k' = ThreadUnblock(k, t) /\ k.status[t] = "BLOCKED" /\ k.wants[t] = NoSema
      BY <2>3 DEF DiskInterrupt
    <3> QED
      BY <1>1, <3>1, UnblockOK
  <2> QED
    BY <2>1, <2>2, <2>3
<1>3. pc' \in [Worker -> Labels] /\ \A u \in Worker : pc'[u] = pc[u]
  BY <1>1 DEF IInv, TypeOK
<1> QED
  BY <1>1, <1>2, <1>3, KernelStepOK

(* A thread ends between two calls. *)
LEMMA ExitStepOK == ASSUME IInv, NEW t \in Worker, Exit(t) PROVE IInv'
<1>1. /\ k.run = t /\ pc[t] = "call" /\ k.wants[t] = NoSema /\ t # Idle
      /\ k' = ThreadExit(k) /\ pc' = [pc EXCEPT ![t] = "dead"] /\ UNCHANGED <<local, inode>>
  BY Caller DEF Exit, Goto
<1>2. KernelOK(k') /\ SameSemaphores(k, k') /\ Frame(k, k', {t})
  BY <1>1, ExitOK DEF IInv
<1>3. /\ pc' \in [Worker -> Labels] /\ pc'[t] = "dead"
      /\ \A u \in Worker : u # t => pc'[u] = pc[u]
  BY <1>1 DEF IInv, TypeOK, Labels
<1> QED
  BY <1>1, <1>2, <1>3, KernelStepOK

(* Each step keeps the invariant. *)
LEMMA NextKeeps == IInv /\ [Next]_vars => IInv'
<1> SUFFICES ASSUME IInv, [Next]_vars PROVE IInv'
  OBVIOUS
<1>1. ASSUME NEW t \in Worker, Test(t) PROVE IInv'
  BY <1>1, TestReadOK, AsideStepOK DEF AsideStep
<1>2. ASSUME NEW t \in Worker, Step(t) PROVE IInv'
  <2>1. CASE AsideStep(t)
    BY <2>1, AsideStepOK
  <2>2. CASE Enter(t) \/ CondAcquire(t) \/ Leave(t)
    BY <2>2, AcquireOK
  <2>3. CASE Entered(t) \/ CondReturn(t)
    BY <2>3, ComeInOK
  <2>4. CASE CondWait(t)
    BY <2>4, CondWaitOK
  <2>5. CASE CondDown(t)
    BY <2>5, DownsOK
  <2>6. CASE Extended(t)
    BY <2>6, ExtendedOK
  <2>7. CASE Broadcast(t)
    BY <2>7, BroadcastOK
  <2>8. CASE Release(t) \/ LeaveRelease(t)
    BY <2>8, ReleaseOK
  <2>9. CASE Leaving(t)
    BY <2>9, LeavingOK
  <2>10. CASE DenyWrite(t) \/ AllowWrite(t)
    BY <2>10, DenyOK
  <2> QED
    BY <1>1, <1>2, <2>1, <2>2, <2>3, <2>4, <2>5, <2>6, <2>7, <2>8, <2>9, <2>10
    DEF Step, AsideStep
<1>3. CASE UNCHANGED vars
  <2>1. /\ k' = k /\ pc' = pc /\ op' = op /\ calls' = calls /\ holder' = holder /\ condq' = condq
        /\ readers' = readers /\ writers' = writers /\ deny' = deny /\ spare' = spare
    BY <1>3 DEF vars, local, inode
  <2> QED
    BY <2>1
    DEF IInv, TypeOK, Calls, Alive, Asks, LockOK, QueuesOK, Tested, Counted, WaitersAreOwed,
        Owns, InCondWait, Queued, WaitsOn, MustWait, Leaked, ReadingSet, CountedInSet,
        DenyingSet, Reading, CountedIn
<1> QED
  BY <1>2, <1>3, BeginOK, DownsOK, SchedulingOK, ExitStepOK DEF Next, Halted

(* The invariant holds at every moment. *)
LEMMA SpecIInv == Spec => []IInv
  BY InitOK, NextKeeps, PTL DEF Spec

-----------------------------------------------------------------------------
(* The monitor's variables keep their types: no count of readers, writers  *)
(* or denials ever goes below zero, whatever the order of the calls.       *)
THEOREM TypeCorrect == Spec => []TypeOK
<1>1. IInv => TypeOK
  BY DEF IInv
<1> QED
  BY SpecIInv, <1>1, PTL

(* A write that extends the file has the lock; nobody reads the file and   *)
(* no other write extends it, also after a write has given up with the     *)
(* lock.                                                                   *)
THEOREM ExtendingExcludes == Spec => []ExtendsAlone
<1>1. IInv => ExtendsAlone
  <2> SUFFICES ASSUME IInv, NEW t \in Worker, NEW u \in Worker,
                      pc[t] \in {"extend", "extended"}
               PROVE  /\ holder = t /\ ~ Reading(u)
                      /\ pc[u] \in {"extend", "extended"} => u = t
    BY DEF ExtendsAlone
  <2>1. holder = t /\ (pc[u] \in {"extend", "extended"} => u = t)
    BY DEF IInv, LockOK, Inside
  <2>2. ReadingSet = {}
    <3>1. ReadingSet \in SUBSET Worker /\ Cardinality(ReadingSet) = 0
      BY DEF IInv, Tested, Counted, ReadingSet
    <3> QED
      BY <3>1, WorkersFinite
  <2> QED
    BY <2>1, <2>2 DEF ReadingSet
<1> QED
  BY SpecIInv, <1>1, PTL

(* inode->readers is the number of threads reading, and inode->writers the *)
(* number of writers counted in, until a write has leaked the lock.        *)
THEOREM CountsAlwaysExact == Spec => []CountsExact
<1>1. IInv => CountsExact
  BY DEF IInv, Counted, CountsExact, ReadingSet, CountedInSet
<1> QED
  BY SpecIInv, <1>1, PTL

(* Whoever sleeps on a condition variable is owed a signal by a thread     *)
(* that does not sleep on it.                                              *)
THEOREM WaitersAlwaysOwed == Spec => []WaitersAreOwed
<1>1. IInv => WaitersAreOwed
  BY DEF IInv
<1> QED
  BY SpecIInv, <1>1, PTL

(* The calls on one inode never all wait for each other: a sleeper on the  *)
(* lock waits for an owner that does not sleep on it, and of the sleepers  *)
(* on the conditions one would be owed a signal by another.                *)
THEOREM CallsDoNotDeadlock == Spec => []SomebodyMoves
<1>1. IInv => SomebodyMoves
  <2> SUFFICES ASSUME IInv, ~ Leaked, NEW a \in Worker, pc[a] # "dead",
                      \A t \in Worker : /\ k.status[t] \notin {"RUNNING", "READY"}
                                        /\ k.status[t] = "BLOCKED" => k.wants[t] # NoSema
               PROVE  FALSE
    BY DEF SomebodyMoves
  <2>1. /\ LockSema # NoSema /\ LockSema \in Sema /\ k.value \in [Sema -> Nat]
        /\ \A t \in Worker : t \in Thread /\ WaiterSema(t) \in Sema /\ WaiterSema(t) # NoSema
    BY SyncRecord DEF IInv
  <2>2. \A t \in Worker : pc[t] # "dead" => k.status[t] = "BLOCKED" /\ k.wants[t] # NoSema
    BY DEF IInv, Alive, Live
  (* On whatever semaphore somebody sleeps, its value is zero. *)
  <2>3. ASSUME NEW t \in Worker, pc[t] # "dead"
        PROVE  k.value[k.wants[t]] = 0
    <3> DEFINE s == k.wants[t]
    <3>1. s \in Sema /\ s # NoSema /\ k.status[t] = "BLOCKED"
      BY <2>1, <2>2, <2>3 DEF IInv, Asks
    <3>2. k.waiters[s] # <<>>
      BY <2>1, <3>1 DEF IInv, KernelOK, BlockedIsQueued, InQueue
    <3>3. Woken(k, s) = {}
      BY <3>1 DEF Woken, IInv, Asks
    <3>4. k.value[s] <= 0
      BY <3>1, <3>2, <3>3, FS_EmptySet DEF IInv, Covered, WakeupsCover
    <3> QED
      BY <2>1, <3>1, <3>4
  <2>4. \A t \in Worker : pc[t] # "dead" =>
          pc[t] = "cond_acquire" /\ InQueue(condq[WaitsOn(t)], t)
    <3> SUFFICES ASSUME NEW t \in Worker, pc[t] # "dead"
                 PROVE  pc[t] = "cond_acquire" /\ InQueue(condq[WaitsOn(t)], t)
      OBVIOUS
    <3>1. k.wants[t] # LockSema
      <4>1. SUFFICES ASSUME k.wants[t] = LockSema PROVE FALSE
        OBVIOUS
      <4>2. PICK u \in Worker : Owns(u)
        BY <2>3, <4>1 DEF IInv, LockOK
      <4>3. k.wants[u] = NoSema /\ pc[u] # "dead"
        BY <2>1, <4>2 DEF Owns, Leaked, Inside, Getting, IInv, Asks
      <4> QED
        BY <2>2, <4>3
    <3>2. k.wants[t] = WaiterSema(t) /\ pc[t] = "cond_acquire"
      BY <2>1, <2>2, <3>1 DEF IInv, Asks
    <3>3. InCondWait(t) /\ Queued(t)
      BY <2>1, <2>3, <3>2 DEF InCondWait, IInv, QueuesOK
    <3> QED
      BY <3>2, <3>3 DEF Queued, IInv, QueuesOK
  <2>5. readers = 0
    <3>1. ReadingSet = {}
      BY <2>4 DEF ReadingSet, Reading
    <3> QED
      BY <3>1, FS_EmptySet DEF IInv, Counted
  <2>6. \A t \in Worker : CountedIn(t) => Contains(condq["readers_cond"], t)
    BY <2>4 DEF CountedIn, WaitsOn, Contains, InQueue
  <2>7. condq["readers_cond"] = <<>>
    BY <2>5, <2>6 DEF IInv, WaitersAreOwed
  <2>8. CountedInSet = {}
    BY <2>6, <2>7 DEF CountedInSet, Contains
  <2>9. writers = 0
    BY <2>8, FS_EmptySet DEF IInv, Counted
  <2>10. condq["writers_cond"] = <<>>
    BY <2>4, <2>9 DEF IInv, WaitersAreOwed
  <2>11. WaitsOn(a) \in {"readers_cond", "writers_cond"} /\ InQueue(condq[WaitsOn(a)], a)
    BY <2>4 DEF WaitsOn
  <2> QED
    BY <2>7, <2>10, <2>11 DEF InQueue
<1> QED
  BY SpecIInv, <1>1, PTL
=============================================================================
