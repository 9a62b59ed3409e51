------------------------------ MODULE InodeSync ------------------------------
(***************************************************************************)
(* One inode of Project 4's file system under concurrent calls            *)
(* (CS439/Project4/filesys/inode.c): the monitor of inode_read_at and     *)
(* inode_write_at - a lock, two condition variables, two counts - with    *)
(* every path through them, and inode_deny_write.  The threads, the lock   *)
(* and the condition variables are those of threads/synch.c on Kernel.     *)
(*                                                                        *)
(* Of the inode's data only what the monitor protects is kept: that an    *)
(* extending write needs index blocks, of which the disk has SpareBlocks.  *)
(***************************************************************************)
EXTENDS Kernel

CONSTANTS
  SpareBlocks,   \* free sectors left for index blocks
  MaxCalls       \* bound: calls each thread makes

Worker == Thread \ {Main, Idle}

LockSema == <<"lock", NoSema>>
WaiterSema(t) == <<"waiter", t>>    \* the semaphore_elem on t's stack

Cond == {"readers_cond", "writers_cond"}

ASSUME InodeSyncAssumption ==
  /\ LockSema \in Sema /\ \A t \in Worker : WaiterSema(t) \in Sema
  /\ NoSema \notin Thread
  /\ SpareBlocks \in Nat /\ MaxCalls \in Nat
  /\ 4 \in Projects

VARIABLES
  k,          \* the kernel
  pc,         \* what each thread does next
  op,         \* the call it is in
  calls,      \* the calls it has left
  holder,     \* inode->lock.holder
  condq,      \* the waiters of the two condition variables
  readers, writers, deny,    \* inode->readers, writers, deny_write_cnt
  spare       \* sectors free

inode == <<holder, condq, readers, writers, deny, spare>>
local == <<op, calls>>
vars == <<k, pc, local, inode>>

Nobody == NoSema

(* The workers have been created, in some order: what ThreadCreate does for  *)
(* each of them.                                                           *)
Created(order) ==
  LET booted == Booted(4, [s \in Sema |-> IF s = LockSema THEN 1 ELSE 0])
  IN  [booted EXCEPT
         !.ready = order,
         !.status = [t \in Thread |-> IF t \in Worker THEN "READY" ELSE @[t]]]

(* Main sleeps until they are done. *)
Init ==
  /\ \E order \in SetToSeqs(Worker) : k = ThreadBlock(Created(order))
  /\ pc = [t \in Worker |-> "call"]
  /\ op = [t \in Worker |-> "none"]
  /\ calls = [t \in Worker |-> MaxCalls]
  /\ holder = Nobody
  /\ condq = [c \in Cond |-> <<>>]
  /\ readers = 0 /\ writers = 0 /\ deny = 0
  /\ spare = SpareBlocks

(* A failed ASSERT panics the kernel: nothing runs any more. *)
On == \A t \in Worker : pc[t] # "panic"

InterruptsOn == On /\ ~ InSemaDown(k)

At(t, label) == InterruptsOn /\ k.run = t /\ pc[t] = label

Goto(t, label) == pc' = [pc EXCEPT ![t] = label]

-----------------------------------------------------------------------------
(* The lock and the condition variables of synch.c. *)

(* lock_acquire as far as its sema_down; it asserts the lock is not held. *)
LockAcquire(t, next) ==
  /\ IF holder = t THEN Goto(t, "panic") /\ UNCHANGED k
     ELSE k' = SemaDown(k, LockSema) /\ Goto(t, next)
  /\ UNCHANGED <<local, inode>>

LockRelease(t, next) ==
  /\ holder' = Nobody
  /\ k' = SemaUp(k, LockSema)
  /\ Goto(t, next)

(* cond_signal: up the semaphore of the waiter that came first. *)
Signal(c) ==
  IF condq[c] = <<>> THEN UNCHANGED <<k, condq>>
  ELSE /\ k' = SemaUp(k, WaiterSema(Head(condq[c])))
       /\ condq' = [condq EXCEPT ![c] = Tail(@)]

-----------------------------------------------------------------------------
(* The start of a call.  inode_write_at looks at deny_write_cnt first. *)

Begin(t, o) ==
  /\ At(t, "call") /\ calls[t] > 0
  /\ op' = [op EXCEPT ![t] = o]
  /\ calls' = [calls EXCEPT ![t] = @ - 1]
  /\ Goto(t, CASE o = "read" -> "enter" [] o = "write" -> "check" [] o = "deny" -> "deny")
  /\ UNCHANGED <<k, inode>>

Return(t) == Goto(t, "call") /\ op' = [op EXCEPT ![t] = "none"] /\ UNCHANGED calls

CheckDeny(t) ==
  /\ At(t, "check")
  /\ IF deny > 0 THEN Return(t) ELSE Goto(t, "enter") /\ UNCHANGED local
  /\ UNCHANGED <<k, inode>>

Enter(t) == At(t, "enter") /\ LockAcquire(t, "entered")

(* Mutant of Entered: readers count themselves as writers too. *)
EnteredCounting(t) ==
  /\ At(t, "entered")
  /\ holder' = t
  /\ writers' = writers + 1
  /\ Goto(t, "test")
  /\ UNCHANGED <<k, local, condq, readers, deny, spare>>

(* A writer counts itself at once, a reader when no writer is left. *)
Entered(t) ==
  /\ At(t, "entered")
  /\ holder' = t
  /\ writers' = IF op[t] = "write" THEN writers + 1 ELSE writers
  /\ Goto(t, "test")
  /\ UNCHANGED <<k, local, condq, readers, deny, spare>>

(* Mutant of MustWait: a writer does not wait for the readers. *)
MustWaitReader(t) == op[t] = "read" /\ writers > 0

MustWait(t) == IF op[t] = "read" THEN writers > 0 ELSE readers > 0

WaitsOn(t) == IF op[t] = "read" THEN "writers_cond" ELSE "readers_cond"

(* Mutant of Test: the reader does not count itself. *)
TestUncounted(t) ==
  /\ At(t, "test")
  /\ Goto(t, IF MustWait(t) THEN "cond_wait"
             ELSE IF op[t] = "read" THEN "release" ELSE "extend")
  /\ UNCHANGED <<k, local, inode>>

Test(t) ==
  /\ At(t, "test")
  /\ IF MustWait(t) THEN Goto(t, "cond_wait") /\ UNCHANGED readers
     ELSE IF op[t] = "read" THEN Goto(t, "release") /\ readers' = readers + 1
     ELSE Goto(t, "extend") /\ UNCHANGED readers
  /\ UNCHANGED <<k, local, holder, condq, writers, deny, spare>>

(* cond_wait queues a fresh semaphore, releases the lock, downs the        *)
(* semaphore and acquires the lock again.                                  *)
CondWait(t) ==
  /\ At(t, "cond_wait")
  /\ condq' = [condq EXCEPT ![WaitsOn(t)] = Append(@, t)]
  /\ LockRelease(t, "cond_down")
  /\ UNCHANGED <<local, readers, writers, deny, spare>>

CondDown(t) ==
  /\ At(t, "cond_down")
  /\ k' = SemaDown(k, WaiterSema(t))
  /\ Goto(t, "cond_acquire")
  /\ UNCHANGED <<local, inode>>

CondAcquire(t) == At(t, "cond_acquire") /\ LockAcquire(t, "cond_return")

CondReturn(t) ==
  /\ At(t, "cond_return")
  /\ holder' = t
  /\ Goto(t, "test")
  /\ UNCHANGED <<k, local, condq, readers, writers, deny, spare>>

-----------------------------------------------------------------------------
(* inode_write_at with the lock: n index blocks are added for the new end. *)

Extend(t, n) ==
  /\ At(t, "extend") /\ n <= spare
  /\ spare' = spare - n
  /\ Goto(t, "extended")
  /\ UNCHANGED <<k, local, holder, condq, readers, writers, deny>>

(* free_map_allocate fails: the call returns from inside the monitor. *)
ExtendFails(t) ==
  /\ At(t, "extend") /\ spare = 0
  /\ Return(t)
  /\ UNCHANGED <<k, inode>>

(* Mutant of Extended: the next writer is not signalled. *)
ExtendedSilent(t) ==
  /\ At(t, "extended")
  /\ writers' = writers - 1
  /\ Goto(t, IF writers = 1 THEN "broadcast" ELSE "release")
  /\ UNCHANGED <<k, condq, local, holder, readers, deny, spare>>

(* The last writer wakes all the readers, any other one writer. *)
Extended(t) ==
  /\ At(t, "extended")
  /\ writers' = writers - 1
  /\ IF writers = 1 THEN Goto(t, "broadcast") /\ UNCHANGED <<k, condq>>
     ELSE Signal("readers_cond") /\ Goto(t, "release")
  /\ UNCHANGED <<local, holder, readers, deny, spare>>

(* cond_broadcast signals one waiter after another. *)
Broadcast(t) ==
  /\ At(t, "broadcast")
  /\ Signal("writers_cond")
  /\ Goto(t, IF condq["writers_cond"] = <<>> THEN "release" ELSE "broadcast")
  /\ UNCHANGED <<local, holder, readers, writers, deny, spare>>

Release(t) ==
  /\ At(t, "release")
  /\ LockRelease(t, "data")
  /\ UNCHANGED <<local, condq, readers, writers, deny, spare>>

(* The data is read and written without the lock; a reader comes back. *)
ReadData(t) ==
  /\ At(t, "data") /\ op[t] = "read"
  /\ Goto(t, "leave")
  /\ UNCHANGED <<k, local, inode>>

WriteData(t) ==
  /\ At(t, "data") /\ op[t] = "write"
  /\ Return(t)
  /\ UNCHANGED <<k, inode>>

Leave(t) == At(t, "leave") /\ LockAcquire(t, "leaving")

(* Mutant of Leaving: the last reader signals no writer. *)
LeavingSilent(t) ==
  /\ At(t, "leaving")
  /\ holder' = t
  /\ readers' = readers - 1
  /\ Goto(t, "leave_release")
  /\ UNCHANGED <<k, condq, local, writers, deny, spare>>

Leaving(t) ==
  /\ At(t, "leaving")
  /\ holder' = t
  /\ readers' = readers - 1
  /\ IF readers = 1 THEN Signal("readers_cond") ELSE UNCHANGED <<k, condq>>
  /\ Goto(t, "leave_release")
  /\ UNCHANGED <<local, writers, deny, spare>>

LeaveRelease(t) ==
  /\ At(t, "leave_release")
  /\ holder' = Nobody /\ k' = SemaUp(k, LockSema)
  /\ Return(t)
  /\ UNCHANGED <<condq, readers, writers, deny, spare>>

-----------------------------------------------------------------------------
(* An executable is opened, its writes denied, and allowed at the end. *)

DenyWrite(t) ==
  /\ At(t, "deny")
  /\ deny' = deny + 1
  /\ Goto(t, "denied")
  /\ UNCHANGED <<k, local, holder, condq, readers, writers, spare>>

AllowWrite(t) ==
  /\ At(t, "denied")
  /\ deny' = deny - 1
  /\ Return(t)
  /\ UNCHANGED <<k, holder, condq, readers, writers, spare>>

(* The disk is read and written here: the thread sleeps for its interrupt. *)
Sleep(t) ==
  /\ At(t, "data") \/ At(t, "extend")
  /\ k' = ThreadBlock(k)
  /\ UNCHANGED <<pc, local, inode>>

DiskInterrupt(t) ==
  /\ InterruptsOn
  /\ k.status[t] = "BLOCKED" /\ k.wants[t] = NoSema
  /\ k' = ThreadUnblock(k, t)
  /\ UNCHANGED <<pc, local, inode>>

Exit(t) ==
  /\ At(t, "call")
  /\ k' = ThreadExit(k)
  /\ Goto(t, "dead")
  /\ UNCHANGED <<local, inode>>

Resume == On /\ InSemaDown(k) /\ k' = SemaResume(k) /\ UNCHANGED <<pc, local, inode>>

Tick == InterruptsOn /\ k' = ThreadYield(k) /\ UNCHANGED <<pc, local, inode>>

IdleLoop ==
  InterruptsOn /\ k.run = Idle /\ k' = ThreadBlock(k) /\ UNCHANGED <<pc, local, inode>>

Halted == ~ On /\ UNCHANGED vars

-----------------------------------------------------------------------------
(* What a thread does inside a call. *)
Step(t) ==
  \/ CheckDeny(t) \/ Enter(t) \/ Entered(t) \/ Test(t)
  \/ CondWait(t) \/ CondDown(t) \/ CondAcquire(t) \/ CondReturn(t)
  \/ Extend(t, 0) \/ Extend(t, 1) \/ ExtendFails(t) \/ Extended(t) \/ Broadcast(t)
  \/ Release(t) \/ ReadData(t) \/ WriteData(t) \/ Leave(t) \/ Leaving(t) \/ LeaveRelease(t)
  \/ DenyWrite(t) \/ AllowWrite(t)

Next ==
  \/ \E t \in Worker, o \in {"read", "write", "deny"} : Begin(t, o)
  \/ \E t \in Worker : Step(t) \/ Sleep(t) \/ DiskInterrupt(t) \/ Exit(t)
  \/ Resume \/ Tick \/ IdleLoop \/ Halted

Spec == Init /\ [][Next]_vars

-----------------------------------------------------------------------------
Labels ==
  {"call", "check", "enter", "entered", "test", "cond_wait", "cond_down",
   "cond_acquire", "cond_return", "extend", "extended", "broadcast", "release",
   "data", "leave", "leaving", "leave_release", "deny", "denied", "dead", "panic"}

TypeOK ==
  /\ k \in KernelState
  /\ pc \in [Worker -> Labels]
  /\ op \in [Worker -> {"none", "read", "write", "deny"}]
  /\ calls \in [Worker -> 0..MaxCalls]
  /\ holder \in Worker \cup {Nobody}
  /\ condq \in [Cond -> Seq(Worker)]
  /\ readers \in Nat /\ writers \in Nat /\ deny \in Nat /\ spare \in Nat

(* Where a thread holds the lock. *)
Inside ==
  {"test", "cond_wait", "extend", "extended", "broadcast", "release",
   "leave_release"}

(* A writer that ++writers counts and --writers does not count out yet. *)
CountedIn(t) ==
  op[t] = "write" /\ pc[t] \in {"test", "cond_wait", "cond_down", "cond_acquire",
                                "cond_return", "extend", "extended"}

(* A reader that ++readers counts. *)
Reading(t) == op[t] = "read" /\ pc[t] \in {"release", "data", "leave", "leaving"}

(* Extending the file, which changes its length and index blocks, is done  *)
(* with the inode's lock and excludes every reader and every other         *)
(* extending writer ("Synchronization for extending file"), also after a   *)
(* write has given up inside.  It does not exclude the writers that have   *)
(* released the lock and write their data.                                 *)
ExtendsAlone ==
  \A t, u \in Worker :
    pc[t] \in {"extend", "extended"} =>
      /\ holder = t
      /\ ~ Reading(u)
      /\ pc[u] \in {"extend", "extended"} => u = t

(* A write found the disk full and returned with the lock. *)
Leaked == \E t \in Worker : holder = t /\ pc[t] \notin Inside

(* The counts say how many threads are reading, and how many writers are   *)
(* between their counting themselves in and out, waiting ones included.    *)
CountsExact ==
  /\ readers = Cardinality({t \in Worker : Reading(t)})
  /\ ~ Leaked => writers = Cardinality({t \in Worker : CountedIn(t)})

(* A thread whose semaphore is still queued on a condition is owed a       *)
(* signal: readers by a writer not yet counted out, a writer by a reader   *)
(* or by another writer that no longer waits.                              *)
WaitersAreOwed ==
  ~ Leaked =>
    /\ condq["writers_cond"] # <<>> =>
         writers > 0 \/ \E t \in Worker : pc[t] = "broadcast"
    /\ condq["readers_cond"] # <<>> =>
         \/ readers > 0
         \/ \E t \in Worker : CountedIn(t) /\ ~ Contains(condq["readers_cond"], t)

(* Nobody waits for everybody: while some thread is inside a call, some    *)
(* thread can run or waits for the disk only.                              *)
SomebodyMoves ==
  ~ Leaked /\ (\E t \in Worker : pc[t] # "dead") =>
    \E t \in Worker :
      k.status[t] \in {"RUNNING", "READY"} \/ (k.status[t] = "BLOCKED" /\ k.wants[t] = NoSema)
=============================================================================
