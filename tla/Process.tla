------------------------------- MODULE Process -------------------------------
(***************************************************************************)
(* Parents and children (CS439/Project?/userprog/process.c, syscall.c and *)
(* threads/thread.c): process_execute, start_process and load, the exec   *)
(* and wait system calls, process_wait and thread_exit, and the            *)
(* child_record a parent shares with each child.  They run on the threads  *)
(* and semaphores of Kernel; between any two of a thread's steps the timer *)
(* may give the CPU to another.                                            *)
(***************************************************************************)
EXTENDS Kernel

WaitSema(t) == <<"wait", t>>
LoadSema(t) == <<"load", t>>

Child == Thread \ {Main, Idle}

ASSUME ProcessAssumption ==
  /\ \A t \in Child : WaitSema(t) \in Sema /\ LoadSema(t) \in Sema
  /\ NoSema \notin Thread

VARIABLES
  k,        \* the kernel
  pc,       \* what each thread does next
  child,    \* the child its exec or wait is about
  rec,      \* the child_record of each thread ever created
  hist      \* what really happened to it: load's outcome, exit's status,
            \* and what exec and wait told the parent

vars == <<k, pc, child, rec, hist>>

NoChild == NoSema

(* exit statuses: "error" is -1, which a killed process has too *)
ExitStatus == {"error", "ok"}

ChildRecord ==
  [parent : Thread \cup {NoChild}, exit_status : ExitStatus,
   parent_waiting : BOOLEAN, exited : BOOLEAN, loaded : BOOLEAN]

NewRecord(p) ==
  [parent |-> p, exit_status |-> "error",
   parent_waiting |-> FALSE, exited |-> FALSE, loaded |-> FALSE]

History ==
  [load : {"none", "ok", "failed"}, exec : {"none", "pid", "error"},
   exit : {"none"} \cup ExitStatus, wait : {"none"} \cup ExitStatus]

NoHistory == [load |-> "none", exec |-> "none", exit |-> "none", wait |-> "none"]

Init ==
  /\ \E p \in Projects : k = Booted(p, [s \in Sema |-> 0])
  /\ pc = [t \in Thread |-> IF t = Main THEN "run_task" ELSE "none"]
  /\ child = [t \in Thread |-> NoChild]
  /\ rec = [t \in Thread |-> NewRecord(NoChild)]
  /\ hist = [t \in Thread |-> NoHistory]

(* The machine is on until main has run its task and powers it off. *)
On == pc[Main] # "power_off"

InterruptsOn == On /\ ~ InSemaDown(k)

At(t, label) == InterruptsOn /\ k.run = t /\ pc[t] = label

Goto(t, label) == pc' = [pc EXCEPT ![t] = label]

-----------------------------------------------------------------------------
(* The parent. *)

(* process_execute, thread_create: the child and its record. *)
Create(t, c) ==
  /\ rec[c].parent = NoChild
  /\ k' = ThreadCreate(k, c)
  /\ rec' = [rec EXCEPT ![c] = NewRecord(t)]
  /\ child' = [child EXCEPT ![t] = c]
  /\ hist' = hist

(* run_task: main waits for its task at once. *)
RunTask(c) ==
  At(Main, "run_task") /\ Create(Main, c)
  /\ pc' = [pc EXCEPT ![Main] = "wait", ![c] = "load"]

(* The exec system call as far as get_child_record. *)
Exec(t, c) ==
  At(t, "user") /\ Create(t, c)
  /\ pc' = [pc EXCEPT ![t] = "exec", ![c] = "load"]

(* Project 4 downs the child's load semaphore. *)
(* Mutant of ExecDown4: exec does not wait for the load. *)
ExecNoDown4(t) ==
  /\ k.project = 4 /\ At(t, "exec")
  /\ Goto(t, "exec_return")
  /\ UNCHANGED <<k, child, rec, hist>>

ExecDown4(t) ==
  /\ k.project = 4 /\ At(t, "exec")
  /\ k' = SemaDown(k, LoadSema(child[t]))
  /\ Goto(t, "exec_return")
  /\ UNCHANGED <<child, rec, hist>>

(* Projects 2 and 3 share the wait semaphore between exec and wait. *)
ExecCheck23(t) ==
  /\ k.project \in {2, 3} /\ At(t, "exec")
  /\ Goto(t, IF rec[child[t]].loaded THEN "exec_return" ELSE "exec_flag")
  /\ UNCHANGED <<k, child, rec, hist>>

ExecFlag23(t) ==
  /\ At(t, "exec_flag")
  /\ rec' = [rec EXCEPT ![child[t]].parent_waiting = TRUE]
  /\ Goto(t, "exec_down")
  /\ UNCHANGED <<k, child, hist>>

ExecDown23(t) ==
  /\ At(t, "exec_down")
  /\ k' = SemaDown(k, WaitSema(child[t]))
  /\ Goto(t, "exec_return")
  /\ UNCHANGED <<child, rec, hist>>

ExecReturn(t) ==
  /\ At(t, "exec_return")
  /\ hist' = [hist EXCEPT ![child[t]].exec =
                IF rec[child[t]].loaded THEN "pid" ELSE "error"]
  /\ Goto(t, "user")
  /\ child' = [child EXCEPT ![t] = NoChild]
  /\ UNCHANGED <<k, rec>>

(* The wait system call on any child of the caller, waited for before or not. *)
Wait(t, c) ==
  /\ At(t, "user") /\ rec[c].parent = t
  /\ child' = [child EXCEPT ![t] = c]
  /\ Goto(t, "wait")
  /\ UNCHANGED <<k, rec, hist>>

WaitCheck(t) ==
  /\ At(t, "wait")
  /\ Goto(t, IF rec[child[t]].exited THEN "wait_status" ELSE "wait_flag")
  /\ UNCHANGED <<k, child, rec, hist>>

WaitFlag(t) ==
  /\ At(t, "wait_flag")
  /\ rec' = [rec EXCEPT ![child[t]].parent_waiting = TRUE]
  /\ Goto(t, "wait_down")
  /\ UNCHANGED <<k, child, hist>>

(* Mutant of WaitDown: wait and exec share a semaphore. *)
WaitDownOnLoad(t) ==
  /\ At(t, "wait_down")
  /\ k' = SemaDown(k, LoadSema(child[t]))
  /\ Goto(t, "wait_status")
  /\ UNCHANGED <<child, rec, hist>>

WaitDown(t) ==
  /\ At(t, "wait_down")
  /\ k' = SemaDown(k, WaitSema(child[t]))
  /\ Goto(t, "wait_status")
  /\ UNCHANGED <<child, rec, hist>>

(* The status is read; hist keeps the first one a wait returned. *)
WaitStatus(t) ==
  /\ At(t, "wait_status")
  /\ hist' = [hist EXCEPT ![child[t]].wait =
                IF @ = "none" THEN rec[child[t]].exit_status ELSE @]
  /\ Goto(t, "wait_reset")
  /\ UNCHANGED <<k, child, rec>>

(* ... and reset; main's task is done, a process goes on. *)
WaitReset(t) ==
  /\ At(t, "wait_reset")
  /\ rec' = [rec EXCEPT ![child[t]].exit_status = "error"]
  /\ Goto(t, IF t = Main THEN "power_off" ELSE "user")
  /\ child' = [child EXCEPT ![t] = NoChild]
  /\ UNCHANGED <<k, hist>>

-----------------------------------------------------------------------------
(* The child. *)

(* load succeeds or fails, on its way to "done". *)
Load(t, outcome) ==
  /\ At(t, "load")
  /\ hist' = [hist EXCEPT ![t].load = outcome]
  /\ Goto(t, "done")
  /\ UNCHANGED <<k, child, rec>>

Loaded(t) == hist[t].load = "ok"

(* Project 4's load records its success, then ups the load semaphore. *)
DoneSet4(t) ==
  /\ k.project = 4 /\ At(t, "done")
  /\ rec' = [rec EXCEPT ![t].loaded = Loaded(t)]
  /\ Goto(t, "done_up")
  /\ UNCHANGED <<k, child, hist>>

(* Mutant of DoneUp4: only a successful load wakes the parent. *)
DoneUpIfLoaded4(t) ==
  /\ At(t, "done_up")
  /\ k' = IF Loaded(t) THEN SemaUp(k, LoadSema(t)) ELSE k
  /\ Goto(t, IF Loaded(t) THEN "user" ELSE "exit")
  /\ UNCHANGED <<child, rec, hist>>

DoneUp4(t) ==
  /\ At(t, "done_up")
  /\ k' = SemaUp(k, LoadSema(t))
  /\ Goto(t, IF Loaded(t) THEN "user" ELSE "exit")
  /\ UNCHANGED <<child, rec, hist>>

(* In Projects 2 and 3 load wakes a waiting parent, and start_process      *)
(* records the success after load has returned.                            *)
DoneUp23(t) ==
  /\ k.project \in {2, 3} /\ At(t, "done")
  /\ k' = IF rec[t].parent_waiting THEN SemaUp(k, WaitSema(t)) ELSE k
  /\ Goto(t, "done_set")
  /\ UNCHANGED <<child, rec, hist>>

DoneSet23(t) ==
  /\ At(t, "done_set")
  /\ rec' = [rec EXCEPT ![t].loaded = Loaded(t)]
  /\ Goto(t, IF Loaded(t) THEN "user" ELSE "exit")
  /\ UNCHANGED <<k, child, hist>>

(* The exit system call stores the status; a kill leaves "error". *)
ExitCall(t, status) ==
  /\ At(t, "user")
  /\ rec' = [rec EXCEPT ![t].exit_status = status]
  /\ Goto(t, "exit")
  /\ UNCHANGED <<k, child, hist>>

Kill(t) ==
  /\ At(t, "user")
  /\ Goto(t, "exit")
  /\ UNCHANGED <<k, child, rec, hist>>

(* Mutant of ExitUps: a dying child wakes nobody. *)
ExitUpsNone(t) == k

(* thread_exit from its last file_close on: interrupts are off. *)
ExitUps(t) ==
  IF ~ rec[t].parent_waiting THEN k
  ELSE IF k.project = 4 THEN SemaUp(SemaUp(k, WaitSema(t)), LoadSema(t))
  ELSE SemaUp(k, WaitSema(t))

Exit(t) ==
  /\ At(t, "exit")
  /\ rec' = [rec EXCEPT ![t].exited = TRUE]
  /\ hist' = [hist EXCEPT ![t].exit = rec[t].exit_status]
  /\ k' = ThreadExit(ExitUps(t))
  /\ Goto(t, "none")
  /\ UNCHANGED child

-----------------------------------------------------------------------------
(* Loading and running read the disk: the thread sleeps until its          *)
(* interrupt comes.                                                        *)
Sleep(t) ==
  /\ At(t, "load") \/ At(t, "user")
  /\ k' = ThreadBlock(k)
  /\ UNCHANGED <<pc, child, rec, hist>>

(* Mutant of DiskInterrupt: it wakes whoever is blocked. *)
InterruptWakesAny(t) ==
  /\ InterruptsOn
  /\ t # Idle /\ k.status[t] = "BLOCKED"
  /\ k' = ThreadUnblock(k, t)
  /\ UNCHANGED <<pc, child, rec, hist>>

DiskInterrupt(t) ==
  /\ InterruptsOn
  /\ t # Idle /\ k.status[t] = "BLOCKED" /\ k.wants[t] = NoSema
  /\ k' = ThreadUnblock(k, t)
  /\ UNCHANGED <<pc, child, rec, hist>>

Resume == On /\ InSemaDown(k) /\ k' = SemaResume(k) /\ UNCHANGED <<pc, child, rec, hist>>

Tick == InterruptsOn /\ k' = ThreadYield(k) /\ UNCHANGED <<pc, child, rec, hist>>

IdleLoop ==
  InterruptsOn /\ k.run = Idle /\ k' = ThreadBlock(k) /\ UNCHANGED <<pc, child, rec, hist>>

(* shutdown_power_off: nothing more happens. *)
Halted == ~ On /\ UNCHANGED vars

-----------------------------------------------------------------------------
ParentStep(t) ==
  \/ ExecDown4(t) \/ ExecCheck23(t) \/ ExecFlag23(t) \/ ExecDown23(t) \/ ExecReturn(t)
  \/ WaitCheck(t) \/ WaitFlag(t) \/ WaitDown(t) \/ WaitStatus(t) \/ WaitReset(t)

FinishLoad(t) == \E outcome \in {"ok", "failed"} : Load(t, outcome)

ChildStep(t) ==
  \/ FinishLoad(t) \/ DoneSet4(t) \/ DoneUp4(t) \/ DoneUp23(t) \/ DoneSet23(t)
  \/ Exit(t)

(* The system calls a process makes as it likes. *)
UserStep(t) ==
  \/ \E c \in Child : Exec(t, c) \/ Wait(t, c)
  \/ \E status \in ExitStatus : ExitCall(t, status)
  \/ Kill(t)

Next ==
  \/ \E c \in Child : RunTask(c)
  \/ \E t \in Thread : ParentStep(t)
  \/ \E t \in Child : ChildStep(t) \/ UserStep(t) \/ Sleep(t) \/ DiskInterrupt(t)
  \/ Resume \/ Tick \/ IdleLoop \/ Halted

Spec == Init /\ [][Next]_vars

(* Whoever runs gets something done before its slice ends (strong          *)
(* fairness of its kernel code), interrupts come, load ends.  A process    *)
(* need not make any system call.                                          *)
Fairness ==
  /\ WF_vars(Tick) /\ WF_vars(Resume)
  /\ \A t \in Thread : SF_vars(ParentStep(t))
  /\ \A t \in Child : SF_vars(ChildStep(t)) /\ SF_vars(DiskInterrupt(t))

FairSpec == Spec /\ Fairness

-----------------------------------------------------------------------------
Labels ==
  {"none", "run_task", "power_off", "user",
   "exec", "exec_flag", "exec_down", "exec_return",
   "wait", "wait_flag", "wait_down", "wait_status", "wait_reset",
   "load", "done", "done_up", "done_set", "exit"}

TypeOK ==
  /\ k \in KernelState
  /\ pc \in [Thread -> Labels]
  /\ child \in [Thread -> Child \cup {NoChild}]
  /\ rec \in [Thread -> ChildRecord]
  /\ hist \in [Thread -> History]

(* exec answers with the child's pid only if its program was loaded, with  *)
(* -1 only if it was not (syscall.c exec: "If child has failed loading,    *)
(* return -1").                                                            *)
ExecHonest ==
  \A c \in Child :
    /\ hist[c].exec = "pid" => hist[c].load = "ok"
    /\ hist[c].exec = "error" => hist[c].load = "failed"

(* Project 2's does because no tick switches threads, Project 4's because   *)
(* child_loaded is set before the parent is woken.                         *)
ExecHonestIn2And4 == k.project \in {2, 4} => ExecHonest

(* The first process_wait for a child returns after the child has died,    *)
(* with the status it died with (process.c: "Waits for thread TID to die   *)
(* and returns its exit status").                                          *)
WaitHonest ==
  \A c \in Child : hist[c].wait # "none" =>
    rec[c].exited /\ hist[c].wait = hist[c].exit

(* Project 4's does: its exec and wait have a semaphore each.               *)
WaitHonestIn4 == k.project = 4 => WaitHonest

(* No parent sleeps in process_wait, or in exec, for a child that has      *)
(* died already: nobody is left to wake it.                                *)
NeverWaitsForDead ==
  \A p \in Thread, c \in Child :
    k.status[p] = "BLOCKED" /\ k.wants[p] \in {WaitSema(c), LoadSema(c)} => ~ rec[c].exited

(* None does in Project 2, which no tick preempts.                          *)
NeverWaitsForDeadIn2 == k.project = 2 => NeverWaitsForDead

(* In Project 4 every exec returns: no load leaves the parent asleep.       *)
ExecReturns ==
  \A t \in Child :
    k.project = 4 /\ pc[t] \in {"exec", "exec_flag", "exec_down", "exec_return"} ~> (pc[t] = "user" \/ ~ On)

(* The threads and semaphores underneath behave as Threads says.           *)
T == INSTANCE Threads WITH MaxValue <- 2

RunsOnThreads == T!Spec
=============================================================================
