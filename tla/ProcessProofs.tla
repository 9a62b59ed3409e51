---------------------------- MODULE ProcessProofs ----------------------------
(***************************************************************************)
(* Theorems about Process, for every finite set of threads: what exec and *)
(* wait tell the parent is true in the projects that promise it, nobody    *)
(* sleeps for a dead child in Project 2, and the whole runs on Threads.    *)
(***************************************************************************)
EXTENDS Process, KernelProofs

InExec == {"exec", "exec_flag", "exec_down", "exec_return"}

InWait == {"wait", "wait_flag", "wait_down", "wait_status", "wait_reset"}

Exists(c) == rec[c].parent # NoChild

(* The child has settled whether it is loaded ... *)
LoadEnded(c) == Exists(c) /\ pc[c] \notin {"load", "done", "done_set"}

(* ... and has passed the first place where it may up a semaphore. *)
Upped(c) == Exists(c) /\ pc[c] \notin {"load", "done", "done_up"}

-----------------------------------------------------------------------------
(* The inductive invariant, in parts. *)

(* Where a thread can be tells what it is, and whom it deals with. *)
Places ==
  /\ pc[Idle] = "none"
  /\ pc[Main] \in {"run_task", "power_off"} \cup InWait
  /\ \A t \in Child : pc[t] \notin {"run_task", "power_off"}
  /\ \A t \in Thread : pc[t] \in InExec \cup InWait <=> child[t] # NoChild
  /\ \A t \in Thread : child[t] # NoChild => rec[child[t]].parent = t
  /\ \A t \in Thread : IF k.project = 4 THEN pc[t] \notin {"exec_flag", "exec_down", "done_set"}
                                        ELSE pc[t] # "done_up"

(* A record belongs to a thread created once, by another. *)
Records ==
  \A c \in Child :
    /\ rec[c].parent # c
    /\ ~ Exists(c) => k.status[c] = "NONE" /\ ~ rec[c].exited
    /\ pc[c] = "none" <=> ~ Exists(c) \/ rec[c].exited

(* Who is inside sema_down, and for which semaphore. *)
Asks ==
  \A t \in Thread : k.wants[t] # NoSema =>
    \/ pc[t] = "wait_status" /\ k.wants[t] = WaitSema(child[t])
    \/ pc[t] = "exec_return" /\ k.project = 4 /\ k.wants[t] = LoadSema(child[t])
    \/ pc[t] = "exec_return" /\ k.project # 4 /\ k.wants[t] = WaitSema(child[t])

(* A parent that downs the wait semaphore has told the child so. *)
Flagged ==
  \A t \in Thread :
    \/ pc[t] \in {"exec_down", "wait_down"}
    \/ k.wants[t] # NoSema /\ k.wants[t] = WaitSema(child[t])
    => rec[child[t]].parent_waiting

(* A child ups each of its semaphores twice at most: at the end of its load *)
(* and at its exit; the wait semaphore of Project 4 only at its exit.       *)
Values ==
  \A c \in Child :
    /\ ~ Upped(c) => k.value[WaitSema(c)] = 0 /\ k.value[LoadSema(c)] = 0
    /\ ~ rec[c].exited => k.value[WaitSema(c)] <= 1 /\ k.value[LoadSema(c)] <= 1
    /\ k.project = 4 /\ ~ rec[c].exited => k.value[WaitSema(c)] = 0

Loads ==
  \A c \in Child :
    /\ LoadEnded(c) => hist[c].load # "none" /\ rec[c].loaded = Loaded(c)
    /\ ~ LoadEnded(c) => ~ rec[c].loaded
    /\ pc[c] \in {"done", "done_set"} => hist[c].load # "none"

(* What exec is about to tell, and what it has told. *)
ExecTold ==
  k.project \in {2, 4} =>
    /\ \A t \in Thread : pc[t] = "exec_return" /\ k.wants[t] = NoSema => LoadEnded(child[t])
    /\ \A c \in Child : hist[c].exec # "none" =>
         LoadEnded(c) /\ hist[c].exec = (IF Loaded(c) THEN "pid" ELSE "error")

(* The status a child died with is kept until a wait has returned it. *)
Statuses ==
  /\ \A c \in Child : rec[c].exited /\ hist[c].wait = "none" =>
       rec[c].exit_status = hist[c].exit
  /\ \A t \in Thread : pc[t] = "wait_reset" => hist[child[t]].wait # "none"

WaitTold ==
  k.project = 4 =>
    /\ \A t \in Thread : pc[t] = "wait_status" /\ k.wants[t] = NoSema => rec[child[t]].exited
    /\ WaitHonest

(* In Project 2 a thread is switched out only where it sleeps: asleep for   *)
(* the disk, or inside sema_down.  So nothing happens between a parent's    *)
(* look at the child's record and its down, and a parent inside the down    *)
(* has been woken by the time its child is dead.                            *)
Unpreempted ==
  k.project = 2 =>
    /\ \A t \in Thread : t # k.run => pc[t] \in {"none", "load", "user"} \/ k.wants[t] # NoSema
    /\ \A t \in Thread :
         pc[t] \in {"exec", "exec_flag", "exec_down", "wait_flag", "wait_down"} =>
           ~ rec[child[t]].exited
    /\ \A t \in Thread : k.wants[t] # NoSema /\ rec[child[t]].exited =>
         k.status[t] # "BLOCKED" /\ k.value[WaitSema(child[t])] > 0

IInv ==
  /\ KernelOK(k) /\ Covered(k)
  /\ TypeOK
  /\ Places /\ Records
  /\ Asks /\ Flagged /\ Values
  /\ Loads /\ ExecTold
  /\ Statuses /\ WaitTold
  /\ Unpreempted

-----------------------------------------------------------------------------

(* The types, and that every child has its semaphores. *)
LEMMA ProcessRecord ==
  ASSUME TypeOK
  PROVE  /\ k.project \in {2, 3, 4} /\ k.run \in Thread
         /\ k.status \in [Thread -> Status] /\ k.value \in [Sema -> Nat]
         /\ k.wants \in [Thread -> Sema \cup {NoSema}]
         /\ NoChild \notin Thread /\ Main \notin Child /\ Idle \notin Child
         /\ \A c \in Child : /\ c \in Thread /\ c # NoChild
                             /\ WaitSema(c) \in Sema /\ LoadSema(c) \in Sema
  BY KernelRecord, ProcessAssumption DEF TypeOK, Child, NoChild

(* The booted kernel satisfies the invariant. *)
LEMMA InitOK == Init => IInv
<1> SUFFICES ASSUME Init PROVE IInv
  OBVIOUS
<1>1. PICK p \in Projects : k = Booted(p, [s \in Sema |-> 0])
  BY DEF Init
<1>2. KernelOK(k) /\ Covered(k)
  BY <1>1, BootedOK
<1>3. /\ k.project = p /\ k.run = Main
      /\ k.value = [s \in Sema |-> 0] /\ k.wants = [t \in Thread |-> NoSema]
      /\ k.status = [t \in Thread |-> IF t = Main THEN "RUNNING"
                                      ELSE IF t = Idle THEN "BLOCKED" ELSE "NONE"]
  BY <1>1 DEF Booted
<1>4. /\ pc = [t \in Thread |-> IF t = Main THEN "run_task" ELSE "none"]
      /\ child = [t \in Thread |-> NoChild]
      /\ rec = [t \in Thread |-> NewRecord(NoChild)]
      /\ hist = [t \in Thread |-> NoHistory]
  BY DEF Init
<1>5. \A t \in Thread : rec[t].parent = NoChild /\ ~ rec[t].exited /\ ~ rec[t].loaded
  BY <1>4 DEF NewRecord
<1>6. \A t \in Thread : hist[t].exec = "none" /\ hist[t].wait = "none"
  BY <1>4 DEF NoHistory
<1>7. TypeOK
  <2>1. NewRecord(NoChild) \in ChildRecord
    BY DEF NewRecord, ChildRecord, ExitStatus
  <2>2. NoHistory \in History
    BY DEF NoHistory, History
  <2> QED
    BY <1>2, <1>4, <2>1, <2>2, KernelAssumption DEF TypeOK, KernelOK, Labels
<1>8. /\ NoChild \notin Thread /\ Main \notin Child /\ Idle \notin Child
      /\ \A c \in Child : c \in Thread /\ WaitSema(c) \in Sema /\ LoadSema(c) \in Sema
  BY <1>7, ProcessRecord
<1>9. Places
  BY <1>4, <1>8, KernelAssumption DEF Places, InExec, InWait
<1>10. Records
  BY <1>3, <1>4, <1>5, <1>8 DEF Records, Exists
<1>11. Asks /\ Flagged
  BY <1>3, <1>4 DEF Asks, Flagged
<1>12. Values
  BY <1>3, <1>8 DEF Values
<1>13. Loads /\ ExecTold
  BY <1>3, <1>4, <1>5, <1>6, <1>8 DEF Loads, ExecTold, LoadEnded, Exists
<1>14. Statuses /\ WaitTold
  BY <1>3, <1>4, <1>5, <1>6, <1>8 DEF Statuses, WaitTold, WaitHonest
<1>15. Unpreempted
  BY <1>3, <1>4 DEF Unpreempted
<1> QED
  BY <1>2, <1>7, <1>9, <1>10, <1>11, <1>12, <1>13, <1>14, <1>15 DEF IInv

-----------------------------------------------------------------------------
(* A parent in exec or wait deals with a child of its own. *)
LEMMA Dealings ==
  ASSUME IInv, NEW t \in Thread, pc[t] \in InExec \cup InWait
  PROVE  /\ child[t] \in Child /\ rec[child[t]].parent = t
         /\ child[t] # t /\ Exists(child[t])
<1>1. child[t] # NoChild /\ child[t] \in Child /\ rec[child[t]].parent = t
  BY DEF IInv, Places, TypeOK
<1>2. t # NoChild
  BY ProcessRecord DEF IInv
<1> QED
  BY <1>1, <1>2 DEF Exists, IInv, Records

(* Where the calling thread is. *)
LEMMA Caller ==
  ASSUME IInv, NEW t \in Thread, NEW label, At(t, label), label \in Labels \ {"none"}
  PROVE  /\ t = k.run /\ pc[t] = label /\ k.wants[t] = NoSema /\ t # Idle
         /\ t \in Child => Exists(t) /\ ~ rec[t].exited
         /\ label \in InExec \cup InWait =>
              /\ child[t] \in Child /\ rec[child[t]].parent = t
              /\ child[t] # t /\ Exists(child[t])
<1>1. t = k.run /\ pc[t] = label /\ k.wants[t] = NoSema
  BY DEF At, InterruptsOn, InSemaDown
<1>2. t # Idle
  BY <1>1 DEF IInv, Places
<1>3. t \in Child => Exists(t) /\ ~ rec[t].exited
  BY <1>1 DEF IInv, Records
<1>4. ASSUME label \in InExec \cup InWait
      PROVE  /\ child[t] \in Child /\ rec[child[t]].parent = t
             /\ child[t] # t /\ Exists(child[t])
  BY <1>1, <1>4, Dealings
<1> QED
  BY <1>1, <1>2, <1>3, <1>4

(* The steps of the kernel alone: sleeping, waking, switching. *)
LEMMA KernelStep ==
  ASSUME IInv, KernelOK(k'), SameSemaphores(k, k'), Frame(k, k', {}),
         k.project = 2 => k'.run = k.run \/ pc[k.run] \in {"none", "load", "user"},
         k.wants[k.run] = NoSema, UNCHANGED <<pc, child, rec, hist>>
  PROVE  IInv'
<1>1. /\ k'.project = k.project /\ k'.value = k.value /\ k'.wants = k.wants
      /\ \A t \in Thread : k.status[t] = "NONE" => k'.status[t] = "NONE"
      /\ \A t \in Thread : k'.status[t] = "BLOCKED" => k.status[t] = "BLOCKED" \/ t = k.run
  BY DEF SameSemaphores, Frame
<1>2. Covered(k')
  BY SameCovered DEF IInv
<1>3. TypeOK'
  BY DEF IInv, TypeOK, KernelOK
<1>4. Places' /\ Records'
  BY <1>1, ProcessRecord DEF IInv, Places, Records, Exists
<1>5. Asks' /\ Flagged' /\ Values'
  BY <1>1 DEF IInv, Asks, Flagged, Values, Upped, Exists
<1>6. Loads' /\ ExecTold'
  BY <1>1 DEF IInv, Loads, ExecTold, LoadEnded, Exists, Loaded
<1>7. Statuses' /\ WaitTold'
  BY <1>1 DEF IInv, Statuses, WaitTold, WaitHonest
<1>8. Unpreempted'
  BY <1>1 DEF IInv, Unpreempted
<1> QED
  BY <1>2, <1>3, <1>4, <1>5, <1>6, <1>7, <1>8 DEF IInv

(* Steps that leave the kernel alone. *)
LEMMA SameKernel ==
  ASSUME IInv, k' = k
  PROVE  KernelOK(k') /\ Covered(k')
  BY DEF IInv

(* exec of Projects 2 and 3 looks whether the child has loaded. *)
LEMMA ExecCheck23OK == ASSUME IInv, NEW t \in Thread, ExecCheck23(t) PROVE IInv'
<1> DEFINE l == IF rec[child[t]].loaded THEN "exec_return" ELSE "exec_flag"
           c == child[t]
<1>1. /\ t = k.run /\ pc[t] = "exec" /\ k.wants[t] = NoSema /\ t # Idle /\ k.project # 4
      /\ t \in Child => ~ rec[t].exited
      /\ c \in Child /\ rec[c].parent = t
      /\ k' = k /\ pc' = [pc EXCEPT ![t] = l] /\ UNCHANGED <<child, rec, hist>>
  BY Caller DEF ExecCheck23, Labels, InExec, Goto
<1>2. TypeOK'
  BY <1>1 DEF IInv, TypeOK, Labels
<1>3. /\ pc'[t] = l /\ l \in {"exec_return", "exec_flag"}
      /\ \A u \in Thread : u # t => pc'[u] = pc[u]
  BY <1>1 DEF IInv, TypeOK
<1>4. Places'
  BY <1>1, <1>3, ProcessRecord DEF IInv, Places, InExec, InWait
<1>5. Records'
  BY <1>1, <1>3, ProcessRecord DEF IInv, Records, Exists
<1>6. Asks' /\ Flagged' /\ Values'
  BY <1>1, <1>3, ProcessRecord DEF IInv, Asks, Flagged, Values, Upped, Exists
<1>7. Loads' /\ ExecTold'
  <2>1. l = "exec_return" => LoadEnded(c)
    BY <1>1, <1>3 DEF IInv, Loads
  <2>2. Loads'
    BY <1>1, <1>3, ProcessRecord DEF IInv, Loads, LoadEnded, Loaded, Exists
  <2>3. ExecTold'
    BY <1>1, <1>3, <2>1, Dealings, ProcessRecord
    DEF IInv, ExecTold, LoadEnded, Loaded, Exists
  <2> QED
    BY <2>2, <2>3
<1>8. Statuses' /\ WaitTold'
  BY <1>1, <1>3 DEF IInv, Statuses, WaitTold, WaitHonest
<1>9. Unpreempted'
  BY <1>1, <1>3 DEF IInv, Unpreempted
<1> QED
  BY <1>1, <1>2, <1>4, <1>5, <1>6, <1>7, <1>8, <1>9, SameKernel DEF IInv

(* process_wait looks whether the child has exited. *)
LEMMA WaitCheckOK == ASSUME IInv, NEW t \in Thread, WaitCheck(t) PROVE IInv'
<1> DEFINE l == IF rec[child[t]].exited THEN "wait_status" ELSE "wait_flag"
           c == child[t]
<1>1. /\ t = k.run /\ pc[t] = "wait" /\ k.wants[t] = NoSema /\ t # Idle
      /\ t \in Child => ~ rec[t].exited
      /\ c \in Child /\ rec[c].parent = t
      /\ k' = k /\ pc' = [pc EXCEPT ![t] = l] /\ UNCHANGED <<child, rec, hist>>
  BY Caller DEF WaitCheck, Labels, InWait, Goto
<1>2. TypeOK'
  BY <1>1 DEF IInv, TypeOK, Labels
<1>3. /\ pc'[t] = l /\ l \in {"wait_status", "wait_flag"}
      /\ \A u \in Thread : u # t => pc'[u] = pc[u]
  BY <1>1 DEF IInv, TypeOK
<1>4. Places'
  BY <1>1, <1>3, ProcessRecord DEF IInv, Places, InExec, InWait
<1>5. Records'
  BY <1>1, <1>3, ProcessRecord DEF IInv, Records, Exists
<1>6. Asks' /\ Flagged' /\ Values'
  BY <1>1, <1>3, ProcessRecord DEF IInv, Asks, Flagged, Values, Upped, Exists
<1>7. Loads' /\ ExecTold'
  <2>1. Loads'
    BY <1>1, <1>3, ProcessRecord DEF IInv, Loads, LoadEnded, Loaded, Exists
  <2>2. ExecTold'
    BY <1>1, <1>3, Dealings, ProcessRecord
    DEF IInv, ExecTold, LoadEnded, Loaded, Exists, InExec
  <2> QED
    BY <2>1, <2>2
<1>8. Statuses' /\ WaitTold'
  BY <1>1, <1>3 DEF IInv, Statuses, WaitTold, WaitHonest
<1>9. Unpreempted'
  BY <1>1, <1>3 DEF IInv, Unpreempted
<1> QED
  BY <1>1, <1>2, <1>4, <1>5, <1>6, <1>7, <1>8, <1>9, SameKernel DEF IInv

(* The parent tells the child that it waits. *)
LEMMA FlagOK ==
  ASSUME IInv, NEW t \in Thread, ExecFlag23(t) \/ WaitFlag(t) PROVE IInv'
<1> DEFINE l == IF pc[t] = "exec_flag" THEN "exec_down" ELSE "wait_down"
           c == child[t]
<1>1. /\ t = k.run /\ k.wants[t] = NoSema /\ t # Idle
      /\ pc[t] \in {"exec_flag", "wait_flag"}
      /\ t \in Child => ~ rec[t].exited
      /\ c \in Child /\ rec[c].parent = t /\ c # t
      /\ k' = k /\ pc' = [pc EXCEPT ![t] = l] /\ UNCHANGED <<child, hist>>
      /\ rec' = [rec EXCEPT ![c].parent_waiting = TRUE]
  BY Caller DEF ExecFlag23, WaitFlag, Labels, InExec, InWait, Goto
<1>2. TypeOK'
  <2>1. rec[c] \in ChildRecord
    BY <1>1, ProcessRecord DEF IInv, TypeOK
  <2>2. [rec[c] EXCEPT !.parent_waiting = TRUE] \in ChildRecord
    BY <2>1 DEF ChildRecord
  <2>3. rec' \in [Thread -> ChildRecord]
    BY <1>1, <2>2 DEF IInv, TypeOK
  <2> QED
    BY <1>1, <2>3 DEF IInv, TypeOK, Labels
<1>3. /\ pc'[t] = l /\ l \in {"exec_down", "wait_down"}
      /\ \A u \in Thread : u # t => pc'[u] = pc[u]
      /\ l = "exec_down" => k.project # 4
  BY <1>1 DEF IInv, TypeOK, Places
<1>4. /\ \A u \in Thread : /\ rec'[u].parent = rec[u].parent /\ rec'[u].loaded = rec[u].loaded
                           /\ rec'[u].exited = rec[u].exited
                           /\ rec'[u].exit_status = rec[u].exit_status
      /\ rec'[c].parent_waiting
      /\ \A u \in Thread : rec[u].parent_waiting => rec'[u].parent_waiting
  BY <1>1, ProcessRecord DEF IInv, TypeOK, ChildRecord
<1>5. Places'
  BY <1>1, <1>3, <1>4, Dealings, ProcessRecord DEF IInv, Places, InExec, InWait
<1>6. Records'
  BY <1>1, <1>3, <1>4, ProcessRecord DEF IInv, Records, Exists
<1>7. Asks' /\ Flagged' /\ Values'
  <2>1. Asks' /\ Values'
    BY <1>1, <1>3, <1>4, ProcessRecord DEF IInv, Asks, Values, Upped, Exists
  <2>2. ASSUME NEW u \in Thread, u # t,
               \/ pc[u] \in {"exec_down", "wait_down"}
               \/ k.wants[u] # NoSema /\ k.wants[u] = WaitSema(child[u])
        PROVE  rec'[child[u]].parent_waiting
    <3>1. rec[child[u]].parent_waiting
      BY <2>2 DEF IInv, Flagged
    <3>2. child[u] \in Thread
      BY <2>2, Dealings, ProcessRecord DEF IInv, Asks, InExec, InWait
    <3> QED
      BY <3>1, <3>2, <1>4
  <2>3. Flagged'
    BY <1>1, <1>3, <1>4, <2>2 DEF Flagged
  <2> QED
    BY <2>1, <2>3
<1>8. Loads' /\ ExecTold'
  <2>1. Loads'
    BY <1>1, <1>3, <1>4, ProcessRecord DEF IInv, Loads, LoadEnded, Loaded, Exists
  <2>2. ExecTold'
    BY <1>1, <1>3, <1>4, Dealings, ProcessRecord
    DEF IInv, ExecTold, LoadEnded, Loaded, Exists, InExec
  <2> QED
    BY <2>1, <2>2
<1>9. Statuses' /\ WaitTold'
  BY <1>1, <1>3, <1>4, Dealings, ProcessRecord
  DEF IInv, Statuses, WaitTold, WaitHonest, InWait
<1>10. Unpreempted'
  BY <1>1, <1>3, <1>4, Dealings, ProcessRecord DEF IInv, Unpreempted, Asks, InExec, InWait
<1> QED
  BY <1>1, <1>2, <1>5, <1>6, <1>7, <1>8, <1>9, <1>10, SameKernel DEF IInv

(* exec answers. *)
LEMMA ExecReturnOK == ASSUME IInv, NEW t \in Thread, ExecReturn(t) PROVE IInv'
<1> DEFINE c == child[t]
           told == IF rec[c].loaded THEN "pid" ELSE "error"
<1>1. /\ t = k.run /\ pc[t] = "exec_return" /\ k.wants[t] = NoSema /\ t # Idle
      /\ t \in Child => ~ rec[t].exited
      /\ c \in Child /\ rec[c].parent = t /\ c # t
      /\ k' = k /\ rec' = rec /\ pc' = [pc EXCEPT ![t] = "user"]
      /\ child' = [child EXCEPT ![t] = NoChild]
      /\ hist' = [hist EXCEPT ![c].exec = told]
  BY Caller DEF ExecReturn, Labels, InExec, Goto
<1>2. t # Main
  BY <1>1 DEF IInv, Places, InWait
<1>3. TypeOK'
  <2>1. told \in {"pid", "error"} /\ hist[c] \in History
    BY <1>1, ProcessRecord DEF IInv, TypeOK
  <2>2. [hist[c] EXCEPT !.exec = told] \in History
    BY <2>1 DEF History
  <2>3. hist' \in [Thread -> History]
    BY <1>1, <2>2 DEF IInv, TypeOK
  <2> QED
    BY <1>1, <2>3 DEF IInv, TypeOK, Labels
<1>4. /\ pc'[t] = "user" /\ child'[t] = NoChild
      /\ \A u \in Thread : u # t => pc'[u] = pc[u] /\ child'[u] = child[u]
  BY <1>1 DEF IInv, TypeOK
<1>5. /\ \A u \in Thread : /\ hist'[u].load = hist[u].load /\ hist'[u].exit = hist[u].exit
                           /\ hist'[u].wait = hist[u].wait
      /\ hist'[c].exec = told
      /\ \A u \in Thread : u # c => hist'[u].exec = hist[u].exec
  BY <1>1, ProcessRecord DEF IInv, TypeOK, History
<1>6. Places'
  BY <1>1, <1>2, <1>4, ProcessRecord DEF IInv, Places, InExec, InWait
<1>7. Records'
  BY <1>1, <1>4, ProcessRecord DEF IInv, Records, Exists
<1>8. Asks' /\ Flagged' /\ Values'
  BY <1>1, <1>4, ProcessRecord DEF IInv, Asks, Flagged, Values, Upped, Exists
<1>9. Loads' /\ ExecTold'
  <2>1. Loads'
    BY <1>1, <1>4, <1>5, ProcessRecord DEF IInv, Loads, LoadEnded, Loaded, Exists
  <2>2. k.project \in {2, 4} => LoadEnded(c) /\ told = (IF Loaded(c) THEN "pid" ELSE "error")
    BY <1>1, ProcessRecord DEF IInv, ExecTold, Loads
  <2>3. ExecTold'
    BY <1>1, <1>4, <1>5, <2>2, Dealings, ProcessRecord
    DEF IInv, ExecTold, LoadEnded, Loaded, Exists, InExec
  <2> QED
    BY <2>1, <2>3
<1>10. Statuses' /\ WaitTold'
  BY <1>1, <1>4, <1>5, Dealings, ProcessRecord, SMTT(20)
  DEF IInv, Statuses, WaitTold, WaitHonest, InWait
<1>11. Unpreempted'
  BY <1>1, <1>4 DEF IInv, Unpreempted
<1> QED
  BY <1>1, <1>3, <1>6, <1>7, <1>8, <1>9, <1>10, <1>11, SameKernel DEF IInv

(* process_wait begins. *)
LEMMA WaitCallOK == ASSUME IInv, NEW t \in Child, NEW c \in Child, Wait(t, c) PROVE IInv'
<1>1. /\ t = k.run /\ pc[t] = "user" /\ k.wants[t] = NoSema /\ t \in Thread
      /\ ~ rec[t].exited /\ Exists(t) /\ rec[c].parent = t
      /\ k' = k /\ rec' = rec /\ hist' = hist /\ pc' = [pc EXCEPT ![t] = "wait"]
      /\ child' = [child EXCEPT ![t] = c]
  BY Caller, ProcessRecord DEF IInv, Wait, Labels, Goto
<1>2. TypeOK'
  BY <1>1 DEF IInv, TypeOK, Labels
<1>3. /\ pc'[t] = "wait" /\ child'[t] = c
      /\ \A u \in Thread : u # t => pc'[u] = pc[u] /\ child'[u] = child[u]
  BY <1>1 DEF IInv, TypeOK
<1>4. Places'
  BY <1>1, <1>3, ProcessRecord, KernelAssumption DEF IInv, Places, InExec, InWait
<1>5. Records'
  BY <1>1, <1>3, ProcessRecord DEF IInv, Records, Exists
<1>6. Asks' /\ Flagged' /\ Values'
  BY <1>1, <1>3, ProcessRecord DEF IInv, Asks, Flagged, Values, Upped, Exists
<1>7. Loads' /\ ExecTold'
  <2>1. Loads'
    BY <1>1, <1>3, ProcessRecord DEF IInv, Loads, LoadEnded, Loaded, Exists
  <2>2. ExecTold'
    BY <1>1, <1>3, Dealings, ProcessRecord
    DEF IInv, ExecTold, LoadEnded, Loaded, Exists, InExec
  <2> QED
    BY <2>1, <2>2
<1>8. Statuses' /\ WaitTold'
  BY <1>1, <1>3 DEF IInv, Statuses, WaitTold, WaitHonest
<1>9. Unpreempted'
  BY <1>1, <1>3 DEF IInv, Unpreempted
<1> QED
  BY <1>1, <1>2, <1>4, <1>5, <1>6, <1>7, <1>8, <1>9, SameKernel DEF IInv

(* process_wait takes the status. *)
LEMMA WaitStatusOK == ASSUME IInv, NEW t \in Thread, WaitStatus(t) PROVE IInv'
<1> DEFINE c == child[t]
           told == IF hist[c].wait = "none" THEN rec[c].exit_status ELSE hist[c].wait
<1>1. /\ t = k.run /\ pc[t] = "wait_status" /\ k.wants[t] = NoSema /\ t # Idle
      /\ t \in Child => ~ rec[t].exited
      /\ c \in Child /\ rec[c].parent = t /\ c # t
      /\ k' = k /\ UNCHANGED <<child, rec>> /\ pc' = [pc EXCEPT ![t] = "wait_reset"]
      /\ hist' = [hist EXCEPT ![c].wait = IF @ = "none" THEN rec[c].exit_status ELSE @]
  BY Caller DEF WaitStatus, Labels, InWait, Goto
<1>2. /\ hist' = [hist EXCEPT ![c].wait = told]
      /\ told \in ExitStatus
      /\ hist[c].wait # "none" => told = hist[c].wait
      /\ hist[c].wait = "none" => told = rec[c].exit_status
  <2>1. rec[c].exit_status \in ExitStatus /\ hist[c].wait \in {"none"} \cup ExitStatus
    BY <1>1, ProcessRecord DEF IInv, TypeOK, ChildRecord, History
  <2> QED
    BY <1>1, <2>1 DEF ExitStatus
<1> HIDE DEF told
<1>3. TypeOK'
  <2>1. hist[c] \in History
    BY <1>1, ProcessRecord DEF IInv, TypeOK
  <2>2. [hist[c] EXCEPT !.wait = told] \in History
    BY <1>2, <2>1 DEF History
  <2>3. hist' \in [Thread -> History]
    BY <1>1, <1>2, <2>2 DEF IInv, TypeOK
  <2> QED
    BY <1>1, <2>3 DEF IInv, TypeOK, Labels
<1>4. /\ pc'[t] = "wait_reset"
      /\ \A u \in Thread : u # t => pc'[u] = pc[u]
  BY <1>1 DEF IInv, TypeOK
<1>5. /\ \A u \in Thread : /\ hist'[u].load = hist[u].load /\ hist'[u].exit = hist[u].exit
                           /\ hist'[u].exec = hist[u].exec
      /\ hist'[c].wait = told /\ told # "none"
      /\ \A u \in Thread : u # c => hist'[u].wait = hist[u].wait
  BY <1>1, <1>2, ProcessRecord DEF IInv, TypeOK, History, ExitStatus
<1>6. Places'
  BY <1>1, <1>4, ProcessRecord DEF IInv, Places, InExec, InWait
<1>7. Records'
  BY <1>1, <1>4, ProcessRecord DEF IInv, Records, Exists
<1>8. Asks' /\ Flagged' /\ Values'
  BY <1>1, <1>4, ProcessRecord DEF IInv, Asks, Flagged, Values, Upped, Exists
<1>9. Loads' /\ ExecTold'
  <2>1. Loads'
    BY <1>1, <1>4, <1>5, ProcessRecord DEF IInv, Loads, LoadEnded, Loaded, Exists
  <2>2. ExecTold'
    BY <1>1, <1>4, <1>5, Dealings, ProcessRecord
    DEF IInv, ExecTold, LoadEnded, Loaded, Exists, InExec
  <2> QED
    BY <2>1, <2>2
<1>10. Statuses'
  BY <1>1, <1>2, <1>4, <1>5, Dealings, ProcessRecord DEF IInv, Statuses, InWait
<1>11. WaitTold'
  <2>1. k.project = 4 => rec[c].exited /\ told = hist[c].exit
    BY <1>1, <1>2, ProcessRecord DEF IInv, WaitTold, WaitHonest, Statuses
  <2> QED
    BY <1>1, <1>4, <1>5, <2>1, ProcessRecord DEF IInv, WaitTold, WaitHonest
<1>12. Unpreempted'
  BY <1>1, <1>4 DEF IInv, Unpreempted
<1> QED
  BY <1>1, <1>3, <1>6, <1>7, <1>8, <1>9, <1>10, <1>11, <1>12, SameKernel DEF IInv

(* process_wait forgets the child and answers. *)
LEMMA WaitResetOK == ASSUME IInv, NEW t \in Thread, WaitReset(t) PROVE IInv'
<1> DEFINE c == child[t]
           l == IF t = Main THEN "power_off" ELSE "user"
<1>1. /\ t = k.run /\ pc[t] = "wait_reset" /\ k.wants[t] = NoSema /\ t # Idle
      /\ t \in Child => ~ rec[t].exited
      /\ c \in Child /\ rec[c].parent = t /\ c # t
      /\ k' = k /\ hist' = hist /\ pc' = [pc EXCEPT ![t] = l]
      /\ child' = [child EXCEPT ![t] = NoChild]
      /\ rec' = [rec EXCEPT ![c].exit_status = "error"]
  BY Caller DEF WaitReset, Labels, InWait, Goto
<1>2. TypeOK'
  <2>1. rec[c] \in ChildRecord
    BY <1>1, ProcessRecord DEF IInv, TypeOK
  <2>2. [rec[c] EXCEPT !.exit_status = "error"] \in ChildRecord
    BY <2>1 DEF ChildRecord, ExitStatus
  <2>3. rec' \in [Thread -> ChildRecord]
    BY <1>1, <2>2 DEF IInv, TypeOK
  <2> QED
    BY <1>1, <2>3 DEF IInv, TypeOK, Labels
<1>3. /\ pc'[t] = l /\ child'[t] = NoChild
      /\ l \in {"power_off", "user"} /\ (t = Main <=> l = "power_off")
      /\ \A u \in Thread : u # t => pc'[u] = pc[u] /\ child'[u] = child[u]
  BY <1>1 DEF IInv, TypeOK
<1>4. /\ \A u \in Thread : /\ rec'[u].parent = rec[u].parent /\ rec'[u].loaded = rec[u].loaded
                           /\ rec'[u].exited = rec[u].exited
                           /\ rec'[u].parent_waiting = rec[u].parent_waiting
      /\ \A u \in Thread : u # c => rec'[u].exit_status = rec[u].exit_status
  BY <1>1, ProcessRecord DEF IInv, TypeOK, ChildRecord
<1>5. Places'
  BY <1>1, <1>3, <1>4, Dealings, ProcessRecord DEF IInv, Places, InExec, InWait, Child
<1>6. Records'
  BY <1>1, <1>3, <1>4, ProcessRecord DEF IInv, Records, Exists
<1>7. Asks' /\ Flagged' /\ Values'
  <2>1. Asks' /\ Values'
    BY <1>1, <1>3, <1>4, ProcessRecord DEF IInv, Asks, Values, Upped, Exists
  <2>2. Flagged'
    BY <1>1, <1>3, <1>4, Dealings, ProcessRecord DEF IInv, Flagged, Asks, InExec, InWait
  <2> QED
    BY <2>1, <2>2
<1>8. Loads' /\ ExecTold'
  <2>1. Loads'
    BY <1>1, <1>3, <1>4, ProcessRecord DEF IInv, Loads, LoadEnded, Loaded, Exists
  <2>2. ExecTold'
    BY <1>1, <1>3, <1>4, Dealings, ProcessRecord
    DEF IInv, ExecTold, LoadEnded, Loaded, Exists, InExec
  <2> QED
    BY <2>1, <2>2
<1>9. Statuses' /\ WaitTold'
  BY <1>1, <1>3, <1>4, Dealings, ProcessRecord
  DEF IInv, Statuses, WaitTold, WaitHonest, InWait
<1>10. Unpreempted'
  BY <1>1, <1>3, <1>4, Dealings, ProcessRecord DEF IInv, Unpreempted, Asks, InExec, InWait
<1> QED
  BY <1>1, <1>2, <1>5, <1>6, <1>7, <1>8, <1>9, <1>10, SameKernel DEF IInv

(* The child has loaded, or failed to, and wakes its parent. *)
LEMMA LoadStepOK ==
  ASSUME IInv, NEW t \in Child, NEW outcome \in {"ok", "failed"}, Load(t, outcome)
  PROVE  IInv'
<1>1. /\ t = k.run /\ pc[t] = "load" /\ k.wants[t] = NoSema /\ t \in Thread
      /\ ~ rec[t].exited /\ Exists(t)
      /\ k' = k /\ UNCHANGED <<child, rec>> /\ pc' = [pc EXCEPT ![t] = "done"]
      /\ hist' = [hist EXCEPT ![t].load = outcome]
  BY Caller, ProcessRecord DEF IInv, Load, Labels, Goto
<1>2. TypeOK'
  <2>1. [hist[t] EXCEPT !.load = outcome] \in History
    BY <1>1 DEF IInv, TypeOK, History
  <2>2. hist' \in [Thread -> History]
    BY <1>1, <2>1 DEF IInv, TypeOK
  <2> QED
    BY <1>1, <2>2 DEF IInv, TypeOK, Labels
<1>3. pc'[t] = "done" /\ \A u \in Thread : u # t => pc'[u] = pc[u]
  BY <1>1 DEF IInv, TypeOK
<1>4. /\ \A u \in Thread : /\ hist'[u].exec = hist[u].exec /\ hist'[u].exit = hist[u].exit
                           /\ hist'[u].wait = hist[u].wait
      /\ hist'[t].load = outcome
      /\ \A u \in Thread : u # t => hist'[u].load = hist[u].load
  BY <1>1 DEF IInv, TypeOK, History
<1>5. Places'
  BY <1>1, <1>3, ProcessRecord DEF IInv, Places, InExec, InWait
<1>6. Records'
  BY <1>1, <1>3, ProcessRecord DEF IInv, Records, Exists
<1>7. Asks' /\ Flagged' /\ Values'
  BY <1>1, <1>3, ProcessRecord DEF IInv, Asks, Flagged, Values, Upped, Exists
<1>8. Loads' /\ ExecTold'
  <2>1. Loads'
    BY <1>1, <1>3, <1>4, ProcessRecord DEF IInv, Loads, LoadEnded, Loaded, Exists
  <2>2. ExecTold'
    BY <1>1, <1>3, <1>4, Dealings, ProcessRecord
    DEF IInv, ExecTold, LoadEnded, Loaded, Exists, InExec
  <2> QED
    BY <2>1, <2>2
<1>9. Statuses' /\ WaitTold'
  BY <1>1, <1>3, <1>4, Dealings, ProcessRecord
  DEF IInv, Statuses, WaitTold, WaitHonest, InWait
<1>10. Unpreempted'
  BY <1>1, <1>3 DEF IInv, Unpreempted
<1> QED
  BY <1>1, <1>2, <1>5, <1>6, <1>7, <1>8, <1>9, <1>10, SameKernel DEF IInv

(* child_loaded is set, before the parent is woken or after. *)
LEMMA DoneSetOK ==
  ASSUME IInv, NEW t \in Child, DoneSet4(t) \/ DoneSet23(t)
  PROVE  IInv'
<1> DEFINE l == IF k.project = 4 THEN "done_up" ELSE IF Loaded(t) THEN "user" ELSE "exit"
<1>1. /\ t = k.run /\ k.wants[t] = NoSema /\ t \in Thread
      /\ ~ rec[t].exited /\ Exists(t)
      /\ IF k.project = 4 THEN pc[t] = "done" ELSE pc[t] = "done_set"
      /\ k' = k /\ UNCHANGED <<child, hist>> /\ pc' = [pc EXCEPT ![t] = l]
      /\ rec' = [rec EXCEPT ![t].loaded = Loaded(t)]
  <2>1. CASE DoneSet4(t)
    BY <2>1, Caller, ProcessRecord DEF IInv, DoneSet4, Labels, Goto
  <2>2. CASE DoneSet23(t)
    <3>1. pc[t] = "done_set" /\ k.project # 4
      BY <2>2, ProcessRecord DEF IInv, DoneSet23, At, Places
    <3> QED
      BY <2>2, <3>1, Caller, ProcessRecord DEF IInv, DoneSet23, Labels, Goto
  <2> QED
    BY <2>1, <2>2
<1>2. TypeOK'
  <2>1. [rec[t] EXCEPT !.loaded = Loaded(t)] \in ChildRecord
    <3>1. rec[t] \in ChildRecord /\ Loaded(t) \in BOOLEAN
      BY <1>1 DEF IInv, TypeOK, Loaded
    <3> QED
      BY <3>1 DEF ChildRecord
  <2>2. rec' \in [Thread -> ChildRecord]
    BY <1>1, <2>1 DEF IInv, TypeOK
  <2> QED
    BY <1>1, <2>2 DEF IInv, TypeOK, Labels
<1>3. /\ pc'[t] = l /\ \A u \in Thread : u # t => pc'[u] = pc[u]
      /\ IF k.project = 4 THEN l = "done_up" ELSE l \in {"user", "exit"}
  BY <1>1 DEF IInv, TypeOK
<1>4. /\ \A u \in Thread : /\ rec'[u].parent = rec[u].parent /\ rec'[u].exited = rec[u].exited
                           /\ rec'[u].exit_status = rec[u].exit_status
                           /\ rec'[u].parent_waiting = rec[u].parent_waiting
      /\ rec'[t].loaded = Loaded(t)
      /\ \A u \in Thread : u # t => rec'[u].loaded = rec[u].loaded
  BY <1>1 DEF IInv, TypeOK, ChildRecord
<1> HIDE DEF l
<1>5. Places'
  BY <1>1, <1>3, <1>4, Dealings, ProcessRecord, KernelAssumption
  DEF IInv, Places, InExec, InWait
<1>6. Records'
  BY <1>1, <1>3, <1>4, ProcessRecord DEF IInv, Records, Exists
<1>7. Asks' /\ Flagged' /\ Values'
  <2>1. Asks'
    BY <1>1, <1>3, <1>4 DEF IInv, Asks
  <2>2. Values'
    BY <1>1, <1>3, <1>4, ProcessRecord DEF IInv, Values, Upped, Exists
  <2>3. Flagged'
    BY <1>1, <1>3, <1>4, Dealings, ProcessRecord DEF IInv, Flagged, Asks, InExec, InWait
  <2> QED
    BY <2>1, <2>2, <2>3
<1>8. Loads' /\ ExecTold'
  <2>1. Loads'
    BY <1>1, <1>3, <1>4, ProcessRecord DEF IInv, Loads, LoadEnded, Loaded, Exists
  <2>2. ExecTold'
    BY <1>1, <1>3, <1>4, Dealings, ProcessRecord
    DEF IInv, ExecTold, LoadEnded, Loaded, Exists, InExec
  <2> QED
    BY <2>1, <2>2
<1>9. Statuses' /\ WaitTold'
  BY <1>1, <1>3, <1>4, Dealings, ProcessRecord
  DEF IInv, Statuses, WaitTold, WaitHonest, InWait
<1>10. Unpreempted'
  BY <1>1, <1>3, <1>4, Dealings, ProcessRecord DEF IInv, Unpreempted, Asks, InExec, InWait
<1> QED
  BY <1>1, <1>2, <1>5, <1>6, <1>7, <1>8, <1>9, <1>10, SameKernel DEF IInv

(* The child exits or is killed. *)
LEMMA LeaveOK ==
  ASSUME IInv, NEW t \in Child, (\E status \in ExitStatus : ExitCall(t, status)) \/ Kill(t)
  PROVE  IInv'
<1>1. PICK status \in ExitStatus :
      /\ t = k.run /\ pc[t] = "user" /\ k.wants[t] = NoSema /\ t \in Thread
      /\ ~ rec[t].exited /\ Exists(t)
      /\ k' = k /\ UNCHANGED <<child, hist>> /\ pc' = [pc EXCEPT ![t] = "exit"]
      /\ rec' = [rec EXCEPT ![t].exit_status = status]
  <2>1. CASE Kill(t)
    <3>1. rec[t] \in ChildRecord /\ rec \in [Thread -> ChildRecord] /\ t \in Thread
      BY ProcessRecord DEF IInv, TypeOK
    <3>2. rec = [rec EXCEPT ![t].exit_status = rec[t].exit_status]
      BY <3>1 DEF ChildRecord
    <3>3. rec[t].exit_status \in ExitStatus
      BY <3>1 DEF ChildRecord
    <3> QED
      BY <2>1, <3>1, <3>2, <3>3, Caller DEF Kill, Labels, Goto
  <2>2. CASE \E status \in ExitStatus : ExitCall(t, status)
    BY <2>2, Caller, ProcessRecord DEF IInv, ExitCall, Labels, Goto
  <2> QED
    BY <2>1, <2>2
<1>2. TypeOK'
  <2>1. [rec[t] EXCEPT !.exit_status = status] \in ChildRecord
    BY <1>1 DEF IInv, TypeOK, ChildRecord
  <2>2. rec' \in [Thread -> ChildRecord]
    BY <1>1, <2>1 DEF IInv, TypeOK
  <2> QED
    BY <1>1, <2>2 DEF IInv, TypeOK, Labels
<1>3. pc'[t] = "exit" /\ \A u \in Thread : u # t => pc'[u] = pc[u]
  BY <1>1 DEF IInv, TypeOK
<1>4. /\ \A u \in Thread : /\ rec'[u].parent = rec[u].parent /\ rec'[u].exited = rec[u].exited
                           /\ rec'[u].loaded = rec[u].loaded
                           /\ rec'[u].parent_waiting = rec[u].parent_waiting
      /\ \A u \in Thread : u # t => rec'[u].exit_status = rec[u].exit_status
  BY <1>1 DEF IInv, TypeOK, ChildRecord
<1>5. Places'
  BY <1>1, <1>3, <1>4, Dealings, ProcessRecord, KernelAssumption
  DEF IInv, Places, InExec, InWait
<1>6. Records'
  BY <1>1, <1>3, <1>4, ProcessRecord DEF IInv, Records, Exists
<1>7. Asks' /\ Flagged' /\ Values'
  <2>1. Asks'
    BY <1>1, <1>3, <1>4 DEF IInv, Asks
  <2>2. Values'
    BY <1>1, <1>3, <1>4, ProcessRecord DEF IInv, Values, Upped, Exists
  <2>3. Flagged'
    BY <1>1, <1>3, <1>4, Dealings, ProcessRecord DEF IInv, Flagged, Asks, InExec, InWait
  <2> QED
    BY <2>1, <2>2, <2>3
<1>8. Loads' /\ ExecTold'
  <2>1. Loads'
    BY <1>1, <1>3, <1>4, ProcessRecord DEF IInv, Loads, LoadEnded, Loaded, Exists
  <2>2. ExecTold'
    BY <1>1, <1>3, <1>4, Dealings, ProcessRecord
    DEF IInv, ExecTold, LoadEnded, Loaded, Exists, InExec
  <2> QED
    BY <2>1, <2>2
<1>9. Statuses' /\ WaitTold'
  BY <1>1, <1>3, <1>4, Dealings, ProcessRecord
  DEF IInv, Statuses, WaitTold, WaitHonest, InWait
<1>10. Unpreempted'
  BY <1>1, <1>3, <1>4, Dealings, ProcessRecord DEF IInv, Unpreempted, Asks, InExec, InWait
<1> QED
  BY <1>1, <1>2, <1>5, <1>6, <1>7, <1>8, <1>9, <1>10, SameKernel DEF IInv

-----------------------------------------------------------------------------
(* The steps that change the kernel and the records together. *)

(* A child is created: its thread was free, and nobody dealt with it yet. *)
Creates(t, c, label) == Create(t, c) /\ pc' = [pc EXCEPT ![t] = label, ![c] = "load"]

(* A child is created, by exec or for main. *)
LEMMA CreateStepOK ==
  ASSUME IInv, NEW t \in Thread, NEW c \in Child, NEW l \in {"exec", "wait"},
         t = k.run, t # Idle, k.wants[t] = NoSema, t = Main => l = "wait",
         pc[t] \in {"run_task", "user"}, Creates(t, c, l)
  PROVE  IInv'
<1>1. /\ rec[c].parent = NoChild /\ k' = ThreadCreate(k, c)
      /\ rec' = [rec EXCEPT ![c] = NewRecord(t)] /\ child' = [child EXCEPT ![t] = c]
      /\ hist' = hist /\ pc' = [pc EXCEPT ![t] = l, ![c] = "load"]
  BY DEF Creates, Create
<1>2. /\ c \in Thread /\ c # t /\ t # NoChild /\ ~ Exists(c) /\ ~ rec[c].exited
      /\ k.status[c] = "NONE" /\ k.wants[c] = NoSema /\ pc[c] = "none"
  <2>1. ~ Exists(c) /\ k.status[c] = "NONE" /\ pc[c] = "none" /\ ~ rec[c].exited
    BY <1>1 DEF Exists, IInv, Records
  <2>2. k.wants[c] = NoSema
    BY <2>1, ProcessRecord DEF IInv, KernelOK, WantsIsLive
  <2> QED
    BY <2>1, <2>2, ProcessRecord DEF IInv
<1>3. KernelOK(k') /\ SameSemaphores(k, k') /\ k'.run = k.run /\ Frame(k, k', {c})
      /\ k'.status = [k.status EXCEPT ![c] = "READY"]
  BY <1>1, <1>2, CreateOK DEF IInv
<1>4. Covered(k')
  BY <1>3, SameCovered DEF IInv
<1>5. /\ k'.run = k.run /\ k'.project = k.project
      /\ k'.value = k.value /\ k'.wants = k.wants
  BY <1>3 DEF SameSemaphores, Frame
<1>6. \A u \in Thread : u # c => k'.status[u] = k.status[u]
  BY <1>3, ProcessRecord DEF IInv
<1>7. hist' = hist
  BY <1>1
<1>8. NewRecord(t) \in ChildRecord
  BY DEF NewRecord, ChildRecord, ExitStatus
<1>9. TypeOK'
  BY <1>1, <1>3, <1>8 DEF IInv, TypeOK, KernelOK, Labels
<1>10. /\ pc'[t] = l /\ pc'[c] = "load" /\ child'[t] = c
       /\ \A u \in Thread : u # t => child'[u] = child[u]
       /\ \A u \in Thread : u # t /\ u # c => pc'[u] = pc[u]
  BY <1>1, <1>2 DEF IInv, TypeOK
<1>11. /\ \A u \in Thread : u # c =>
            /\ rec'[u].parent = rec[u].parent /\ rec'[u].exited = rec[u].exited
            /\ rec'[u].loaded = rec[u].loaded /\ rec'[u].exit_status = rec[u].exit_status
            /\ rec'[u].parent_waiting = rec[u].parent_waiting
       /\ rec'[c].parent = t /\ ~ rec'[c].exited /\ ~ rec'[c].loaded
  BY <1>1, <1>2 DEF IInv, TypeOK, NewRecord
<1>12. \A u \in Thread : u # t /\ child[u] # NoChild => child[u] # c /\ child[u] \in Child
  BY <1>1, ProcessRecord DEF IInv, Places, TypeOK
<1>13. child[t] = NoChild /\ child[c] = NoChild
  BY <1>2 DEF IInv, Places, InExec, InWait
<1>14. Places'
  <2>1. /\ pc'[Idle] = "none" /\ pc'[Main] \in {"run_task", "power_off"} \cup InWait
        /\ \A u \in Child : pc'[u] \notin {"run_task", "power_off"}
    BY <1>10, ProcessRecord, KernelAssumption DEF IInv, Places, InWait
  <2>2. \A u \in Thread : pc'[u] \in InExec \cup InWait <=> child'[u] # NoChild
    BY <1>2, <1>10, <1>13, ProcessRecord DEF IInv, Places, InExec, InWait
  <2>3. \A u \in Thread : child'[u] # NoChild => rec'[child'[u]].parent = u
    BY <1>10, <1>11, <1>12, ProcessRecord DEF IInv, Places
  <2>4. \A u \in Thread : IF k'.project = 4
                         THEN pc'[u] \notin {"exec_flag", "exec_down", "done_set"}
                         ELSE pc'[u] # "done_up"
    BY <1>10, <1>5 DEF IInv, Places
  <2> QED
    BY <2>1, <2>2, <2>3, <2>4 DEF Places
<1>15. Records'
  BY <1>2, <1>5, <1>6, <1>10, <1>11, ProcessRecord DEF IInv, Records, Exists
<1>16. Asks' /\ Values'
  BY <1>2, <1>5, <1>6, <1>10, <1>11, ProcessRecord DEF IInv, Asks, Values, Upped, Exists
<1>17. Flagged'
  BY <1>2, <1>5, <1>6, <1>10, <1>11, <1>12, Dealings, ProcessRecord
  DEF IInv, Flagged, Asks, InExec, InWait
<1>18. Loads'
  BY <1>7, <1>2, <1>5, <1>6, <1>10, <1>11, ProcessRecord
  DEF IInv, Loads, LoadEnded, Loaded, Exists
<1>19. ExecTold'
  BY <1>7, <1>2, <1>5, <1>6, <1>10, <1>11, <1>12, Dealings, ProcessRecord
  DEF IInv, ExecTold, LoadEnded, Loaded, Exists, InExec
<1>20. Statuses' /\ WaitTold'
  BY <1>7, <1>2, <1>5, <1>6, <1>10, <1>11, <1>12, Dealings, ProcessRecord
  DEF IInv, Statuses, WaitTold, WaitHonest, InWait
<1>21. Unpreempted'
  <2>1. ASSUME k.project = 2, NEW u \in Thread, k'.wants[u] # NoSema, rec'[child'[u]].exited
        PROVE  k'.status[u] # "BLOCKED" /\ k'.value[WaitSema(child'[u])] > 0
    <3>1. u # t /\ u # c /\ k.wants[u] # NoSema
      BY <1>2, <1>5, <1>6, <2>1
    <3>2. child'[u] = child[u] /\ child[u] # c /\ child[u] \in Child
      BY <1>10, <1>12, <3>1, Dealings, ProcessRecord DEF IInv, Asks, InExec, InWait
    <3>3. rec'[child[u]].exited = rec[child[u]].exited
      BY <1>11, <3>2, ProcessRecord DEF IInv
    <3> QED
      BY <1>5, <1>6, <2>1, <3>1, <3>2, <3>3 DEF IInv, Unpreempted
  <2>2. ASSUME k.project = 2, NEW u \in Thread,
               pc'[u] \in {"exec", "exec_flag", "exec_down", "wait_flag", "wait_down"}
        PROVE  ~ rec'[child'[u]].exited
    <3>1. CASE u = t
      BY <1>10, <1>11, <3>1
    <3>2. CASE u # t
      <4>1. pc'[u] = pc[u] /\ child'[u] = child[u]
        BY <1>10, <2>2, <3>2
      <4>2. child[u] # c /\ child[u] \in Child
        BY <1>12, <2>2, <3>2, <4>1, Dealings, ProcessRecord DEF IInv, InExec, InWait
      <4> QED
        BY <1>11, <2>2, <4>1, <4>2, ProcessRecord DEF IInv, Unpreempted
    <3> QED
      BY <3>1, <3>2
  <2>3. ASSUME k.project = 2, NEW u \in Thread, u # k'.run
        PROVE  pc'[u] \in {"none", "load", "user"} \/ k'.wants[u] # NoSema
    BY <1>5, <1>6, <1>10, <2>3 DEF IInv, Unpreempted
  <2> QED
    BY <1>5, <1>6, <2>1, <2>2, <2>3 DEF Unpreempted
<1> QED
  BY <1>3, <1>4, <1>9, <1>14, <1>15, <1>16, <1>17, <1>18, <1>19, <1>20, <1>21 DEF IInv

(* A parent downs a semaphore of its child, for the first time or again,    *)
(* and is at label l when it comes out.                                     *)
Downs(t, s, l) ==
  /\ t = k.run /\ pc[t] \in InExec \cup InWait /\ k.wants[t] \in {NoSema, s}
  /\ l = "exec_return" => pc[t] \in InExec
  /\ \/ l = "exec_return" /\ k.project = 4 /\ s = LoadSema(child[t])
     \/ /\ l = "wait_status" \/ (l = "exec_return" /\ k.project # 4)
        /\ s = WaitSema(child[t]) /\ rec[child[t]].parent_waiting
  /\ k.project = 2 /\ k.value[s] = 0 => ~ rec[child[t]].exited
  /\ k' = SemaDown(k, s) /\ pc' = [pc EXCEPT ![t] = l]
  /\ UNCHANGED <<child, rec, hist>>

(* A parent goes down on a child's semaphore. *)
LEMMA DownStepOK ==
  ASSUME IInv, NEW t \in Thread, NEW s, NEW l, Downs(t, s, l)
  PROVE  IInv'
<1> DEFINE c == child[t]
<1>1. /\ k' = SemaDown(k, s) /\ pc' = [pc EXCEPT ![t] = l]
      /\ UNCHANGED <<child, rec, hist>>
  BY DEF Downs
<1>2. /\ rec[c].parent = t /\ Exists(c) /\ c # t /\ t # Idle
      /\ c \in Child /\ s \in Sema /\ s # NoSema /\ c \in Thread
      /\ t \in Child => Exists(t) /\ ~ rec[t].exited
      /\ t = k.run /\ k.wants[t] \in {NoSema, s} /\ pc[t] \in InExec \cup InWait
  <2>1. t # Idle
    BY DEF IInv, Places, InExec, InWait, Downs
  <2>2. t \in Child => Exists(t) /\ ~ rec[t].exited
    BY DEF IInv, Records, InExec, InWait, Downs
  <2>3. c \in Child /\ rec[c].parent = t /\ c # t /\ Exists(c)
    BY Dealings DEF Downs
  <2>4. s \in Sema /\ s # NoSema
    BY <2>3, ProcessRecord, KernelAssumption DEF IInv, Downs
  <2> QED
    BY <2>1, <2>2, <2>3, <2>4, ProcessRecord DEF IInv, Downs
<1>3. /\ \/ l = "exec_return" /\ k.project = 4 /\ s = LoadSema(c)
         \/ l = "exec_return" /\ k.project # 4 /\ s = WaitSema(c)
         \/ l = "wait_status" /\ s = WaitSema(c)
      /\ s = WaitSema(c) => rec[c].parent_waiting
      /\ k.project = 2 /\ k.value[s] = 0 => ~ rec[c].exited
  BY DEF Downs, WaitSema, LoadSema
<1>4. /\ KernelOK(k') /\ Covered(k') /\ Frame(k, k', {})
      /\ \/ /\ k.value[s] = 0
            /\ k'.wants = [k.wants EXCEPT ![t] = s] /\ k'.value = k.value
         \/ /\ k.value[s] > 0 /\ k'.run = k.run /\ k'.status = k.status
            /\ k'.wants = [k.wants EXCEPT ![t] = NoSema]
            /\ k'.value = [k.value EXCEPT ![s] = @ - 1]
  BY <1>1, <1>2, DownOK DEF IInv
<1>5. /\ k'.project = k.project
      /\ \A u \in Thread : k.status[u] = "NONE" => k'.status[u] = "NONE"
      /\ \A u \in Thread : k'.status[u] = "BLOCKED" => k.status[u] = "BLOCKED" \/ u = t
  <2>1. Frame(k, k', {}) /\ t = k.run
    BY <1>2, <1>4
  <2> QED
    BY <2>1 DEF Frame
<1>6. /\ \A u \in Thread : u # t => k'.wants[u] = k.wants[u]
      /\ \A r \in Sema : r # s => k'.value[r] = k.value[r]
      /\ \/ k.value[s] = 0 /\ k'.wants[t] = s /\ k'.value[s] = 0
         \/ /\ k.value[s] > 0 /\ k'.run = k.run
            /\ k'.wants[t] = NoSema /\ k'.value[s] = k.value[s] - 1
  BY <1>2, <1>4, ProcessRecord DEF IInv
<1>7. TypeOK'
  BY <1>1, <1>4, <1>3 DEF IInv, TypeOK, KernelOK, Labels
<1>8. /\ pc'[t] = l /\ \A u \in Thread : u # t => pc'[u] = pc[u]
      /\ child' = child /\ rec' = rec /\ hist' = hist
  BY <1>1 DEF IInv, TypeOK
<1>9. Places'
  <2>1. pc'[Idle] = "none" /\ \A u \in Child : pc'[u] \notin {"run_task", "power_off"}
    BY <1>2, <1>8, <1>3, ProcessRecord, KernelAssumption DEF IInv, Places
  <2>2. pc'[Main] \in {"run_task", "power_off"} \cup InWait
    BY <1>2, <1>8, <1>3, KernelAssumption DEF IInv, Places, InExec, InWait, Downs
  <2>3. \A u \in Thread : pc'[u] \in InExec \cup InWait <=> child'[u] # NoChild
    BY <1>2, <1>8, <1>3, ProcessRecord DEF IInv, Places, InExec, InWait
  <2>4. \A u \in Thread : child'[u] # NoChild => rec'[child'[u]].parent = u
    BY <1>8 DEF IInv, Places
  <2>5. \A u \in Thread : IF k'.project = 4
                         THEN pc'[u] \notin {"exec_flag", "exec_down", "done_set"}
                         ELSE pc'[u] # "done_up"
    BY <1>5, <1>8, <1>3 DEF IInv, Places
  <2> QED
    BY <2>1, <2>2, <2>3, <2>4, <2>5 DEF Places
<1>10. Records'
  BY <1>2, <1>5, <1>8, <1>3, ProcessRecord DEF IInv, Records, Exists, InExec, InWait
<1>11. Asks'
  BY <1>2, <1>3, <1>5, <1>6, <1>8 DEF IInv, Asks
<1>12. Flagged'
  BY <1>3, <1>6, <1>8 DEF IInv, Flagged
<1>13. Values'
  <2>1. \A r \in Sema : k'.value[r] \in Nat /\ k.value[r] \in Nat /\ k'.value[r] <= k.value[r]
    BY <1>2, <1>6, ProcessRecord DEF IInv
  <2>2. \A u \in Child : Upped(u) => Upped(u)'
    BY <1>2, <1>8, <1>3, ProcessRecord DEF IInv, Upped, Exists
  <2>3. \A u \in Child : Upped(u)' => Upped(u)
    BY <1>2, <1>8, <1>3, ProcessRecord DEF IInv, Upped, Exists, InExec, InWait
  <2> QED
    BY <1>5, <1>8, <2>1, <2>2, <2>3, ProcessRecord DEF IInv, Values
<1>14. Loads'
  BY <1>2, <1>8, <1>3, ProcessRecord
  DEF IInv, Loads, LoadEnded, Loaded, Exists, InExec, InWait
<1>15. ExecTold'
  <2>1. k.project \in {2, 4} /\ k.value[s] > 0 /\ l = "exec_return" => LoadEnded(c)
    <3> SUFFICES ASSUME k.project \in {2, 4}, k.value[s] > 0, l = "exec_return"
                 PROVE  LoadEnded(c)
      OBVIOUS
    <3>1. Upped(c)
      BY <1>2, <1>3, ProcessRecord DEF IInv, Values
    <3>2. pc[c] # "done_set"
      BY <1>2, ProcessRecord DEF IInv, Places, Unpreempted, Asks
    <3> QED
      BY <3>1, <3>2 DEF Upped, LoadEnded
  <2>2. \A u \in Child : LoadEnded(u) <=> LoadEnded(u)'
    BY <1>2, <1>8, <1>3, ProcessRecord DEF IInv, LoadEnded, Exists, InExec, InWait
  <2>3. \A u \in Child : Loaded(u)' = Loaded(u)
    BY <1>8 DEF Loaded
  <2>4. k.project \in {2, 4} =>
          \A u \in Thread : pc'[u] = "exec_return" /\ k'.wants[u] = NoSema => LoadEnded(child[u])
    BY <1>2, <1>6, <1>8, <1>3, <2>1, ProcessRecord, KernelAssumption DEF IInv, ExecTold
  <2>5. \A u \in Thread : pc'[u] = "exec_return" => child[u] \in Child
    BY <1>2, <1>8, <1>3, Dealings DEF InExec
  <2>6. k.project \in {2, 4} =>
          \A u \in Thread : pc'[u] = "exec_return" /\ k'.wants[u] = NoSema =>
            LoadEnded(child[u])'
    BY <1>8, <2>2, <2>4, <2>5
  <2> QED
    BY <1>5, <1>8, <2>2, <2>3, <2>6 DEF IInv, ExecTold
<1>16. Statuses'
  BY <1>8, <1>3 DEF IInv, Statuses
<1>17. WaitTold'
  <2>1. k.project = 4 /\ k.value[s] > 0 /\ l = "wait_status" => rec[c].exited
    BY <1>2, <1>3, ProcessRecord DEF IInv, Values
  <2> QED
    BY <1>2, <1>5, <1>6, <1>8, <1>3, <2>1 DEF IInv, WaitTold, WaitHonest
<1>18. Unpreempted'
  <2>1. ASSUME k.project = 2, NEW u \in Thread, u # k'.run
        PROVE  pc'[u] \in {"none", "load", "user"} \/ k'.wants[u] # NoSema
    BY <1>2, <1>6, <1>8, <2>1 DEF IInv, Unpreempted
  <2>2. ASSUME k.project = 2, NEW u \in Thread,
               pc'[u] \in {"exec", "exec_flag", "exec_down", "wait_flag", "wait_down"}
        PROVE  ~ rec[child[u]].exited
    BY <1>8, <1>3, <2>2 DEF IInv, Unpreempted
  <2>3. ASSUME k.project = 2, NEW u \in Thread, k'.wants[u] # NoSema, rec[child[u]].exited
        PROVE  k'.status[u] # "BLOCKED" /\ k'.value[WaitSema(child[u])] > 0
    <3>1. u # t /\ k.wants[u] # NoSema
      BY <1>2, <1>6, <1>3, <2>3
    <3>2. k.status[u] # "BLOCKED" /\ k.value[WaitSema(child[u])] > 0
      BY <2>3, <3>1 DEF IInv, Unpreempted
    <3>3. child[u] \in Child /\ rec[child[u]].parent = u
      BY <3>1, Dealings DEF IInv, Asks, InExec, InWait
    <3>4. WaitSema(child[u]) # s
      BY <1>2, <1>3, <3>1, <3>3 DEF WaitSema, LoadSema
    <3> QED
      BY <1>5, <1>6, <3>1, <3>2, <3>3, <3>4, ProcessRecord DEF IInv
  <2> QED
    BY <1>5, <1>8, <2>1, <2>2, <2>3 DEF Unpreempted
<1> QED
  BY <1>4, <1>7, <1>9, <1>10, <1>11, <1>12, <1>13, <1>14, <1>15, <1>16, <1>17, <1>18
  DEF IInv

(* The end of load: a waiting parent is woken, in Project 4 always. *)
LEMMA LoadUpOK == ASSUME IInv, NEW t \in Child, DoneUp4(t) \/ DoneUp23(t) PROVE IInv'
<1> DEFINE s == IF k.project = 4 THEN LoadSema(t) ELSE WaitSema(t)
<1>1. PICK l \in {"user", "exit", "done_set"} :
      /\ t = k.run /\ k.wants[t] = NoSema /\ t \in Thread /\ s \in Sema
      /\ ~ rec[t].exited /\ Exists(t)
      /\ IF k.project = 4 THEN pc[t] = "done_up" /\ l # "done_set"
                          ELSE pc[t] = "done" /\ l = "done_set"
      /\ pc' = [pc EXCEPT ![t] = l] /\ UNCHANGED <<child, rec, hist>>
      /\ k' = SemaUp(k, s) \/ k' = k
  <2>1. CASE DoneUp4(t)
    <3>1. pc[t] = "done_up" /\ k.project = 4
      BY <2>1, ProcessRecord DEF IInv, DoneUp4, At, Places
    <3> QED
      BY <2>1, <3>1, Caller, ProcessRecord DEF IInv, DoneUp4, Labels, Goto
  <2>2. CASE DoneUp23(t)
    BY <2>2, Caller, ProcessRecord DEF IInv, DoneUp23, Labels, Goto
  <2> QED
    BY <2>1, <2>2
<1>2. /\ KernelOK(k') /\ Covered(k') /\ Frame(k, k', {})
      /\ k'.run = k.run /\ k'.wants = k.wants
      /\ \/ k'.value = k.value
         \/ k'.value = [k.value EXCEPT ![s] = @ + 1]
  <2>1. CASE k' = k
    BY <2>1 DEF IInv, Frame, Live
  <2>2. CASE k' = SemaUp(k, s)
    BY <1>1, <2>2, UpOK DEF IInv
  <2> QED
    BY <1>1, <2>1, <2>2
<1>3. /\ k'.project = k.project
      /\ \A u \in Thread : k.status[u] = "NONE" => k'.status[u] = "NONE"
      /\ \A u \in Thread : k'.status[u] = "BLOCKED" => k.status[u] = "BLOCKED" \/ u = t
  <2>1. Frame(k, k', {}) /\ t = k.run
    BY <1>1, <1>2
  <2> QED
    BY <2>1 DEF Frame
<1>4. /\ \A r \in Sema : r # s => k'.value[r] = k.value[r]
      /\ k'.value[s] \in {k.value[s], k.value[s] + 1} /\ k.value[s] \in Nat
  BY <1>1, <1>2, ProcessRecord DEF IInv
<1>5. TypeOK'
  BY <1>1, <1>2 DEF IInv, TypeOK, KernelOK, Labels
<1>6. /\ pc'[t] = l /\ \A u \in Thread : u # t => pc'[u] = pc[u]
      /\ child' = child /\ rec' = rec /\ hist' = hist
  BY <1>1 DEF IInv, TypeOK
<1>7. /\ IF k.project = 4 THEN s = LoadSema(t) ELSE s = WaitSema(t)
      /\ \A u \in Child : s \in {LoadSema(u), WaitSema(u)} => u = t
  BY DEF LoadSema, WaitSema
<1> HIDE DEF s
<1>8. Places'
  BY <1>1, <1>3, <1>6, ProcessRecord, KernelAssumption DEF IInv, Places, InExec, InWait
<1>9. Records'
  BY <1>1, <1>3, <1>6, ProcessRecord DEF IInv, Records, Exists
<1>10. Asks' /\ Flagged'
  BY <1>1, <1>2, <1>3, <1>6 DEF IInv, Asks, Flagged
<1>11. Values'
  <2>1. ASSUME NEW u \in Child, u # t
        PROVE  /\ ~ Upped(u)' => k'.value[WaitSema(u)] = 0 /\ k'.value[LoadSema(u)] = 0
               /\ ~ rec'[u].exited => k'.value[WaitSema(u)] <= 1 /\ k'.value[LoadSema(u)] <= 1
               /\ k'.project = 4 /\ ~ rec'[u].exited => k'.value[WaitSema(u)] = 0
    <3>1. Upped(u)' = Upped(u)
      BY <1>6, <2>1, ProcessRecord DEF IInv, Upped, Exists
    <3>2. /\ k'.value[WaitSema(u)] = k.value[WaitSema(u)]
          /\ k'.value[LoadSema(u)] = k.value[LoadSema(u)]
      BY <1>4, <1>7, <2>1, ProcessRecord DEF IInv
    <3> QED
      BY <1>3, <1>6, <3>1, <3>2 DEF IInv, Values
  <2>2. k.value[WaitSema(t)] = 0 /\ k.value[LoadSema(t)] = 0
    BY <1>1 DEF IInv, Values, Upped
  <2>3. Upped(t)'
    BY <1>1, <1>6 DEF Upped, Exists
  <2>4. /\ k'.value[WaitSema(t)] <= 1 /\ k'.value[LoadSema(t)] <= 1
        /\ k'.project = 4 => k'.value[WaitSema(t)] = 0
    <3>1. WaitSema(t) # LoadSema(t)
      BY DEF WaitSema, LoadSema
    <3> QED
      BY <1>3, <1>4, <1>7, <2>2, <3>1, ProcessRecord DEF IInv
  <2> QED
    BY <2>1, <2>3, <2>4 DEF Values
<1>12. Loads' /\ ExecTold'
  <2>1. Loads'
    BY <1>1, <1>6, ProcessRecord DEF IInv, Loads, LoadEnded, Loaded, Exists
  <2>2. ExecTold'
    BY <1>1, <1>2, <1>3, <1>6, Dealings, ProcessRecord
    DEF IInv, ExecTold, LoadEnded, Loaded, Exists, InExec
  <2> QED
    BY <2>1, <2>2
<1>13. Statuses' /\ WaitTold'
  BY <1>1, <1>2, <1>3, <1>6 DEF IInv, Statuses, WaitTold, WaitHonest
<1>14. Unpreempted'
  <2>1. \A r \in Sema : k'.value[r] >= k.value[r] /\ k.value[r] \in Nat /\ k'.value[r] \in Nat
    BY <1>4, ProcessRecord DEF IInv
  <2>2. ASSUME k.project = 2, NEW u \in Thread, k.wants[u] # NoSema, rec[child[u]].exited
        PROVE  k'.status[u] # "BLOCKED" /\ k'.value[WaitSema(child[u])] > 0
    <3>1. u # t /\ child[u] \in Child
      BY <1>1, <2>2, Dealings DEF IInv, Asks, InExec, InWait
    <3>2. k.status[u] # "BLOCKED" /\ k.value[WaitSema(child[u])] > 0
      BY <2>2 DEF IInv, Unpreempted
    <3> QED
      BY <1>3, <2>1, <3>1, <3>2, ProcessRecord DEF IInv
  <2>3. ASSUME k.project = 2, NEW u \in Thread, u # k.run
        PROVE  pc'[u] \in {"none", "load", "user"} \/ k.wants[u] # NoSema
    BY <1>1, <1>6, <2>3 DEF IInv, Unpreempted
  <2>4. ASSUME k.project = 2, NEW u \in Thread,
               pc'[u] \in {"exec", "exec_flag", "exec_down", "wait_flag", "wait_down"}
        PROVE  ~ rec[child[u]].exited
    BY <1>1, <1>6, <2>4 DEF IInv, Unpreempted
  <2> QED
    BY <1>2, <1>3, <1>6, <2>2, <2>3, <2>4 DEF Unpreempted
<1> QED
  BY <1>2, <1>5, <1>8, <1>9, <1>10, <1>11, <1>12, <1>13, <1>14 DEF IInv

(* What the death of a child wakes. *)
LEMMA ExitUpsOK ==
  ASSUME IInv, NEW t \in Child, ~ rec[t].exited, NEW u, u = ExitUps(t)
  PROVE  /\ KernelOK(u) /\ Covered(u) /\ Frame(k, u, {})
         /\ u.run = k.run /\ u.wants = k.wants
         /\ \A r \in Sema \ {WaitSema(t), LoadSema(t)} : u.value[r] = k.value[r]
         /\ rec[t].parent_waiting => u.value[WaitSema(t)] > 0
         /\ k.project = 2 /\ rec[t].parent_waiting =>
              \A p \in Thread : ~ Sleeps(u, p, WaitSema(t))
<1>1. /\ KernelOK(k) /\ Covered(k) /\ WaitSema(t) \in Sema /\ LoadSema(t) \in Sema
      /\ k.value \in [Sema -> Nat]
  BY ProcessRecord DEF IInv
<1>2. WaitSema(t) # LoadSema(t)
  BY DEF WaitSema, LoadSema
<1> DEFINE w == SemaUp(k, WaitSema(t))
<1>3. /\ KernelOK(w) /\ Covered(w) /\ Frame(k, w, {}) /\ w.run = k.run /\ w.wants = k.wants
      /\ w.value = [k.value EXCEPT ![WaitSema(t)] = @ + 1]
      /\ WakesOne(k, w, WaitSema(t))
  BY <1>1, UpOK
<1>4. CASE ~ rec[t].parent_waiting
  <2>1. u = k
    BY <1>4 DEF ExitUps
  <2> QED
    BY <1>1, <1>4, <2>1 DEF Frame, Live
<1>5. CASE rec[t].parent_waiting /\ k.project = 4
  <2>1. u = SemaUp(w, LoadSema(t))
    BY <1>5 DEF ExitUps
  <2> HIDE DEF w
  <2>2. /\ KernelOK(u) /\ Covered(u) /\ Frame(w, u, {}) /\ u.run = w.run /\ u.wants = w.wants
        /\ u.value = [w.value EXCEPT ![LoadSema(t)] = @ + 1]
    BY <1>1, <1>3, <2>1, UpOK
  <2>3. Frame(k, u, {} \cup {})
    BY <1>3, <2>2, FrameTrans
  <2>4. Frame(k, u, {})
    BY <2>3
  <2>5. u.value[WaitSema(t)] > 0
    BY <1>1, <1>2, <1>3, <2>2
  <2>6. \A r \in Sema \ {WaitSema(t), LoadSema(t)} : u.value[r] = k.value[r]
    BY <1>1, <1>3, <2>2
  <2> QED
    BY <1>3, <1>5, <2>2, <2>4, <2>5, <2>6
<1>6. CASE rec[t].parent_waiting /\ k.project # 4
  <2>1. u = w
    BY <1>6 DEF ExitUps
  <2> HIDE DEF w
  <2>2. ASSUME NEW p \in Thread, k.project = 2 PROVE ~ Sleeps(u, p, WaitSema(t))
    <3>1. SUFFICES ASSUME Sleeps(u, p, WaitSema(t)) PROVE FALSE
      OBVIOUS
    <3>2. PICK q \in Thread : q # p /\ Sleeps(k, q, WaitSema(t))
      BY <1>3, <2>1, <3>1 DEF WakesOne
    <3>3. k.wants[p] = WaitSema(t) /\ k.wants[q] = WaitSema(t) /\ WaitSema(t) # NoSema
      BY <1>1, <1>3, <2>1, <3>1, <3>2, KernelAssumption DEF Sleeps
    <3>4. ASSUME NEW v \in Thread, k.wants[v] = WaitSema(t) PROVE rec[t].parent = v
      <4>1. child[v] = t
        <5>1. k.wants[v] \in {WaitSema(child[v]), LoadSema(child[v])}
          BY <3>3, <3>4 DEF IInv, Asks
        <5> QED
          BY <3>4, <5>1 DEF WaitSema, LoadSema
      <4> QED
        BY <3>3, <3>4, <4>1, Dealings DEF IInv, Asks, InExec, InWait
    <3> QED
      BY <3>2, <3>3, <3>4
  <2>3. u.value[WaitSema(t)] > 0
    BY <1>1, <1>3, <2>1
  <2>4. \A r \in Sema \ {WaitSema(t), LoadSema(t)} : u.value[r] = k.value[r]
    BY <1>1, <1>3, <2>1
  <2> QED
    BY <1>3, <2>1, <2>2, <2>3, <2>4
<1> QED
  BY <1>4, <1>5, <1>6

(* The child dies: its status is kept, and in Project 2 its parent is awake *)
(* if it was inside the down.                                               *)
LEMMA ExitStepOK == ASSUME IInv, NEW t \in Child, Exit(t) PROVE IInv'
<1> DEFINE e == ExitUps(t)
<1>1. /\ t = k.run /\ pc[t] = "exit" /\ k.wants[t] = NoSema /\ t \in Thread /\ t # Idle
      /\ ~ rec[t].exited /\ Exists(t) /\ child' = child
      /\ pc' = [pc EXCEPT ![t] = "none"] /\ k' = ThreadExit(e)
      /\ rec' = [rec EXCEPT ![t].exited = TRUE]
      /\ hist' = [hist EXCEPT ![t].exit = rec[t].exit_status]
  BY Caller, ProcessRecord DEF IInv, Exit, Labels, Goto
<1>2. /\ KernelOK(e) /\ Covered(e) /\ Frame(k, e, {}) /\ e.run = k.run /\ e.wants = k.wants
      /\ \A r \in Sema \ {WaitSema(t), LoadSema(t)} : e.value[r] = k.value[r]
      /\ rec[t].parent_waiting => e.value[WaitSema(t)] > 0
      /\ k.project = 2 /\ rec[t].parent_waiting =>
           \A p \in Thread : ~ Sleeps(e, p, WaitSema(t))
  BY <1>1, ExitUpsOK
<1> HIDE DEF e
<1>3. KernelOK(k') /\ SameSemaphores(e, k') /\ Frame(e, k', {t})
  BY <1>1, <1>2, ExitOK
<1>4. Covered(k')
  BY <1>2, <1>3, SameCovered
<1>5. /\ k'.project = k.project /\ k'.wants = k.wants /\ k'.value = e.value
      /\ \A u \in Thread : k.status[u] = "NONE" /\ u # t => k'.status[u] = "NONE"
      /\ \A u \in Thread : e.status[u] = "BLOCKED" => k.status[u] = "BLOCKED" \/ u = t
      /\ \A u \in Thread : k'.status[u] = "BLOCKED" => e.status[u] = "BLOCKED" \/ u = t
  <2>1. k'.value = e.value /\ k'.wants = k.wants
    BY <1>2, <1>3 DEF SameSemaphores
  <2>2. Frame(k, e, {}) /\ Frame(e, k', {t}) /\ e.run = t /\ k.run = t
    BY <1>1, <1>2, <1>3
  <2> QED
    BY <2>1, <2>2 DEF Frame
<1>6. TypeOK'
  <2>1. rec[t] \in ChildRecord /\ hist[t] \in History
    BY <1>1 DEF IInv, TypeOK
  <2>2. rec[t].exit_status \in ExitStatus
    BY <2>1 DEF ChildRecord
  <2>3. [rec[t] EXCEPT !.exited = TRUE] \in ChildRecord
    BY <2>1 DEF ChildRecord
  <2>4. [hist[t] EXCEPT !.exit = rec[t].exit_status] \in History
    BY <2>1, <2>2 DEF History
  <2>5. rec' \in [Thread -> ChildRecord]
    BY <1>1, <2>3 DEF IInv, TypeOK
  <2>6. hist' \in [Thread -> History]
    BY <1>1, <2>4 DEF IInv, TypeOK
  <2> QED
    BY <1>1, <1>3, <2>5, <2>6 DEF IInv, TypeOK, KernelOK, Labels
<1>7. pc'[t] = "none" /\ \A u \in Thread : u # t => pc'[u] = pc[u]
  BY <1>1 DEF IInv, TypeOK
<1>8. /\ \A u \in Thread : /\ rec'[u].parent = rec[u].parent /\ rec'[u].loaded = rec[u].loaded
                           /\ rec'[u].exit_status = rec[u].exit_status
                           /\ rec'[u].parent_waiting = rec[u].parent_waiting
      /\ rec'[t].exited
      /\ \A u \in Thread : u # t => rec'[u].exited = rec[u].exited
  BY <1>1 DEF IInv, TypeOK, ChildRecord
<1>9. /\ \A u \in Thread : /\ hist'[u].load = hist[u].load /\ hist'[u].exec = hist[u].exec
                           /\ hist'[u].wait = hist[u].wait
      /\ hist'[t].exit = rec[t].exit_status
      /\ \A u \in Thread : u # t => hist'[u].exit = hist[u].exit
  BY <1>1 DEF IInv, TypeOK, History
<1>10. child' = child
  BY <1>1
<1>11. Places'
  BY <1>1, <1>5, <1>7, <1>8, <1>10, Dealings, ProcessRecord, KernelAssumption
  DEF IInv, Places, InExec, InWait
<1>12. Records'
  BY <1>1, <1>5, <1>7, <1>8, ProcessRecord DEF IInv, Records, Exists
<1>13. Asks'
  BY <1>1, <1>5, <1>7, <1>10 DEF IInv, Asks
<1>14. Flagged'
  BY <1>1, <1>5, <1>7, <1>8, <1>10, Dealings, ProcessRecord
  DEF IInv, Flagged, Asks, InExec, InWait
<1>15. Values'
  <2>1. ASSUME NEW u \in Child, u # t
        PROVE  /\ ~ Upped(u)' => k'.value[WaitSema(u)] = 0 /\ k'.value[LoadSema(u)] = 0
               /\ ~ rec'[u].exited => k'.value[WaitSema(u)] <= 1 /\ k'.value[LoadSema(u)] <= 1
               /\ k'.project = 4 /\ ~ rec'[u].exited => k'.value[WaitSema(u)] = 0
    <3>1. Upped(u)' = Upped(u)
      BY <1>7, <1>8, <2>1, ProcessRecord DEF IInv, Upped, Exists
    <3>2. {WaitSema(u), LoadSema(u)} \subseteq Sema \ {WaitSema(t), LoadSema(t)}
      BY <2>1, ProcessRecord DEF IInv, WaitSema, LoadSema
    <3>3. /\ k'.value[WaitSema(u)] = k.value[WaitSema(u)]
          /\ k'.value[LoadSema(u)] = k.value[LoadSema(u)]
      BY <1>2, <1>5, <3>2
    <3> QED
      BY <1>5, <1>8, <2>1, <3>1, <3>3, ProcessRecord DEF IInv, Values
  <2>2. Upped(t)'
    BY <1>1, <1>7, <1>8 DEF Upped, Exists
  <2> QED
    BY <1>8, <2>1, <2>2 DEF Values
<1>16. Loads'
  BY <1>1, <1>7, <1>8, <1>9, ProcessRecord DEF IInv, Loads, LoadEnded, Loaded, Exists
<1>17. ExecTold'
  BY <1>1, <1>5, <1>7, <1>8, <1>9, <1>10, Dealings, ProcessRecord
  DEF IInv, ExecTold, LoadEnded, Loaded, Exists, InExec
<1>18. Statuses'
  BY <1>1, <1>7, <1>8, <1>9, <1>10, Dealings, ProcessRecord DEF IInv, Statuses, InWait
<1>19. WaitTold'
  BY <1>1, <1>5, <1>7, <1>8, <1>9, <1>10, Dealings, ProcessRecord
  DEF IInv, WaitTold, WaitHonest, InWait
<1>20. Unpreempted'
  <2>1. ASSUME k.project = 2, NEW u \in Thread, k.wants[u] # NoSema, rec'[child[u]].exited
        PROVE  k'.status[u] # "BLOCKED" /\ k'.value[WaitSema(child[u])] > 0
    <3>1. u # t /\ child[u] \in Child /\ rec[child[u]].parent = u
      BY <1>1, <2>1, Dealings DEF IInv, Asks, InExec, InWait
    <3>2. CASE child[u] = t
      <4>1. k.wants[u] = WaitSema(t)
        BY <2>1, <3>2 DEF IInv, Asks
      <4>2. rec[t].parent_waiting
        BY <2>1, <3>2, <4>1 DEF IInv, Flagged
      <4>3. ~ Sleeps(e, u, WaitSema(t)) /\ e.value[WaitSema(t)] > 0
        BY <1>2, <2>1, <4>2
      <4>4. e.status[u] # "BLOCKED"
        BY <1>2, <4>1, <4>3 DEF Sleeps
      <4> QED
        BY <1>5, <3>1, <3>2, <4>3, <4>4
    <3>3. CASE child[u] # t
      <4>1. rec[child[u]].exited
        BY <1>8, <2>1, <3>1, <3>3, ProcessRecord DEF IInv
      <4>2. k.status[u] # "BLOCKED" /\ k.value[WaitSema(child[u])] > 0
        BY <2>1, <4>1 DEF IInv, Unpreempted
      <4>3. WaitSema(child[u]) \in Sema \ {WaitSema(t), LoadSema(t)}
        BY <3>1, <3>3, ProcessRecord DEF IInv, WaitSema, LoadSema
      <4> QED
        BY <1>2, <1>5, <3>1, <4>2, <4>3
    <3> QED
      BY <3>2, <3>3
  <2>2. ASSUME k.project = 2, NEW u \in Thread
        PROVE  pc'[u] \in {"none", "load", "user"} \/ k.wants[u] # NoSema
    BY <1>1, <1>7, <2>2 DEF IInv, Unpreempted
  <2>3. ASSUME k.project = 2, NEW u \in Thread,
               pc'[u] \in {"exec", "exec_flag", "exec_down", "wait_flag", "wait_down"}
        PROVE  FALSE
    BY <1>1, <1>7, <2>3 DEF IInv, Unpreempted, Asks
  <2> QED
    BY <1>5, <1>10, <2>1, <2>2, <2>3 DEF Unpreempted
<1> QED
  BY <1>3, <1>4, <1>6, <1>11, <1>12, <1>13, <1>14, <1>15, <1>16, <1>17, <1>18, <1>19, <1>20
  DEF IInv

-----------------------------------------------------------------------------
(* A parent goes into sema_down. *)
LEMMA ParentDownOK ==
  ASSUME IInv, NEW t \in Thread, ExecDown4(t) \/ ExecDown23(t) \/ WaitDown(t)
  PROVE  IInv'
<1>1. CASE ExecDown4(t)
  <2>1. Downs(t, LoadSema(child[t]), "exec_return")
    BY <1>1, Caller DEF ExecDown4, Downs, Labels, InExec, Goto, IInv, Unpreempted
  <2> QED
    BY <2>1, DownStepOK
<1>2. CASE ExecDown23(t)
  <2>1. k.project # 4
    BY <1>2 DEF ExecDown23, At, IInv, Places
  <2>2. Downs(t, WaitSema(child[t]), "exec_return")
    BY <1>2, <2>1, Caller
    DEF ExecDown23, Downs, Labels, InExec, Goto, IInv, Unpreempted, Flagged
  <2> QED
    BY <2>2, DownStepOK
<1>3. CASE WaitDown(t)
  <2>1. Downs(t, WaitSema(child[t]), "wait_status")
    BY <1>3, Caller
    DEF WaitDown, Downs, Labels, InWait, Goto, IInv, Unpreempted, Flagged
  <2> QED
    BY <2>1, DownStepOK
<1> QED
  BY <1>1, <1>2, <1>3

(* A parent inside sema_down looks at the value again. *)
LEMMA ResumeOK == ASSUME IInv, Resume PROVE IInv'
<1> DEFINE t == k.run
           s == k.wants[t]
<1>1. t \in Thread /\ s # NoSema /\ k' = SemaDown(k, s) /\ UNCHANGED <<pc, child, rec, hist>>
  BY ProcessRecord DEF IInv, Resume, InSemaDown, SemaResume
<1>2. pc' = [pc EXCEPT ![t] = pc[t]]
  BY <1>1 DEF IInv, TypeOK
<1>3. pc[t] \in InExec \cup InWait
  BY <1>1 DEF IInv, Asks, InExec, InWait
<1>4. k.project = 2 /\ k.value[s] = 0 => ~ rec[child[t]].exited
  BY <1>1 DEF IInv, Unpreempted, Asks
<1>5. Downs(t, s, pc[t])
  <2>1. \/ pc[t] = "exec_return" /\ k.project = 4 /\ s = LoadSema(child[t])
        \/ /\ pc[t] = "wait_status" \/ (pc[t] = "exec_return" /\ k.project # 4)
           /\ s = WaitSema(child[t]) /\ rec[child[t]].parent_waiting
    BY <1>1 DEF IInv, Asks, Flagged
  <2> QED
    BY <1>1, <1>2, <1>3, <1>4, <2>1 DEF Downs, InExec
<1> QED
  BY <1>1, <1>5, DownStepOK

(* A process is created. *)
LEMMA CreatesOK ==
  ASSUME IInv,
         \/ \E c \in Child : RunTask(c)
         \/ \E t, c \in Child : Exec(t, c)
  PROVE  IInv'
<1>1. ASSUME NEW c \in Child, RunTask(c) PROVE IInv'
  <2>1. Creates(Main, c, "wait")
    BY <1>1 DEF RunTask, Creates
  <2>2. Main = k.run /\ Main # Idle /\ k.wants[Main] = NoSema /\ pc[Main] = "run_task"
    BY <1>1, Caller, KernelAssumption DEF RunTask, Labels
  <2> QED
    BY <2>1, <2>2, CreateStepOK, KernelAssumption
<1>2. ASSUME NEW t \in Child, NEW c \in Child, Exec(t, c) PROVE IInv'
  <2>1. Creates(t, c, "exec")
    BY <1>2 DEF Exec, Creates
  <2>2. t \in Thread /\ t # Main /\ t = k.run /\ t # Idle /\ k.wants[t] = NoSema /\ pc[t] = "user"
    BY <1>2, Caller DEF Exec, Labels, Child
  <2> QED
    BY <2>1, <2>2, CreateStepOK
<1> QED
  BY <1>1, <1>2

(* Sleeping for the disk, waking from it, the timer, the idle thread. *)
LEMMA SchedulingOK ==
  ASSUME IInv, \/ \E t \in Child : Sleep(t) \/ DiskInterrupt(t)
               \/ Tick \/ IdleLoop
  PROVE  IInv'
<1>1. KernelOK(k) /\ Covered(k) /\ k.run \in Thread
  BY ProcessRecord DEF IInv
<1>2. k.wants[k.run] = NoSema /\ UNCHANGED <<pc, child, rec, hist>>
  BY DEF Sleep, DiskInterrupt, Tick, IdleLoop, InterruptsOn, InSemaDown, At
<1>3. /\ KernelOK(k') /\ SameSemaphores(k, k') /\ Frame(k, k', {})
      /\ k.project = 2 => k'.run = k.run \/ pc[k.run] \in {"none", "load", "user"}
  <2>1. CASE \E t \in Child : Sleep(t)
    <3>1. k' = ThreadBlock(k) /\ pc[k.run] \in {"load", "user"}
      BY <2>1 DEF Sleep, At
    <3> QED
      BY <1>1, <1>2, <3>1, BlockOK
  <2>2. CASE \E t \in Child : DiskInterrupt(t)
    <3>1. PICK t \in Child : t # Idle /\ k.status[t] = "BLOCKED" /\ k.wants[t] = NoSema
                            /\ k' = ThreadUnblock(k, t)
      BY <2>2 DEF DiskInterrupt
    <3> QED
      BY <1>1, <3>1, UnblockOK DEF Child
  <2>3. CASE Tick
    <3>1. k' = ThreadYield(k)
      BY <2>3 DEF Tick
    <3>2. k.run = Idle => pc[k.run] = "none"
      BY DEF IInv, Places
    <3> QED
      BY <1>1, <3>1, <3>2, YieldOK, YieldKeepsCPU
  <2>4. CASE IdleLoop
    <3>1. k' = ThreadBlock(k) /\ pc[k.run] = "none"
      BY <2>4 DEF IdleLoop, IInv, Places
    <3> QED
      BY <1>1, <1>2, <3>1, BlockOK
  <2> QED
    BY <2>1, <2>2, <2>3, <2>4
<1> QED
  BY <1>2, <1>3, KernelStep

(* Each step keeps the invariant. *)
LEMMA NextKeeps == IInv /\ [Next]_vars => IInv'
<1> SUFFICES ASSUME IInv, [Next]_vars PROVE IInv'
  OBVIOUS
<1>1. \A t \in Child : t \in Thread
  BY DEF Child
<1>2. ASSUME NEW t \in Thread, ParentStep(t) PROVE IInv'
  BY <1>2, ParentDownOK, ExecCheck23OK, FlagOK, ExecReturnOK,
     WaitCheckOK, WaitStatusOK, WaitResetOK DEF ParentStep
<1>3. ASSUME NEW t \in Child, ChildStep(t) PROVE IInv'
  BY <1>1, <1>3, LoadStepOK, DoneSetOK, LoadUpOK, ExitStepOK DEF ChildStep, FinishLoad
<1>4. ASSUME NEW t \in Child, UserStep(t) PROVE IInv'
  BY <1>4, CreatesOK, WaitCallOK, LeaveOK DEF UserStep
<1>5. CASE UNCHANGED vars
  <2>1. k' = k /\ pc' = pc /\ child' = child /\ rec' = rec /\ hist' = hist
    BY <1>5 DEF vars
  <2> QED
    BY <2>1
    DEF IInv, TypeOK, Places, Records, Asks, Flagged, Values, Loads, ExecTold, Statuses,
        WaitTold, WaitHonest, Unpreempted, Upped, LoadEnded, Loaded, Exists
<1> QED
  BY <1>2, <1>3, <1>4, <1>5, CreatesOK, SchedulingOK, ResumeOK DEF Next, Halted

(* The invariant holds at every moment. *)
LEMMA SpecIInv == Spec => []IInv
  BY InitOK, NextKeeps, PTL DEF Spec

-----------------------------------------------------------------------------
(* The kernel, the labels, the child_records and what happened to each     *)
(* child keep their types: no step of exec, wait, load or exit writes      *)
(* anything else into them.                                                *)
THEOREM TypeCorrect == Spec => []TypeOK
<1>1. IInv => TypeOK
  BY DEF IInv
<1> QED
  BY SpecIInv, <1>1, PTL

(* The exec of Projects 2 and 4 answers with the child's pid only if its   *)
(* program was loaded, and with -1 only if it was not, whatever the timer  *)
(* and the child do between load's end and exec's look at child_loaded.    *)
THEOREM ExecTellsTheTruth == Spec => []ExecHonestIn2And4
<1>1. IInv => ExecHonestIn2And4
  <2> SUFFICES ASSUME IInv, k.project \in {2, 4}, NEW c \in Child
               PROVE  /\ hist[c].exec = "pid" => hist[c].load = "ok"
                      /\ hist[c].exec = "error" => hist[c].load = "failed"
    BY DEF ExecHonestIn2And4, ExecHonest
  <2>1. hist[c].exec # "none" =>
          hist[c].load # "none" /\ hist[c].exec = (IF Loaded(c) THEN "pid" ELSE "error")
    BY DEF IInv, ExecTold, Loads
  <2>2. hist[c].load \in {"none", "ok", "failed"}
    BY ProcessRecord DEF IInv, TypeOK, History
  <2> QED
    BY <2>1, <2>2 DEF Loaded
<1> QED
  BY SpecIInv, <1>1, PTL

(* The first process_wait of Project 4 for a child returns after its death *)
(* and with the status it died with, however often the parent waits, for   *)
(* this child or for others, and whatever exec did with the semaphores.    *)
THEOREM WaitTellsTheTruth == Spec => []WaitHonestIn4
<1>1. IInv => WaitHonestIn4
  BY DEF IInv, WaitTold, WaitHonestIn4
<1> QED
  BY SpecIInv, <1>1, PTL

(* In Project 2 no parent is asleep on a semaphore of a child that has     *)
(* died: between its look at the child's record and its sema_down nothing  *)
(* else runs.                                                              *)
THEOREM DeadAreNotWaitedFor == Spec => []NeverWaitsForDeadIn2
<1>1. IInv => NeverWaitsForDeadIn2
  <2> SUFFICES ASSUME IInv, k.project = 2, NEW p \in Thread, NEW c \in Child,
                      k.status[p] = "BLOCKED", k.wants[p] \in {WaitSema(c), LoadSema(c)},
                      rec[c].exited
               PROVE  FALSE
    BY DEF NeverWaitsForDeadIn2, NeverWaitsForDead
  <2>1. k.wants[p] # NoSema
    BY ProcessRecord, KernelAssumption DEF IInv
  <2>2. child[p] = c
    BY <2>1 DEF IInv, Asks, WaitSema, LoadSema
  <2> QED
    BY <2>1, <2>2 DEF IInv, Unpreempted
<1> QED
  BY SpecIInv, <1>1, PTL

-----------------------------------------------------------------------------
(* The kernel Threads is made of is the kernel of this module. *)
LEMMA SameOperators ==
  ASSUME NEW j, NEW s, NEW t
  PROVE  /\ T!InSemaDown(j) = InSemaDown(j) /\ T!ThreadCreate(j, t) = ThreadCreate(j, t)
         /\ T!ThreadUnblock(j, t) = ThreadUnblock(j, t)
         /\ T!ThreadBlock(j) = ThreadBlock(j) /\ T!ThreadYield(j) = ThreadYield(j)
         /\ T!ThreadExit(j) = ThreadExit(j) /\ T!SemaDown(j, s) = SemaDown(j, s)
         /\ T!SemaUp(j, s) = SemaUp(j, s) /\ T!SemaResume(j) = SemaResume(j)
         /\ T!Booted(s, t) = Booted(s, t)
<1>1. \A i : T!Schedule(i) = Schedule(i)
  BY DEF T!Schedule, Schedule, T!Reap, Reap, T!NextThreadToRun, NextThreadToRun,
         T!PopBack, PopBack, T!PopFront, PopFront, T!PopMainLast, PopMainLast
<1>2. \A i, u : T!ThreadUnblock(i, u) = ThreadUnblock(i, u)
  BY DEF T!ThreadUnblock, ThreadUnblock
<1>3. \A i : T!ThreadBlock(i) = ThreadBlock(i)
  BY <1>1 DEF T!ThreadBlock, ThreadBlock
<1>4. T!ThreadYield(j) = ThreadYield(j) /\ T!ThreadExit(j) = ThreadExit(j)
  BY <1>1 DEF T!ThreadYield, ThreadYield, T!ThreadExit, ThreadExit
<1>5. T!ThreadCreate(j, t) = ThreadCreate(j, t)
  BY <1>2 DEF T!ThreadCreate, ThreadCreate
<1>6. \A i, r : T!SemaDown(i, r) = SemaDown(i, r)
  BY <1>3 DEF T!SemaDown, SemaDown, T!SemaWait, SemaWait, T!SemaTake, SemaTake
<1>7. T!SemaUp(j, s) = SemaUp(j, s)
  BY <1>2 DEF T!SemaUp, SemaUp, T!SemaWake, SemaWake
<1> QED
  BY <1>2, <1>3, <1>4, <1>5, <1>6, <1>7
  DEF T!InSemaDown, InSemaDown, T!SemaResume, SemaResume, T!Booted, Booted

(* The semaphores' values stay within what Threads bounds them by. *)
LEMMA UpsAreFew ==
  ASSUME IInv, NEW t \in Child, ~ rec[t].exited
  PROVE  k.value[WaitSema(t)] < 2 /\ k.value[LoadSema(t)] < 2
  BY ProcessRecord DEF IInv, Values

(* Initial states are initial states of Threads. *)
LEMMA InitOnThreads == Init => T!Init
<1> SUFFICES ASSUME NEW p \in Projects, k = Booted(p, [s \in Sema |-> 0]) PROVE T!Init
  BY DEF Init
<1>1. [s \in Sema |-> 0] \in [Sema -> 0..2]
  OBVIOUS
<1> QED
  BY <1>1, SameOperators DEF T!Init

(* Each step is a step of Threads or a stutter. *)
LEMMA StepOnThreads == IInv /\ [Next]_vars => [T!Next]_(T!vars)
<1> SUFFICES ASSUME IInv, [Next]_vars PROVE T!Next \/ k' = k
  BY DEF T!vars
<1>1. /\ KernelOK(k) /\ k.run \in Thread
      /\ \A c \in Child : c \in Thread /\ WaitSema(c) \in Sema /\ LoadSema(c) \in Sema
  BY ProcessRecord DEF IInv
<1>2. ASSUME NEW t \in Thread, NEW c \in Child, NEW l, At(t, l), l \in Labels \ {"none"},
             Create(t, c)
      PROVE  T!Next
  <2>1. k.status[c] = "NONE" /\ k' = ThreadCreate(k, c)
    BY <1>2 DEF Create, IInv, Records, Exists
  <2>2. T!InThread
    BY <1>2, Caller, SameOperators DEF T!InThread, T!InterruptsOn, InSemaDown
  <2>3. T!Create(c)
    BY <2>1, <2>2, SameOperators DEF T!Create
  <2> QED
    BY <1>1, <2>3, SameOperators DEF T!Next
<1>3. ASSUME NEW t \in Thread, ExecDown4(t) \/ ExecDown23(t) \/ WaitDown(t) PROVE T!Next
  <2>1. T!InThread /\ child[t] \in Child
    BY <1>3, Caller, SameOperators
    DEF ExecDown4, ExecDown23, WaitDown, InExec, InWait, Labels,
                        T!InThread, T!InterruptsOn, InSemaDown
  <2>2. \E s \in Sema : k' = SemaDown(k, s)
    BY <1>1, <1>3, <2>1 DEF ExecDown4, ExecDown23, WaitDown
  <2> QED
    BY <2>1, <2>2, SameOperators DEF T!Next, T!Down
<1>4. ASSUME NEW t \in Thread, ParentStep(t) PROVE T!Next \/ k' = k
  BY <1>3, <1>4
  DEF ParentStep, ExecCheck23, ExecFlag23, ExecReturn, WaitCheck, WaitFlag, WaitStatus, WaitReset
<1>5. ASSUME NEW t \in Child, DoneUp4(t) \/ DoneUp23(t) PROVE T!Next \/ k' = k
  <2>1. T!InterruptsOn /\ ~ rec[t].exited
    BY <1>1, <1>5, Caller, SameOperators
    DEF DoneUp4, DoneUp23, Labels, T!InterruptsOn, InSemaDown
  <2>2. k' = k \/ \E s \in {WaitSema(t), LoadSema(t)} : k' = SemaUp(k, s)
    BY <1>5 DEF DoneUp4, DoneUp23
  <2> QED
    BY <1>1, <2>1, <2>2, UpsAreFew, SameOperators DEF T!Next, T!Up
<1>6. ASSUME NEW t \in Child, Exit(t) PROVE T!Next
  <2>1. T!InThread /\ ~ rec[t].exited /\ k' = ThreadExit(ExitUps(t))
    BY <1>1, <1>6, Caller, SameOperators
    DEF Exit, Labels, T!InThread, T!InterruptsOn, InSemaDown
  <2>2. /\ k.value[WaitSema(t)] < 2 /\ k.value[LoadSema(t)] < 2
        /\ WaitSema(t) \in Sema /\ LoadSema(t) \in Sema /\ WaitSema(t) # LoadSema(t)
    BY <1>1, <2>1, UpsAreFew DEF WaitSema, LoadSema
  <2>3. CASE ExitUps(t) = k
    BY <2>1, <2>3, SameOperators DEF T!Exit, T!Next
  <2>4. CASE ExitUps(t) = SemaUp(k, WaitSema(t))
    <3>1. T!ExitWaking(WaitSema(t), WaitSema(t))
      BY <2>1, <2>2, <2>4, SameOperators DEF T!ExitWaking
    <3> QED
      BY <2>2, <3>1, SameOperators DEF T!Next
  <2>5. CASE ExitUps(t) = SemaUp(SemaUp(k, WaitSema(t)), LoadSema(t))
    <3>1. T!ExitWaking(WaitSema(t), LoadSema(t))
      BY <2>1, <2>2, <2>5, SameOperators DEF T!ExitWaking
    <3> QED
      BY <2>2, <3>1, SameOperators DEF T!Next
  <2> QED
    BY <2>3, <2>4, <2>5 DEF ExitUps
<1>7. ASSUME NEW t \in Child, ChildStep(t) PROVE T!Next \/ k' = k
  BY <1>5, <1>6, <1>7 DEF ChildStep, FinishLoad, Load, DoneSet4, DoneSet23
<1>8. ASSUME NEW t \in Child, UserStep(t) PROVE T!Next \/ k' = k
  BY <1>1, <1>2, <1>8 DEF UserStep, Exec, Wait, ExitCall, Kill, Labels
<1>9. ASSUME NEW c \in Child, RunTask(c) PROVE T!Next
  BY <1>2, <1>9, KernelAssumption DEF RunTask, Labels
<1>10. ASSUME NEW t \in Child, Sleep(t) PROVE T!Next
  <2>1. T!InThread /\ k' = ThreadBlock(k)
    BY <1>1, <1>10, Caller, SameOperators
    DEF Sleep, Labels, T!InThread, T!InterruptsOn, InSemaDown
  <2> QED
    BY <2>1, SameOperators DEF T!Next, T!Sleep
<1>11. ASSUME NEW t \in Child, DiskInterrupt(t) PROVE T!Next
  BY <1>1, <1>11, SameOperators
  DEF DiskInterrupt, InterruptsOn, InSemaDown, T!InterruptsOn, T!Next, T!Wake
<1>12. CASE Resume
  BY <1>12, SameOperators DEF Resume, T!Resume, T!Next
<1>13. CASE Tick
  BY <1>13, SameOperators DEF Tick, InterruptsOn, T!InterruptsOn, T!Yield, T!Next
<1>14. CASE IdleLoop
  BY <1>14, SameOperators DEF IdleLoop, InterruptsOn, T!InterruptsOn, T!IdleLoop, T!Next
<1> QED
  BY <1>4, <1>7, <1>8, <1>9, <1>10, <1>11, <1>12, <1>13, <1>14 DEF Next, Halted, vars

(* What processes do to the threads and semaphores underneath, Threads     *)
(* allows: the scheduler, the idle thread and every semaphore behave as    *)
(* Threads says, with no semaphore ever upped beyond two.                  *)
THEOREM ProcessesRunOnThreads == Spec => RunsOnThreads
<1>1. IInv /\ [Next]_vars => [T!Next]_(T!vars)
  BY StepOnThreads
<1> QED
  BY InitOnThreads, SpecIInv, <1>1, PTL DEF Spec, RunsOnThreads, T!Spec
=============================================================================
