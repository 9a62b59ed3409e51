--------------------------- MODULE VirtualMemory ---------------------------
(***************************************************************************)
(* Project 3's virtual memory (CS439/Project3/vm and the page fault       *)
(* handler of userprog/exception.c): the frame table and its clock, the   *)
(* supplemental page tables, the swap slots and the page directories, as   *)
(* the processes' faults, accesses and exits change them, one step of one  *)
(* process at a time wherever interrupts are on.                          *)
(*                                                                        *)
(* A page is one unit of data: the eight sectors of a page move in one    *)
(* step.  A content names the process and page it was written to, so that *)
(* data in a foreign page shows.                                          *)
(***************************************************************************)
EXTENDS Integers

CONSTANTS
  Proc,       \* user processes
  NoProc,     \* not a process
  VPage,      \* the pages of a process's address space
  Kind,       \* of each page: "text" (read-only), "data" or "stack"
  Top,        \* the stack page that setup_stack makes
  Word,       \* what a process writes
  Machines    \* the instances: who may run, the frames, the bits of slot_map,
              \* the pages the processes use, whether malloc's blocks may be fresh, that is zero, and
              \* (bound) whether a process is loaded again after its exit

ASSUME VirtualMemoryAssumption ==
  /\ NoProc \notin Proc
  /\ VPage \subseteq Nat \ {0}
  /\ Kind \in [VPage -> {"text", "data", "stack"}]
  /\ Top \in VPage /\ Kind[Top] = "stack"
  /\ 0 \notin Word
  /\ Machines \subseteq [who : SUBSET Proc, frames : Nat \ {0}, slots : Nat,
                   pages : SUBSET VPage, fresh : BOOLEAN, again : BOOLEAN]
  /\ \A m \in Machines, v \in VPage : Kind[v] # "stack" \/ v = Top => v \in m.pages

VARIABLES
  machine,     \* the instance, chosen at boot
  pc,          \* what each process does next
  fault,       \* the page it faulted on and the branch of page_fault
  buf,         \* of a transfer in flight: the frame read to (0: NULL), the slot written
  frame,       \* the frame table: owner and vaddr, or NoPage
  data,        \* what each frame holds
  hand,        \* clock_hand, counted from 1
  frameLock, swapLock,    \* the holders of frame_table_lock and swap_lock
  spt,         \* the supplemental page tables
  pte,         \* the page table entries
  used,        \* the bits set in slot_map
  sdata,       \* what each slot holds
  panic        \* the kernel has stopped

locks == <<frameLock, swapLock>>
frames == <<frame, data, hand>>
swap == <<used, sdata>>
vars == <<machine, pc, fault, buf, frames, locks, spt, pte, swap, panic>>

Content == (Proc \cup {NoProc}) \X (VPage \cup {0}) \X (Word \cup {0})

Junk == <<NoProc, 0, 0>>          \* whatever a frame or a slot held before
Absent == <<>>                    \* the content of a page that is not there
NoPage == <<NoProc, 0>>           \* a frame whose vaddr is NULL
Stored(p, v, x) == <<p, v, x>>
FileData(p, v) == <<p, v, 0>>

Program == {v \in VPage : Kind[v] # "stack"}
Frame == 1..machine.frames
Slot == 1..machine.slots

(* struct spte.  paddr and index are set and cleared together: index 0 is  *)
(* -1 with paddr NULL.  in: there is an entry for the page.                *)
Entry == [in : BOOLEAN, swap : BOOLEAN, slot : 0..machine.slots, index : 0..machine.frames]
NoEntry == [in |-> FALSE, swap |-> FALSE, slot |-> 0, index |-> 0]

(* A page table entry: present, accessed, dirty, frame. *)
Pte == [p : BOOLEAN, a : BOOLEAN, d : BOOLEAN, f : 0..machine.frames]
NoPte == [p |-> FALSE, a |-> FALSE, d |-> FALSE, f |-> 0]

NoFault == [page |-> Top, how |-> "grow"]

Init ==
  /\ machine \in Machines
  /\ pc = [p \in Proc |-> "dead"]
  /\ fault = [p \in Proc |-> NoFault]
  /\ buf = [p \in Proc |-> 0]
  /\ frame = [f \in Frame |-> NoPage]
  /\ data = [f \in Frame |-> Junk]
  /\ hand = 1
  /\ frameLock = NoProc /\ swapLock = NoProc
  /\ spt = [p \in Proc |-> [v \in VPage |-> NoEntry]]
  /\ pte = [p \in Proc |-> [v \in VPage |-> NoPte]]
  /\ used = {}
  /\ sdata = [s \in Slot |-> Junk]
  /\ panic = FALSE

At(p, label) == ~ panic /\ p \in machine.who /\ pc[p] = label

Goto(p, label) == pc' = [pc EXCEPT ![p] = label]

(* No fault is being handled, or that of setup_stack's page. *)
Return(p, label) == Goto(p, label) /\ fault' = [fault EXCEPT ![p] = NoFault]

-----------------------------------------------------------------------------
(* A process is loaded and runs. *)

(* index is not initialised: 0xcc bytes in a recycled block, which is no   *)
(* index, or frame_table's first in a block never used before.             *)
UnsetIndex == IF machine.fresh THEN {0, 1} ELSE {0}

(* add_spte as load_segment calls it, and as setup_stack and               *)
(* check_stack_growth do, whose swap is not initialised either but reset   *)
(* by insert_page before anybody looks.                                    *)
NewEntry(index) == [in |-> TRUE, swap |-> FALSE, slot |-> 0, index |-> index]

(* load: entries for the program's pages and a frame for the first stack   *)
(* page, which setup_stack then fills like a user's writes would.          *)
Start(p) ==
  /\ At(p, "dead")
  /\ \E index \in UnsetIndex :
       spt' = [spt EXCEPT ![p] = [v \in VPage |->
                 IF v \in machine.pages /\ (v \in Program \/ v = Top)
                 THEN NewEntry(index) ELSE NoEntry]]
  /\ Return(p, "lock")
  /\ UNCHANGED <<machine, buf, frames, locks, pte, swap, panic>>

Read(p, v) ==
  /\ At(p, "user") /\ pte[p][v].p
  /\ pte' = [pte EXCEPT ![p][v].a = TRUE]
  /\ UNCHANGED <<machine, pc, fault, buf, frames, locks, spt, swap, panic>>

Write(p, v, x) ==
  /\ At(p, "user") /\ pte[p][v].p /\ Kind[v] # "text"
  /\ pte' = [pte EXCEPT ![p][v].a = TRUE, ![p][v].d = TRUE]
  /\ data' = [data EXCEPT ![pte[p][v].f] = Stored(p, v, x)]
  /\ UNCHANGED <<machine, pc, fault, buf, frame, hand, locks, spt, swap, panic>>

(* page_fault on a page that is not present: which of its branches.  An    *)
(* access out of bounds ends in exit(-1), which is Exit.                   *)
Branch(e, v) ==
  CASE ~ e.in                                  -> "grow"
    [] e.in /\ e.swap                          -> "swap"
    [] e.in /\ ~ e.swap /\ Kind[v] # "stack"   -> "file"
    [] e.in /\ ~ e.swap /\ Kind[v] = "stack"   -> "kill"

Fault(p, v) ==
  /\ At(p, "user") /\ v \in machine.pages /\ ~ pte[p][v].p
  /\ LET how == Branch(spt[p][v], v) IN
       /\ fault' = [fault EXCEPT ![p] = [page |-> v, how |-> how]]
       /\ Goto(p, IF how = "kill" THEN "killed" ELSE "lock")
  /\ spt' = IF spt[p][v].in THEN spt ELSE [spt EXCEPT ![p][v] = NewEntry(0)]
  /\ UNCHANGED <<machine, buf, frames, locks, pte, swap, panic>>

-----------------------------------------------------------------------------
(* insert_page_into_frame, under frame_table_lock. *)

Lock(p) ==
  /\ At(p, "lock") /\ frameLock = NoProc
  /\ frameLock' = p
  /\ Goto(p, "clock")
  /\ UNCHANGED <<machine, fault, buf, frames, swapLock, spt, pte, swap, panic>>

(* Mutant of Advanced: the hand does not wrap around. *)
AdvancedPast(h) == h + 1

Advanced(h) == (h % machine.frames) + 1

PteAt(f) == pte[frame[f][1]][frame[f][2]]

(* One turn of clock_algorithm's loop: a second chance. *)
ClockSkip(p) ==
  /\ At(p, "clock") /\ frame[hand] # NoPage
  /\ PteAt(hand).a
  /\ pte' = [pte EXCEPT ![frame[hand][1]][frame[hand][2]].a = FALSE]
  /\ hand' = Advanced(hand)
  /\ UNCHANGED <<machine, pc, fault, buf, frame, data, locks, spt, swap, panic>>

(* The loop ends at the hand: at an empty frame, or at one not accessed    *)
(* lately, whose page is written to swap if it is a stack page or dirty.   *)
Victim(p) ==
  /\ At(p, "clock")
  /\ \/ frame[hand] = NoPage /\ Goto(p, "insert")
     \/ /\ frame[hand] # NoPage /\ ~ PteAt(hand).a
        /\ Goto(p, IF Kind[frame[hand][2]] = "stack" \/ PteAt(hand).d THEN "out" ELSE "unmap")
  /\ UNCHANGED <<machine, fault, buf, frames, locks, spt, pte, swap, panic>>

(* The lowest slot free. *)
FirstFree == CHOOSE s \in Slot \ used : \A r \in Slot \ used : s <= r

(* Mutant of Flipped: the bit found is not set. *)
FlippedNot(s) == used

Flipped(s) == used \cup {s}

(* mem_to_swap: bitmap_scan_and_flip gives the first slot free; if there is *)
(* none its BITMAP_ERROR is taken for a slot, and block_write panics.      *)
SwapOut(p) ==
  /\ At(p, "out") /\ swapLock = NoProc
  /\ IF used = Slot
     THEN panic' = TRUE /\ UNCHANGED <<pc, buf, swapLock, spt, used>>
     ELSE LET s == FirstFree IN
          /\ used' = Flipped(s)
          /\ spt' = [spt EXCEPT ![frame[hand][1]][frame[hand][2]].slot = s,
                                ![frame[hand][1]][frame[hand][2]].swap = TRUE]
          /\ buf' = [buf EXCEPT ![p] = s]
          /\ swapLock' = p
          /\ Goto(p, "copy")
          /\ panic' = panic
  /\ UNCHANGED <<machine, fault, frames, frameLock, pte, sdata>>

Copy(p) ==
  /\ At(p, "copy")
  /\ sdata' = [sdata EXCEPT ![buf[p]] = data[hand]]
  /\ buf' = [buf EXCEPT ![p] = 0]
  /\ swapLock' = NoProc
  /\ Goto(p, "unmap")
  /\ UNCHANGED <<machine, fault, frames, frameLock, spt, pte, used, panic>>

(* The end of evict_frame.  pagedir_clear_page keeps the other bits of the *)
(* entry, which nobody reads before pagedir_set_page replaces them.        *)
Unmap(p) ==
  /\ At(p, "unmap")
  /\ spt' = [spt EXCEPT ![frame[hand][1]][frame[hand][2]].index = 0]
  /\ pte' = [pte EXCEPT ![frame[hand][1]][frame[hand][2]] = NoPte]
  /\ frame' = [frame EXCEPT ![hand] = NoPage]
  /\ Goto(p, "insert")
  /\ UNCHANGED <<machine, fault, buf, data, hand, locks, swap, panic>>

(* Mutant of IndexOf: the entry gets the hand's next place. *)
IndexOfNext(h) == Advanced(h)

(* The index insert_page stores in the entry. *)
IndexOf(h) == h

(* insert_page, and what insert_page_into_frame does after it.  The slot   *)
(* of a page that is swapped out is remembered, its swap flag is not; the  *)
(* frame holds what it held, which nobody tells apart any more.            *)
Insert(p) ==
  LET v == fault[p].page
      e == spt[p][v]
  IN
  /\ At(p, "insert")
  /\ frame' = [frame EXCEPT ![hand] = <<p, v>>]
  /\ spt' = [spt EXCEPT ![p][v] = [e EXCEPT !.swap = FALSE, !.index = IndexOf(hand),
                                            !.slot = IF e.swap THEN e.slot ELSE 0]]
  /\ pte' = [pte EXCEPT ![p][v] = [p |-> TRUE, a |-> TRUE, d |-> FALSE, f |-> hand]]
  /\ data' = [data EXCEPT ![hand] = Junk]
  /\ hand' = Advanced(hand)
  /\ frameLock' = NoProc
  /\ IF fault[p].how = "grow" THEN Return(p, "user") ELSE Goto(p, "fill") /\ UNCHANGED fault
  /\ UNCHANGED <<machine, buf, swapLock, swap, panic>>

-----------------------------------------------------------------------------
(* The page is mapped, no lock is held, and its data are still to come.    *)
(* The frame they go to is the entry's when the read begins.               *)

FillFromFile(p) ==
  /\ At(p, "fill") /\ fault[p].how = "file"
  /\ buf' = [buf EXCEPT ![p] = spt[p][fault[p].page].index]
  /\ Goto(p, "filling")
  /\ UNCHANGED <<machine, fault, frames, locks, spt, pte, swap, panic>>

FillFromSwap(p) ==
  /\ At(p, "fill") /\ fault[p].how = "swap" /\ swapLock = NoProc
  /\ swapLock' = p
  /\ spt' = [spt EXCEPT ![p][fault[p].page].swap = FALSE]
  /\ buf' = [buf EXCEPT ![p] = spt[p][fault[p].page].index]
  /\ panic' = (spt[p][fault[p].page].slot = 0)      \* no sector of the device
  /\ Goto(p, "filling")
  /\ UNCHANGED <<machine, fault, frames, frameLock, pte, swap>>

(* The data arrive.  A read to NULL faults in the kernel, and exit(-1)     *)
(* ends the process with the locks it holds.                               *)
Arrive(p, content) ==
  /\ data' = IF buf[p] = 0 THEN data ELSE [data EXCEPT ![buf[p]] = content]
  /\ buf' = [buf EXCEPT ![p] = 0]

FilledFromFile(p) ==
  /\ At(p, "filling") /\ fault[p].how = "file"
  /\ Arrive(p, FileData(p, fault[p].page))
  /\ Return(p, IF buf[p] = 0 THEN "killed" ELSE "user")
  /\ UNCHANGED <<machine, frame, hand, locks, spt, pte, swap, panic>>

(* Mutant of FilledFromSwap: swap_lock is not released. *)
FilledFromSwapLocked(p) ==
  LET slot == spt[p][fault[p].page].slot IN
  /\ At(p, "filling") /\ fault[p].how = "swap"
  /\ Arrive(p, sdata[slot])
  /\ used' = used \ {slot}
  /\ sdata' = [sdata EXCEPT ![slot] = Junk]
  /\ Goto(p, "dirty")
  /\ UNCHANGED <<machine, fault, frame, hand, locks, spt, pte, panic>>

FilledFromSwap(p) ==
  LET slot == spt[p][fault[p].page].slot IN
  /\ At(p, "filling") /\ fault[p].how = "swap"
  /\ Arrive(p, sdata[slot])
  /\ used' = IF buf[p] = 0 THEN used ELSE used \ {slot}
  /\ sdata' = IF buf[p] = 0 \/ slot = 0 THEN sdata ELSE [sdata EXCEPT ![slot] = Junk]
  /\ swapLock' = IF buf[p] = 0 THEN swapLock ELSE NoProc
  /\ Goto(p, IF buf[p] = 0 THEN "killed" ELSE "dirty")
  /\ UNCHANGED <<machine, fault, frame, hand, frameLock, spt, pte, panic>>

(* Mutant of SetDirty: the page counts as clean. *)
SetDirtyNot(p) ==
  /\ At(p, "dirty")
  /\ spt' = [spt EXCEPT ![p][fault[p].page].slot = 0]
  /\ Return(p, "user")
  /\ UNCHANGED <<machine, buf, frames, locks, pte, swap, panic>>

(* The end of bring_page_from_swap. *)
SetDirty(p) ==
  /\ At(p, "dirty")
  /\ pte' = [pte EXCEPT ![p][fault[p].page].d = TRUE]
  /\ spt' = [spt EXCEPT ![p][fault[p].page].slot = 0]
  /\ Return(p, "user")
  /\ UNCHANGED <<machine, buf, frames, locks, swap, panic>>

-----------------------------------------------------------------------------
(* thread_exit, with interrupts off: for each entry, in the order they were *)
(* made, free_swap if it is in swap, then free_page, which waits for        *)
(* frame_table_lock.  If that is free nothing else runs until all is done.  *)

(* Mutant of SwapBits: free_swap is not called. *)
SwapBitsKept(p, vs) == {}

SwapBits(p, vs) == {spt[p][v].slot : v \in {v \in vs : spt[p][v].in /\ spt[p][v].swap}}

Indexes(p) == {spt[p][v].index : v \in {v \in VPage : spt[p][v].in}} \ {0}

(* The entries, their frames and, in process_exit, the page directory. *)
FreePages(p) ==
  /\ frame' = [f \in Frame |-> IF f \in Indexes(p) THEN NoPage ELSE frame[f]]
  /\ pte' = [pte EXCEPT ![p] = [v \in VPage |-> NoPte]]
  /\ spt' = [spt EXCEPT ![p] = [v \in VPage |-> NoEntry]]
  /\ Goto(p, IF machine.again THEN "dead" ELSE "gone")

Exit(p) ==
  /\ At(p, "user") \/ At(p, "killed")
  /\ frameLock = NoProc
  /\ used' = used \ SwapBits(p, VPage)
  /\ FreePages(p)
  /\ UNCHANGED <<machine, fault, buf, data, hand, locks, sdata, panic>>

(* The page of the first entry made: the lowest one of the program. *)
FirstPage(p) ==
  LET there == {v \in VPage : spt[p][v].in}
      first == IF there \cap Program # {} THEN there \cap Program ELSE there
  IN  CHOOSE v \in first : \A w \in first : v <= w

(* If the lock is held the first entry's swap flag has been looked at       *)
(* before the wait.                                                        *)
ExitWaits(p) ==
  /\ At(p, "user") \/ At(p, "killed")
  /\ frameLock # NoProc
  /\ used' = used \ SwapBits(p, {FirstPage(p)})
  /\ Goto(p, "exiting")
  /\ UNCHANGED <<machine, fault, buf, frames, locks, spt, pte, sdata, panic>>

ExitResumes(p) ==
  /\ At(p, "exiting") /\ frameLock = NoProc
  /\ used' = used \ SwapBits(p, VPage \ {FirstPage(p)})
  /\ FreePages(p)
  /\ UNCHANGED <<machine, fault, buf, data, hand, locks, sdata, panic>>

-----------------------------------------------------------------------------
KernelStep(p) ==
  \/ Lock(p) \/ ClockSkip(p) \/ Victim(p) \/ SwapOut(p) \/ Copy(p) \/ Unmap(p) \/ Insert(p)
  \/ FillFromFile(p) \/ FilledFromFile(p)
  \/ FillFromSwap(p) \/ FilledFromSwap(p) \/ SetDirty(p)
  \/ ExitResumes(p)

UserStep(p) ==
  \/ Start(p) \/ Exit(p) \/ ExitWaits(p)
  \/ \E v \in VPage : Read(p, v) \/ Fault(p, v) \/ \E x \in Word : Write(p, v, x)

(* Every process has exited, or the kernel has panicked. *)
Stopped ==
  /\ panic \/ \A p \in machine.who : pc[p] = "gone"
  /\ UNCHANGED vars

Next == (\E p \in Proc : KernelStep(p) \/ UserStep(p)) \/ Stopped

Spec == Init /\ [][Next]_vars

-----------------------------------------------------------------------------
TypeOK ==
  /\ machine \in Machines
  /\ pc \in [Proc -> {"dead", "gone", "user", "killed", "lock", "clock", "out", "copy", "unmap",
                      "insert", "fill", "filling", "dirty", "exiting"}]
  /\ fault \in [Proc -> [page : VPage, how : {"grow", "swap", "file", "kill"}]]
  /\ buf \in [Proc -> 0..machine.frames \cup 0..machine.slots]
  /\ frame \in [Frame -> (Proc \X VPage) \cup {NoPage}]
  /\ data \in [Frame -> Content]
  /\ hand \in Frame
  /\ frameLock \in Proc \cup {NoProc} /\ swapLock \in Proc \cup {NoProc}
  /\ spt \in [Proc -> [VPage -> Entry]]
  /\ pte \in [Proc -> [VPage -> Pte]]
  /\ used \subseteq Slot
  /\ sdata \in [Slot -> Content]
  /\ panic \in BOOLEAN

(* The frame table, the page tables and the supplemental tables say the    *)
(* same: a mapped page is in the one frame that names it, at its entry's   *)
(* index, so that no frame is two pages' and none in use counts as free.   *)
FramesAgree ==
  \A p \in Proc, v \in VPage :
    /\ pte[p][v].p => /\ frame[pte[p][v].f] = <<p, v>>
                      /\ spt[p][v].in /\ spt[p][v].index = pte[p][v].f
    /\ \A f \in Frame : frame[f] = <<p, v>> => pte[p][v].p /\ pte[p][v].f = f

(* The page's data are on their way from where its entry says they are. *)
InFlight(p, v) == fault[p].page = v /\ pc[p] \in {"fill", "filling"}

InSwap(p, v) == spt[p][v].swap \/ (InFlight(p, v) /\ fault[p].how = "swap")

Alone == \E p \in Proc : machine.who = {p}

SwappedOut ==
  {g \in Proc \X VPage :
     pc[g[1]] # "exiting" /\ spt[g[1]][g[2]].in /\ InSwap(g[1], g[2])}

SlotOf(g) == spt[g[1]][g[2]].slot

(* A page in swap has a slot of its own, which is not free while its       *)
(* process lives; when the machine runs one process no other slot is taken. *)
SlotsOwned ==
  /\ \A g, h \in SwappedOut : SlotOf(g) = SlotOf(h) => g = h
  /\ \A g \in SwappedOut : SlotOf(g) \in used
  /\ Alone => used \subseteq {SlotOf(g) : g \in SwappedOut}

(* What process p has in page v, wherever it is at the moment. *)
PageContent(p, v) ==
  LET e == spt[p][v]
      t == pte[p][v]
  IN  CASE pc[p] \in {"dead", "gone", "exiting"} \/ ~ e.in -> Absent
        [] OTHER -> IF t.p /\ ~ InFlight(p, v) THEN data[t.f]
                    ELSE IF InSwap(p, v) /\ e.slot # 0 THEN sdata[e.slot]
                    ELSE IF v \in Program THEN FileData(p, v) ELSE Absent

(* Whenever a process is in the kernel some process there can go on: no    *)
(* lock stays held by a process that waits for another, or has gone.       *)
KernelMoves ==
  ~ panic /\ (\E p \in machine.who : pc[p] \notin {"dead", "gone", "user", "killed"})
    => \E p \in machine.who : ENABLED KernelStep(p)

M == INSTANCE Memory WITH mem <- [p \in Proc |-> [v \in VPage |-> PageContent(p, v)]]

MemoryKept == M!MSpec

MemoryKeptAlone == M!MInit /\ [][Alone => M!MNext]_(M!mvars)

(* With several processes one thing only changes a page behind its owner's *)
(* back: another's eviction of it, which may lose what the owner wrote     *)
(* since the copy, never bring in another page's data.                     *)
Lost(p, v) ==
  /\ pte[p][v].p /\ \E q \in Proc \ {p} : Unmap(q)
  /\ PageContent(p, v)' \in {FileData(p, v)} \cup {Stored(p, v, x) : x \in Word}
                               \cup (IF v \in Program THEN {} ELSE {Junk})

PagesKept ==
  [][\A p \in Proc, v \in VPage :
       PageContent(p, v)' # PageContent(p, v) =>
         \/ \E x \in Word : Write(p, v, x)
         \/ Absent \in {PageContent(p, v), PageContent(p, v)'}
         \/ Lost(p, v)]_vars
=============================================================================
