-------------------------- MODULE VirtualMemoryProofs --------------------------
(***************************************************************************)
(* What holds of src/CS439/Project3/vm and the page fault handler for any  *)
(* number of processes, pages, frames and slots.                           *)
(*                                                                        *)
(* For several processes: Base (types, who holds frame_table_lock and      *)
(* swap_lock, who is where in a fault, and that a frame's page is mapped   *)
(* there) and, on top of it, Mapped (a mapped page is in its frame, and a  *)
(* page with an index is mapped, which is what exit relies on).            *)
(* For a process alone: Steady, which says of each page where its data are *)
(* in every phase of a fault, so that no step loses or changes them.       *)
(***************************************************************************)
EXTENDS VirtualMemory, NaturalsInduction, WellFoundedInduction, TLAPS

----------------------------------------------------------------------------
(* The inductive invariant for any number of processes *)

\* A table with an element of S for each page of each process.
Pages(S) == [Proc -> [VPage -> S]]

\* The page table entry of page v of p becomes e, no other changes.
PteSet(p, v, e) ==
  /\ pte' \in Pages(Pte) /\ pte'[p][v] = e
  /\ \A q \in Proc, w \in VPage : q # p \/ w # v => pte'[q][w] = pte[q][w]

\* The same for the supplemental page tables.
SptSet(p, v, e) ==
  /\ spt' \in Pages(Entry) /\ spt'[p][v] = e
  /\ \A q \in Proc, w \in VPage : q # p \/ w # v => spt'[q][w] = spt[q][w]

\* Process p is in insert_page_into_frame's critical section.
InClock(p) == pc[p] \in {"clock", "out", "copy", "unmap", "insert"}

\* frame_table_lock is held by whoever is between its acquire and release;
\* the frame at the hand is a page's until it is evicted and empty after.
Hands ==
  \A p \in Proc :
    /\ InClock(p) <=> frameLock = p
    /\ pc[p] \in {"out", "copy", "unmap"} => frame[hand] # NoPage
    /\ pc[p] = "insert" => frame[hand] = NoPage

\* swap_lock is held through a transfer, whose slot or page is known.
Transfers ==
  \A p \in Proc :
    /\ pc[p] = "copy" => swapLock = p /\ buf[p] \in Slot
    /\ pc[p] = "filling" => fault[p].how \in {"file", "swap"}
    /\ pc[p] = "filling" /\ fault[p].how = "swap" =>
         swapLock = p /\ (panic \/ spt[p][fault[p].page].slot # 0)

\* Who does not run has nothing; a page asked for has an entry and is not
\* mapped before insert_page maps it.
Asked ==
  \A p \in Proc :
    /\ p \notin machine.who => pc[p] = "dead"
    /\ pc[p] \in {"dead", "gone"} => \A v \in VPage : spt[p][v] = NoEntry /\ pte[p][v] = NoPte
    /\ pc[p] = "lock" \/ InClock(p) => spt[p][fault[p].page].in /\ ~ pte[p][fault[p].page].p

\* The page a frame names is mapped to that frame, and its entry knows it.
Named ==
  \A p \in Proc, v \in VPage, f \in Frame :
    frame[f] = <<p, v>> => /\ pte[p][v].p /\ pte[p][v].f = f
                           /\ spt[p][v].in /\ spt[p][v].index = f

\* The first part of the invariant, inductive by itself.
Base == TypeOK /\ Hands /\ Transfers /\ Asked /\ Named

----------------------------------------------------------------------------
(* Operators and updates *)

\* A non-empty set of natural numbers has a least one.
LEMMA NatMin ==
  ASSUME NEW T \in SUBSET Nat, T # {}
  PROVE  \E n \in T : \A m \in T : ~ (m < n)
<1>1. \E n \in T : \A m \in T : ~ (<<m, n>> \in OpToRel(<, Nat))
  BY NatLessThanWellFounded, WFMin
<1> QED BY <1>1 DEF OpToRel

\* What TypeOK says of the instance and the tables.
LEMMA Sizes ==
  ASSUME TypeOK
  PROVE  /\ machine.frames \in Nat \ {0} /\ machine.slots \in Nat
         /\ machine.who \subseteq Proc /\ machine.pages \subseteq VPage
         /\ machine.fresh \in BOOLEAN /\ machine.again \in BOOLEAN
         /\ hand \in Nat
         /\ spt \in Pages(Entry) /\ pte \in Pages(Pte)
         /\ NoPte \in Pte /\ NoEntry \in Entry
<1>1. /\ machine.frames \in Nat \ {0} /\ machine.slots \in Nat
      /\ machine.who \subseteq Proc /\ machine.pages \subseteq VPage
      /\ machine.fresh \in BOOLEAN /\ machine.again \in BOOLEAN
  BY VirtualMemoryAssumption DEF TypeOK
<1>2. spt \in Pages(Entry) /\ pte \in Pages(Pte)
  BY DEF TypeOK, Pages
<1>3. hand \in Nat
  BY <1>1 DEF TypeOK, Frame
<1>4. NoPte \in Pte /\ NoEntry \in Entry
  BY <1>1 DEF NoPte, Pte, NoEntry, Entry
<1> QED BY <1>1, <1>2, <1>3, <1>4

\* An update of one page table entry, as PteSet.
LEMMA PteUpdate ==
  ASSUME TypeOK, NEW p \in Proc, NEW v \in VPage, NEW e \in Pte,
         pte' = [pte EXCEPT ![p][v] = e], machine' = machine
  PROVE  PteSet(p, v, e)
<1>1. pte \in Pages(Pte)
  BY Sizes
<1>2. /\ pte' \in Pages(Pte)
      /\ \A q \in Proc, w \in VPage : pte'[q][w] = IF q = p /\ w = v THEN e ELSE pte[q][w]
  BY <1>1 DEF Pages
<1> QED BY <1>2 DEF PteSet

\* An update of one supplemental entry, as SptSet.
LEMMA SptUpdate ==
  ASSUME TypeOK, NEW p \in Proc, NEW v \in VPage, NEW e \in Entry,
         spt' = [spt EXCEPT ![p][v] = e], machine' = machine
  PROVE  SptSet(p, v, e)
<1>1. spt \in Pages(Entry)
  BY Sizes
<1>2. /\ spt' \in Pages(Entry)
      /\ \A q \in Proc, w \in VPage : spt'[q][w] = IF q = p /\ w = v THEN e ELSE spt[q][w]
  BY <1>1 DEF Pages
<1> QED BY <1>2 DEF SptSet

\* clock_hand stays in the frame table.
LEMMA Advances ==
  ASSUME TypeOK
  PROVE  Advanced(hand) \in Frame
<1>1. machine.frames \in Nat \ {0} /\ hand \in 1 .. machine.frames
  BY Sizes DEF TypeOK, Frame
<1> QED BY <1>1 DEF Advanced, Frame

\* A frame that is not empty names a page of a process.
LEMMA HandPage ==
  ASSUME TypeOK, frame[hand] # NoPage
  PROVE  \E p \in Proc, v \in VPage :
           frame[hand] = <<p, v>> /\ frame[hand][1] = p /\ frame[hand][2] = v
  BY DEF TypeOK

\* Where a process may be.
Labels == {"dead", "gone", "user", "killed", "lock", "clock", "out", "copy", "unmap",
           "insert", "fill", "filling", "dirty", "exiting"}

\* What Goto does to pc.
LEMMA Moves ==
  ASSUME TypeOK, NEW p \in Proc, NEW label \in Labels, Goto(p, label)
  PROVE  /\ pc' \in [Proc -> Labels] /\ pc'[p] = label
         /\ \A q \in Proc : q # p => pc'[q] = pc[q]
  BY DEF TypeOK, Goto, Labels

\* What Return does to pc and fault.
LEMMA Returns ==
  ASSUME TypeOK, NEW p \in Proc, NEW label \in Labels, Return(p, label)
  PROVE  /\ pc' \in [Proc -> Labels] /\ pc'[p] = label
         /\ \A q \in Proc : q # p => pc'[q] = pc[q]
         /\ fault' \in [Proc -> [page : VPage, how : {"grow", "swap", "file", "kill"}]]
         /\ fault'[p] = NoFault /\ \A q \in Proc : q # p => fault'[q] = fault[q]
<1>1. NoFault \in [page : VPage, how : {"grow", "swap", "file", "kill"}]
  BY VirtualMemoryAssumption DEF NoFault
<1>2. Goto(p, label) /\ fault' = [fault EXCEPT ![p] = NoFault]
  BY DEF Return
<1> QED BY <1>1, <1>2, Moves DEF TypeOK

\* The page faulted on is a page, its branch one of page_fault's.
LEMMA FaultPage ==
  ASSUME TypeOK, NEW p \in Proc
  PROVE  fault[p].page \in VPage /\ fault[p].how \in {"grow", "swap", "file", "kill"}
  BY DEF TypeOK

----------------------------------------------------------------------------
(* Each step keeps Base *)

\* Read keeps Base; its effect.
LEMMA ReadBase ==
  ASSUME Base, NEW p \in Proc, NEW v \in VPage, Read(p, v)
  PROVE  Base' /\ PteSet(p, v, [pte[p][v] EXCEPT !.a = TRUE])
<1>1. /\ pc[p] = "user" /\ p \in machine.who /\ pte[p][v].p
      /\ pte' = [pte EXCEPT ![p][v] = [pte[p][v] EXCEPT !.a = TRUE]]
      /\ UNCHANGED <<machine, pc, fault, buf, frames, locks, spt, swap, panic>>
  BY DEF Read, At
<1>2. pte[p][v] \in Pte
  BY DEF Base, TypeOK
<1> DEFINE e == [pte[p][v] EXCEPT !.a = TRUE]
<1>3. e \in Pte /\ e.p = TRUE
  BY <1>1, <1>2 DEF Pte
<1> HIDE DEF e
<1>4. PteSet(p, v, e)
  BY <1>1, <1>3, PteUpdate DEF Base, e
<1>5. TypeOK'
  BY <1>1, <1>4
  DEF Base, TypeOK, PteSet, Pages, frames, locks, swap, Frame, Slot, Entry, Pte
<1>6. Hands' /\ Transfers'
  BY <1>1 DEF Base, Hands, InClock, Transfers, frames, locks, Slot
<1>7. Asked'
  BY <1>1, <1>3, <1>4 DEF Base, Asked, PteSet, InClock
<1>8. Named'
  BY <1>1, <1>2, <1>4 DEF Base, Named, PteSet, frames, Frame, Pte, e
<1> QED BY <1>4, <1>5, <1>6, <1>7, <1>8 DEF Base, e

\* Write keeps Base; its effect.
LEMMA WriteBase ==
  ASSUME Base, NEW p \in Proc, NEW v \in VPage, NEW x \in Word, Write(p, v, x)
  PROVE  Base' /\ PteSet(p, v, [pte[p][v] EXCEPT !.a = TRUE, !.d = TRUE])
<1>1. /\ pc[p] = "user" /\ p \in machine.who /\ pte[p][v].p
      /\ pte' = [pte EXCEPT ![p][v] = [pte[p][v] EXCEPT !.a = TRUE, !.d = TRUE]]
      /\ UNCHANGED <<machine, pc, fault, buf, frame, hand, locks, spt, swap, panic>>
      /\ data' = [data EXCEPT ![pte[p][v].f] = Stored(p, v, x)]
  BY DEF Write, At
<1>2. pte[p][v] \in Pte
  BY DEF Base, TypeOK
<1> DEFINE e1 == [pte[p][v] EXCEPT !.a = TRUE]
           e == [pte[p][v] EXCEPT !.a = TRUE, !.d = TRUE]
<1>3. e \in Pte /\ e.p = TRUE
  <2>1. e1 \in Pte /\ e1.p = TRUE
    BY <1>1, <1>2 DEF Pte
  <2>2. e = [e1 EXCEPT !.d = TRUE]
    BY <1>2 DEF Pte
  <2> HIDE DEF e1, e
  <2> QED BY <2>1, <2>2 DEF Pte
<1> HIDE DEF e
<1>4. PteSet(p, v, e)
  BY <1>1, <1>3, PteUpdate DEF Base, e
<1>5. data' \in [Frame -> Content]
  <2>1. Stored(p, v, x) \in Content
    BY DEF Stored, Content
  <2> QED BY <1>1, <2>1 DEF Base, TypeOK
<1>6. TypeOK'
  BY <1>1, <1>4, <1>5 DEF Base, TypeOK, PteSet, Pages, locks, swap, Frame, Slot, Entry, Pte
<1>7. Hands' /\ Transfers'
  BY <1>1 DEF Base, Hands, InClock, Transfers, locks, Slot
<1>8. Asked'
  BY <1>1, <1>3, <1>4 DEF Base, Asked, PteSet, InClock
<1>9. Named'
  <2>1. e.f = pte[p][v].f
    BY <1>2 DEF Pte, e
  <2> QED BY <1>1, <1>3, <1>4, <2>1 DEF Base, Named, PteSet, Frame
<1> QED BY <1>4, <1>6, <1>7, <1>8, <1>9 DEF Base, e

\* Start keeps Base; its effect.
LEMMA StartBase ==
  ASSUME Base, NEW p \in Proc, Start(p)
  PROVE  /\ Base'
         /\ \E index \in UnsetIndex :
              /\ index \in 0 .. 1 /\ (machine.fresh \/ index = 0)
              /\ \A v \in VPage :
                   spt'[p][v] = IF v \in machine.pages /\ (v \in Program \/ v = Top)
                                THEN NewEntry(index) ELSE NoEntry
         /\ \A q \in Proc, v \in VPage : q # p => spt'[q][v] = spt[q][v]
<1>1. /\ pc[p] = "dead" /\ p \in machine.who /\ Return(p, "lock")
      /\ UNCHANGED <<machine, buf, frames, locks, pte, swap, panic>>
  BY DEF Start, At
<1>2. PICK index \in UnsetIndex :
        spt' = [spt EXCEPT ![p] = [v \in VPage |->
                 IF v \in machine.pages /\ (v \in Program \/ v = Top)
                 THEN NewEntry(index) ELSE NoEntry]]
  BY DEF Start
<1>3. index \in 0 .. 1 /\ (machine.fresh \/ index = 0)
  BY DEF UnsetIndex
<1>4. NewEntry(index) \in Entry /\ NoEntry \in Entry /\ NewEntry(index).in
  BY <1>3, Sizes DEF NewEntry, Entry, Base, NoEntry
<1> DEFINE E(v) == IF v \in machine.pages /\ (v \in Program \/ v = Top)
                   THEN NewEntry(index) ELSE NoEntry
<1>5. \A v \in VPage : E(v) \in Entry
  BY <1>4
<1>6. /\ spt' \in Pages(Entry) /\ \A v \in VPage : spt'[p][v] = E(v)
      /\ \A q \in Proc, v \in VPage : q # p => spt'[q][v] = spt[q][v]
  <2> HIDE DEF E
  <2>1. spt' = [spt EXCEPT ![p] = [v \in VPage |-> E(v)]]
    BY <1>2 DEF E
  <2>2. spt \in Pages(Entry)
    BY Sizes DEF Base
  <2> QED BY <1>5, <2>1, <2>2 DEF Pages
<1>7. /\ pc' \in [Proc -> Labels] /\ pc'[p] = "lock"
      /\ \A q \in Proc : q # p => pc'[q] = pc[q]
      /\ fault' \in [Proc -> [page : VPage, how : {"grow", "swap", "file", "kill"}]]
      /\ fault'[p] = NoFault /\ \A q \in Proc : q # p => fault'[q] = fault[q]
  BY <1>1, Returns DEF Base, Labels
<1>8. TypeOK'
  BY <1>1, <1>6, <1>7
  DEF Base, TypeOK, Pages, Labels, frames, locks, swap, Frame, Slot, Entry, Pte
<1>9. Hands' /\ Transfers'
  <2>1. \A q \in Proc : fault[q].page \in VPage
    BY FaultPage DEF Base
  <2>2. Hands'
    BY <1>1, <1>7 DEF Base, Hands, InClock, frames, locks
  <2>3. Transfers'
    BY <1>1, <1>6, <1>7, <2>1 DEF Base, Transfers, locks, Slot
  <2> QED BY <2>2, <2>3
<1>10. Asked'
  <2>1. spt'[p][Top].in
    BY <1>4, <1>6, VirtualMemoryAssumption DEF Base, TypeOK
  <2>2. pte[p][Top] = NoPte /\ ~ NoPte.p
    BY <1>1, VirtualMemoryAssumption DEF Base, Asked, NoPte
  <2> QED BY <1>1, <1>6, <1>7, <2>1, <2>2 DEF Base, Asked, InClock, NoFault
<1>11. Named'
  <2>1. \A v \in VPage, f \in Frame : frame[f] # <<p, v>>
    BY <1>1 DEF Base, Named, Asked, NoPte
  <2> QED BY <1>1, <1>6, <2>1 DEF Base, Named, frames, Frame
<1> QED BY <1>3, <1>6, <1>8, <1>9, <1>10, <1>11 DEF Base

\* Fault keeps Base; its effect.
LEMMA FaultBase ==
  ASSUME Base, NEW p \in Proc, NEW v \in VPage, Fault(p, v)
  PROVE  /\ Base'
         /\ \/ spt[p][v].in /\ UNCHANGED spt
            \/ ~ spt[p][v].in /\ SptSet(p, v, NewEntry(0))
<1>1. /\ pc[p] = "user" /\ p \in machine.who /\ v \in machine.pages /\ ~ pte[p][v].p
      /\ UNCHANGED <<machine, buf, frames, locks, pte, swap, panic>>
  BY DEF Fault, At
<1> DEFINE how == Branch(spt[p][v], v)
           label == IF how = "kill" THEN "killed" ELSE "lock"
<1>2. /\ fault' = [fault EXCEPT ![p] = [page |-> v, how |-> how]] /\ Goto(p, label)
      /\ spt' = IF spt[p][v].in THEN spt ELSE [spt EXCEPT ![p][v] = NewEntry(0)]
  BY DEF Fault
<1>3. spt[p][v] \in Entry /\ NewEntry(0) \in Entry /\ NewEntry(0).in
  BY Sizes DEF NewEntry, Entry, Base, Pages
<1>4. how \in {"grow", "swap", "file", "kill"}
  BY <1>3, VirtualMemoryAssumption DEF Branch, Entry
<1>5. label \in {"lock", "killed"}
  OBVIOUS
<1> HIDE DEF how, label
<1>6. /\ pc' \in [Proc -> Labels] /\ pc'[p] = label
      /\ \A q \in Proc : q # p => pc'[q] = pc[q]
  BY <1>2, <1>5, Moves DEF Base, Labels
<1>7. /\ fault' \in [Proc -> [page : VPage, how : {"grow", "swap", "file", "kill"}]]
      /\ fault'[p].page = v /\ \A q \in Proc : q # p => fault'[q] = fault[q]
  BY <1>2, <1>4 DEF Base, TypeOK
<1>8. \/ spt[p][v].in /\ UNCHANGED spt
      \/ ~ spt[p][v].in /\ SptSet(p, v, NewEntry(0))
  BY <1>1, <1>2, <1>3, SptUpdate DEF Base
<1>9. /\ spt' \in Pages(Entry) /\ spt'[p][v].in
      /\ \A q \in Proc, w \in VPage : q # p => spt'[q][w] = spt[q][w]
  BY <1>3, <1>8, Sizes DEF SptSet, Base
<1>10. TypeOK'
  BY <1>1, <1>6, <1>7, <1>9
  DEF Base, TypeOK, Pages, Labels, frames, locks, swap, Frame, Slot, Entry, Pte
<1>11. Hands'
  BY <1>1, <1>5, <1>6 DEF Base, Hands, InClock, frames, locks
<1>12. Transfers'
  <2>1. \A q \in Proc : fault[q].page \in VPage
    BY FaultPage DEF Base
  <2> QED BY <1>1, <1>5, <1>6, <1>7, <1>9, <2>1 DEF Base, Transfers, locks, Slot
<1>13. Asked'
  <2>1. \A q \in Proc : fault[q].page \in VPage
    BY FaultPage DEF Base
  <2> QED BY <1>1, <1>5, <1>6, <1>7, <1>9, <2>1 DEF Base, Asked, InClock
<1>14. Named'
  BY <1>1, <1>8 DEF Base, Named, SptSet, frames, Frame
<1> QED BY <1>8, <1>10, <1>11, <1>12, <1>13, <1>14 DEF Base

\* Lock keeps Base.
LEMMA LockBase ==
  ASSUME Base, NEW p \in Proc, Lock(p)
  PROVE  Base'
<1>1. /\ pc[p] = "lock" /\ p \in machine.who /\ Goto(p, "clock") /\ frameLock = NoProc /\ frameLock' = p
      /\ UNCHANGED <<machine, fault, buf, frames, swapLock, spt, pte, swap, panic>>
  BY DEF Lock, At
<1>2. /\ pc' \in [Proc -> Labels] /\ pc'[p] = "clock"
      /\ \A q \in Proc : q # p => pc'[q] = pc[q]
  BY <1>1, Moves DEF Base, Labels
<1>3. TypeOK'
  BY <1>1, <1>2 DEF Base, TypeOK, Labels, frames, swap, Frame, Slot, Entry, Pte
<1>4. Hands'
  BY <1>1, <1>2, VirtualMemoryAssumption DEF Base, Hands, InClock, frames
<1>5. Transfers' /\ Asked'
  BY <1>1, <1>2 DEF Base, Transfers, Asked, InClock, Slot
<1>6. Named'
  BY <1>1 DEF Base, Named, frames, Frame
<1> QED BY <1>3, <1>4, <1>5, <1>6 DEF Base

\* ClockSkip keeps Base; its effect.
LEMMA ClockSkipBase ==
  ASSUME Base, NEW p \in Proc, ClockSkip(p)
  PROVE  /\ Base'
         /\ \E q \in Proc, v \in VPage :
              frame[hand] = <<q, v>> /\ PteSet(q, v, [pte[q][v] EXCEPT !.a = FALSE])
<1>1. /\ pc[p] = "clock" /\ p \in machine.who /\ frame[hand] # NoPage
      /\ hand' = Advanced(hand)
      /\ UNCHANGED <<machine, pc, fault, buf, frame, data, locks, spt, swap, panic>>
  BY DEF ClockSkip, At
<1>2. PICK q \in Proc, v \in VPage :
        frame[hand] = <<q, v>> /\ frame[hand][1] = q /\ frame[hand][2] = v
  BY <1>1, HandPage DEF Base
<1> DEFINE e == [pte[q][v] EXCEPT !.a = FALSE]
<1>3. pte' = [pte EXCEPT ![q][v] = e]
  BY <1>2 DEF ClockSkip
<1>4. pte[q][v] \in Pte
  BY DEF Base, TypeOK
<1>5. e \in Pte /\ e.p = pte[q][v].p /\ e.f = pte[q][v].f
  BY <1>4 DEF Pte
<1> HIDE DEF e
<1>6. PteSet(q, v, e)
  BY <1>1, <1>3, <1>5, PteUpdate DEF Base
<1>7. hand' \in Frame
  BY <1>1, Advances DEF Base
<1>8. TypeOK'
  BY <1>1, <1>6, <1>7 DEF Base, TypeOK, PteSet, Pages, locks, swap, Frame, Slot, Entry, Pte
<1>9. Hands' /\ Transfers'
  <2>1. Transfers'
    BY <1>1 DEF Base, Transfers, locks, Slot
  <2>2. \A q2 \in Proc : InClock(q2) => q2 = p
    BY <1>1 DEF Base, Hands, InClock
  <2>3. Hands'
    BY <1>1, <2>2 DEF Base, Hands, InClock, locks
  <2> QED BY <2>1, <2>3
<1>10. Asked'
  <2>1. \A r \in Proc : fault[r].page \in VPage
    BY FaultPage DEF Base
  <2>2. \A r \in Proc, w \in VPage : pte'[r][w].p = pte[r][w].p
    BY <1>5, <1>6 DEF PteSet
  <2>3. pc[q] \notin {"dead", "gone"}
    BY <1>2 DEF Base, Named, Asked, NoPte, TypeOK
  <2> QED BY <1>1, <1>6, <2>1, <2>2, <2>3 DEF Base, Asked, PteSet, InClock
<1>11. Named'
  BY <1>1, <1>5, <1>6 DEF Base, Named, PteSet, Frame
<1> QED BY <1>2, <1>6, <1>8, <1>9, <1>10, <1>11 DEF Base, e

\* Victim keeps Base.
LEMMA VictimBase ==
  ASSUME Base, NEW p \in Proc, Victim(p)
  PROVE  Base'
<1>1. /\ pc[p] = "clock" /\ p \in machine.who
      /\ UNCHANGED <<machine, fault, buf, frames, locks, spt, pte, swap, panic>>
  BY DEF Victim, At
<1>2. \E label \in {"insert", "out", "unmap"} :
        Goto(p, label) /\ (label = "insert" <=> frame[hand] = NoPage)
  <2>1. CASE frame[hand] = NoPage
    BY <2>1 DEF Victim
  <2>2. CASE frame[hand] # NoPage
    BY <2>2 DEF Victim
  <2> QED BY <2>1, <2>2
<1>3. /\ pc' \in [Proc -> Labels] /\ pc'[p] \in {"insert", "out", "unmap"}
      /\ pc'[p] = "insert" <=> frame[hand] = NoPage
      /\ \A q \in Proc : q # p => pc'[q] = pc[q]
  BY <1>2, Moves DEF Base, Labels
<1>4. TypeOK'
  BY <1>1, <1>3 DEF Base, TypeOK, Labels, frames, locks, swap, Frame, Slot, Entry, Pte
<1>5. Hands'
  BY <1>1, <1>3 DEF Base, Hands, InClock, frames, locks
<1>6. Transfers' /\ Asked'
  BY <1>1, <1>3 DEF Base, Transfers, Asked, InClock, locks, Slot
<1>7. Named'
  BY <1>1 DEF Base, Named, frames, Frame
<1> QED BY <1>4, <1>5, <1>6, <1>7 DEF Base

\* bitmap_scan_and_flip finds a free slot when there is one.
LEMMA FirstIsFree ==
  ASSUME TypeOK, used # Slot
  PROVE  FirstFree \in Slot \ used
<1>1. Slot \ used # {} /\ Slot \ used \subseteq Nat
  <2>1. used \subseteq Slot
    BY DEF TypeOK
  <2>2. Slot \subseteq Nat
    BY Sizes DEF Slot
  <2> QED BY <2>1, <2>2
<1>2. PICK s \in Slot \ used : \A r \in Slot \ used : ~ (r < s)
  BY <1>1, NatMin
<1>3. \A r \in Slot \ used : s <= r
  BY <1>1, <1>2
<1> QED BY <1>2, <1>3 DEF FirstFree

\* SwapOut keeps Base; its effect.
LEMMA SwapOutBase ==
  ASSUME Base, NEW p \in Proc, SwapOut(p)
  PROVE  /\ Base' /\ pc[p] = "out" /\ frameLock = p
         /\ UNCHANGED <<machine, fault, frames, frameLock, pte, sdata>>
         /\ \/ panic' /\ UNCHANGED <<pc, buf, swapLock, spt, used>>
            \/ \E q \in Proc, v \in VPage : \E s \in Slot \ used :
                 /\ frame[hand] = <<q, v>> /\ used' = used \cup {s} /\ buf' = [buf EXCEPT ![p] = s]
                 /\ SptSet(q, v, [spt[q][v] EXCEPT !.slot = s, !.swap = TRUE])
                 /\ panic' = panic /\ pc'[p] = "copy" /\ \A r \in Proc : r # p => pc'[r] = pc[r]
<1>1. /\ pc[p] = "out" /\ p \in machine.who /\ ~ panic /\ swapLock = NoProc
      /\ UNCHANGED <<machine, fault, frames, frameLock, pte, sdata>>
  BY DEF SwapOut, At
<1>2. frameLock = p /\ frame[hand] # NoPage
  BY <1>1 DEF Base, Hands, InClock
<1>3. CASE used = Slot
  <2>1. panic' = TRUE /\ UNCHANGED <<pc, buf, swapLock, spt, used>>
    BY <1>3 DEF SwapOut
  <2>2. TypeOK'
    BY <1>1, <2>1 DEF Base, TypeOK, frames, Frame, Slot, Entry, Pte
  <2>3. Hands' /\ Asked'
    BY <1>1, <2>1 DEF Base, Hands, Asked, InClock, frames
  <2>4. Transfers'
    BY <1>1, <2>1 DEF Base, Transfers, Slot
  <2>5. Named'
    BY <1>1, <2>1 DEF Base, Named, frames, Frame
  <2> QED BY <1>1, <1>2, <2>1, <2>2, <2>3, <2>4, <2>5 DEF Base
<1>4. CASE used # Slot
  <2> DEFINE s == FirstFree
  <2>1. s \in Slot \ used
    BY <1>4, FirstIsFree DEF Base
  <2>2. PICK q \in Proc, v \in VPage :
          frame[hand] = <<q, v>> /\ frame[hand][1] = q /\ frame[hand][2] = v
    BY <1>2, HandPage DEF Base
  <2> DEFINE e1 == [spt[q][v] EXCEPT !.slot = s]
             e == [spt[q][v] EXCEPT !.slot = s, !.swap = TRUE]
  <2>3. /\ used' = used \cup {s} /\ spt' = [spt EXCEPT ![q][v] = e]
        /\ buf' = [buf EXCEPT ![p] = s] /\ swapLock' = p /\ Goto(p, "copy") /\ panic' = panic
    <3>1. /\ used' = used \cup {s}
          /\ spt' = [spt EXCEPT ![frame[hand][1]][frame[hand][2]].slot = s,
                                ![frame[hand][1]][frame[hand][2]].swap = TRUE]
          /\ buf' = [buf EXCEPT ![p] = s] /\ swapLock' = p /\ Goto(p, "copy") /\ panic' = panic
      BY <1>4 DEF SwapOut, Flipped
    <3> HIDE DEF s
    <3>2. spt' = [spt EXCEPT ![q][v].slot = s, ![q][v].swap = TRUE]
      BY <2>2, <3>1
    <3>3. spt' = [spt EXCEPT ![q][v] = e]
      BY <3>2 DEF Base, TypeOK
    <3> QED BY <3>1, <3>3
  <2> HIDE DEF s
  <2>4. spt[q][v] \in Entry
    BY DEF Base, TypeOK
  <2>5. e \in Entry /\ e.in = spt[q][v].in /\ e.index = spt[q][v].index
    <3>1. s \in 0 .. machine.slots
      BY <2>1, Sizes DEF Base, Slot
    <3>2. e1 \in Entry /\ e1.in = spt[q][v].in /\ e1.index = spt[q][v].index
      BY <2>4, <3>1 DEF Entry
    <3>3. e = [e1 EXCEPT !.swap = TRUE]
      BY <2>4 DEF Entry
    <3> HIDE DEF e1, e
    <3> QED BY <3>2, <3>3 DEF Entry
  <2> HIDE DEF e
  <2>6. SptSet(q, v, e)
    BY <1>1, <2>3, <2>5, SptUpdate DEF Base
  <2>7. /\ pc' \in [Proc -> Labels] /\ pc'[p] = "copy"
        /\ \A r \in Proc : r # p => pc'[r] = pc[r]
    BY <2>3, Moves DEF Base, Labels
  <2>8. TypeOK'
    <3>1. used' \subseteq Slot' /\ buf' \in [Proc -> 0..machine.frames \cup 0..machine.slots]
      <4>1. s \in Slot /\ s \in 0 .. machine.slots /\ Slot' = Slot
        BY <1>1, <2>1, Sizes DEF Base, Slot
      <4>2. used \subseteq Slot /\ buf \in [Proc -> 0..machine.frames \cup 0..machine.slots]
        BY DEF Base, TypeOK
      <4>3. used' \subseteq Slot'
        BY <2>3, <4>1, <4>2
      <4> QED BY <2>3, <4>1, <4>2, <4>3
    <3>2. swapLock' \in Proc \cup {NoProc} /\ spt' \in Pages(Entry) /\ pc' \in [Proc -> Labels]
      BY <2>3, <2>6, <2>7 DEF SptSet
    <3> QED BY <1>1, <2>3, <3>1, <3>2
            DEF Base, TypeOK, Pages, Labels, frames, Frame, Slot, Entry, Pte
  <2>9. Hands'
    BY <1>1, <2>7 DEF Base, Hands, InClock, frames
  <2>10. Transfers'
    <3>1. \A r \in Proc : pc[r] # "copy" /\ (pc[r] = "filling" => fault[r].how # "swap")
      BY <1>1, VirtualMemoryAssumption DEF Base, Transfers
    <3>2. buf'[p] = s
      BY <2>3 DEF Base, TypeOK
    <3>3. swapLock' = p /\ buf'[p] \in Slot'
      BY <1>1, <2>1, <2>3, <3>2 DEF Slot
    <3>4. \A r \in Proc :
                   r # p => pc'[r] # "copy" /\ (pc'[r] = "filling" => fault'[r].how # "swap")
      <4>1. \A r \in Proc : r # p => pc'[r] = pc[r]
        BY <2>7
      <4>2. fault' = fault
        BY <1>1
      <4> QED BY <3>1, <4>1, <4>2
    <3>5. \A r \in Proc : pc'[r] = "filling" => fault'[r].how \in {"file", "swap"}
      BY <1>1, <2>7 DEF Base, Transfers
    <3> QED BY <2>7, <3>3, <3>4, <3>5 DEF Transfers
  <2>11. Asked'
    <3>1. \A r \in Proc : fault[r].page \in VPage
      BY FaultPage DEF Base
    <3>2. pc[q] \notin {"dead", "gone"}
      BY <2>2 DEF Base, Named, Asked, NoPte, TypeOK
    <3> QED BY <1>1, <2>5, <2>6, <2>7, <3>1, <3>2 DEF Base, Asked, SptSet, InClock
  <2>12. Named'
    BY <1>1, <2>5, <2>6 DEF Base, Named, SptSet, frames, Frame
  <2> QED BY <1>1, <1>2, <2>1, <2>2, <2>3, <2>6, <2>7, <2>8, <2>9, <2>10, <2>11, <2>12 DEF Base, e
<1> QED BY <1>3, <1>4

\* Copy keeps Base; its effect.
LEMMA CopyBase ==
  ASSUME Base, NEW p \in Proc, Copy(p)
  PROVE  /\ Base' /\ pc'[p] = "unmap" /\ \A q \in Proc : q # p => pc'[q] = pc[q]
         /\ buf[p] \in Slot
<1>1. /\ pc[p] = "copy" /\ p \in machine.who /\ Goto(p, "unmap")
      /\ sdata' = [sdata EXCEPT ![buf[p]] = data[hand]]
      /\ buf' = [buf EXCEPT ![p] = 0] /\ swapLock' = NoProc
      /\ UNCHANGED <<machine, fault, frames, frameLock, spt, pte, used, panic>>
  BY DEF Copy, At
<1>2. /\ pc' \in [Proc -> Labels] /\ pc'[p] = "unmap"
      /\ \A q \in Proc : q # p => pc'[q] = pc[q]
  BY <1>1, Moves DEF Base, Labels
<1>3. swapLock = p /\ buf[p] \in Slot
  BY <1>1 DEF Base, Transfers
<1>4. TypeOK'
  <2>1. /\ sdata' \in [Slot -> Content]
        /\ buf' \in [Proc -> 0..machine.frames \cup 0..machine.slots]
    BY <1>1, <1>3, Sizes DEF Base, TypeOK
  <2> QED BY <1>1, <1>2, <2>1 DEF Base, TypeOK, Labels, frames, Frame, Slot, Entry, Pte
<1>5. Hands'
  BY <1>1, <1>2 DEF Base, Hands, InClock, frames
<1>6. Transfers' /\ Asked'
  <2>1. \A q \in Proc : pc[q] = "copy" \/ (pc[q] = "filling" /\ fault[q].how = "swap") => q = p
    BY <1>3 DEF Base, Transfers
  <2>2. Transfers'
    BY <1>1, <1>2, <2>1 DEF Base, Transfers, Slot
  <2>3. Asked'
    BY <1>1, <1>2 DEF Base, Asked, InClock
  <2> QED BY <2>2, <2>3
<1>7. Named'
  BY <1>1 DEF Base, Named, frames, Frame
<1> QED BY <1>2, <1>3, <1>4, <1>5, <1>6, <1>7 DEF Base

\* Unmap keeps Base; its effect.
LEMMA UnmapBase ==
  ASSUME Base, NEW p \in Proc, Unmap(p)
  PROVE  /\ Base' /\ pc[p] = "unmap" /\ pc'[p] = "insert" /\ frameLock = p
         /\ \A q \in Proc : q # p => pc'[q] = pc[q]
         /\ \E q \in Proc, v \in VPage :
              /\ frame[hand] = <<q, v>> /\ frame' = [frame EXCEPT ![hand] = NoPage]
              /\ SptSet(q, v, [spt[q][v] EXCEPT !.index = 0]) /\ PteSet(q, v, NoPte)
<1>1. /\ pc[p] = "unmap" /\ p \in machine.who /\ Goto(p, "insert")
      /\ UNCHANGED <<machine, fault, buf, data, hand, locks, swap, panic>>
      /\ frame' = [frame EXCEPT ![hand] = NoPage]
  BY DEF Unmap, At
<1>2. frameLock = p /\ frame[hand] # NoPage
  BY <1>1 DEF Base, Hands, InClock
<1>3. PICK q \in Proc, v \in VPage :
        frame[hand] = <<q, v>> /\ frame[hand][1] = q /\ frame[hand][2] = v
  BY <1>2, HandPage DEF Base
<1> DEFINE e == [spt[q][v] EXCEPT !.index = 0]
<1>4. /\ spt' = [spt EXCEPT ![q][v] = e] /\ pte' = [pte EXCEPT ![q][v] = NoPte]
  BY <1>3 DEF Unmap
<1>5. e \in Entry /\ e.in = spt[q][v].in /\ e.slot = spt[q][v].slot
  <2>1. spt[q][v] \in Entry /\ machine.frames \in Nat
    BY Sizes DEF Base, TypeOK
  <2> QED BY <2>1 DEF Entry
<1> HIDE DEF e
<1>6. SptSet(q, v, e) /\ PteSet(q, v, NoPte)
  BY <1>1, <1>4, <1>5, SptUpdate, PteUpdate, Sizes DEF Base
<1>7. /\ pc' \in [Proc -> Labels] /\ pc'[p] = "insert"
      /\ \A r \in Proc : r # p => pc'[r] = pc[r]
  BY <1>1, Moves DEF Base, Labels
<1>8. hand \in Frame /\ frame' \in [Frame -> (Proc \X VPage) \cup {NoPage}] /\ frame'[hand] = NoPage
      /\ \A f \in Frame : f # hand => frame'[f] = frame[f]
  BY <1>1 DEF Base, TypeOK
<1>9. TypeOK'
  BY <1>1, <1>6, <1>7, <1>8
     DEF Base, TypeOK, SptSet, PteSet, Pages, Labels, locks, swap, Frame, Slot, Entry, Pte
<1>10. Hands'
  <2>1. \A r \in Proc : InClock(r) => r = p
    BY <1>2 DEF Base, Hands
  <2> QED BY <1>1, <1>2, <1>7, <1>8, <2>1 DEF Base, Hands, InClock, locks
<1>11. \A r \in Proc : fault[r].page \in VPage
  BY FaultPage DEF Base
<1>12. Transfers'
  BY <1>1, <1>5, <1>6, <1>7, <1>11 DEF Base, Transfers, SptSet, locks, Slot
<1>13. Asked'
  <2>1. pc[q] \notin {"dead", "gone"}
    BY <1>3 DEF Base, Named, Asked, NoPte, TypeOK
  <2>2. ~ NoPte.p
    BY DEF NoPte
  <2> QED BY <1>1, <1>5, <1>6, <1>7, <1>11, <2>1, <2>2 DEF Base, Asked, SptSet, PteSet, InClock
<1>14. Named'
  BY <1>1, <1>3, <1>6, <1>8, VirtualMemoryAssumption
  DEF Base, Named, SptSet, PteSet, Frame, NoPage
<1> QED BY <1>1, <1>2, <1>3, <1>6, <1>7, <1>9, <1>10, <1>12, <1>13, <1>14 DEF Base, e

\* Insert keeps Base; its effect.
LEMMA InsertBase ==
  ASSUME Base, NEW p \in Proc, Insert(p)
  PROVE  LET v == fault[p].page
             e == [spt[p][v] EXCEPT !.swap = FALSE, !.index = hand,
                                    !.slot = IF spt[p][v].swap THEN @ ELSE 0]
             t == [p |-> TRUE, a |-> TRUE, d |-> FALSE, f |-> hand]
         IN  /\ Base' /\ SptSet(p, v, e) /\ PteSet(p, v, t)
             /\ e.in /\ ~ e.swap /\ e.index = hand
             /\ e.slot = (IF spt[p][v].swap THEN spt[p][v].slot ELSE 0)
             /\ pc'[p] = (IF fault[p].how = "grow" THEN "user" ELSE "fill")
             /\ \A q \in Proc : q # p => pc'[q] = pc[q] /\ fault'[q] = fault[q]
             /\ fault'[p] = (IF fault[p].how = "grow" THEN NoFault ELSE fault[p])
             /\ frame[hand] = NoPage /\ frame'[hand] = <<p, v>>
             /\ \A f \in Frame : f # hand => frame'[f] = frame[f]
             /\ ~ pte[p][v].p
<1> DEFINE v == fault[p].page
           slot == IF spt[p][v].swap THEN spt[p][v].slot ELSE 0
           e == [spt[p][v] EXCEPT !.swap = FALSE, !.index = hand,
                                  !.slot = IF spt[p][v].swap THEN @ ELSE 0]
           t == [p |-> TRUE, a |-> TRUE, d |-> FALSE, f |-> hand]
<1>1. /\ pc[p] = "insert" /\ p \in machine.who
      /\ frame' = [frame EXCEPT ![hand] = <<p, v>>]
      /\ spt' = [spt EXCEPT ![p][v] = e] /\ pte' = [pte EXCEPT ![p][v] = t]
      /\ data' = [data EXCEPT ![hand] = Junk]
      /\ hand' = Advanced(hand) /\ frameLock' = NoProc
      /\ UNCHANGED <<machine, buf, swapLock, swap, panic>>
  <2>1. /\ pc[p] = "insert" /\ p \in machine.who
        /\ frame' = [frame EXCEPT ![hand] = <<p, v>>] /\ pte' = [pte EXCEPT ![p][v] = t]
        /\ data' = [data EXCEPT ![hand] = Junk]
        /\ hand' = Advanced(hand) /\ frameLock' = NoProc
        /\ UNCHANGED <<machine, buf, swapLock, swap, panic>>
    BY DEF Insert, At
  <2>2. spt' = [spt EXCEPT ![p][v] = e]
    BY DEF Insert, IndexOf
  <2> QED BY <2>1, <2>2
<1>2. v \in VPage /\ spt[p][v] \in Entry /\ spt[p][v].in /\ ~ pte[p][v].p
  BY <1>1, FaultPage DEF Base, Asked, InClock, TypeOK
<1>3. /\ hand \in Frame /\ hand' \in Frame /\ hand \in 0 .. machine.frames
      /\ frame[hand] = NoPage /\ frameLock = p /\ machine.slots \in Nat
  BY <1>1, Sizes, Advances DEF Base, TypeOK, Hands, InClock, Frame
<1>4. /\ e \in Entry /\ e.in /\ ~ e.swap /\ e.index = hand /\ e.slot = slot
  <2> DEFINE e1 == [spt[p][v] EXCEPT !.swap = FALSE]
             e2 == [e1 EXCEPT !.index = hand]
  <2>1. e1 \in Entry /\ e1.in /\ ~ e1.swap /\ e1.slot = spt[p][v].slot
    BY <1>2 DEF Entry
  <2>2. e = [e2 EXCEPT !.slot = slot]
    BY <1>2 DEF Entry
  <2>3. slot \in 0 .. machine.slots
    BY <1>2, <1>3 DEF Entry
  <2> HIDE DEF e, e1, slot
  <2>4. e2 \in Entry /\ e2.in /\ ~ e2.swap /\ e2.index = hand
    BY <1>3, <2>1 DEF Entry
  <2> HIDE DEF e2
  <2> QED BY <2>2, <2>3, <2>4 DEF Entry
<1>5. t \in Pte /\ t.p
  BY <1>3 DEF Pte
<1>6. /\ pc' \in [Proc -> Labels] /\ pc'[p] = (IF fault[p].how = "grow" THEN "user" ELSE "fill")
      /\ \A q \in Proc : q # p => pc'[q] = pc[q] /\ fault'[q] = fault[q]
      /\ fault'[p] = (IF fault[p].how = "grow" THEN NoFault ELSE fault[p])
      /\ fault' \in [Proc -> [page : VPage, how : {"grow", "swap", "file", "kill"}]]
  <2>1. CASE fault[p].how = "grow"
    <3>1. Return(p, "user")
      BY <2>1 DEF Insert
    <3> QED BY <2>1, <3>1, Returns DEF Base, Labels
  <2>2. CASE fault[p].how # "grow"
    <3>1. Goto(p, "fill") /\ UNCHANGED fault
      BY <2>2 DEF Insert
    <3> QED BY <2>2, <3>1, Moves DEF Base, Labels, TypeOK
  <2> QED BY <2>1, <2>2
<1>7. /\ frame' \in [Frame -> (Proc \X VPage) \cup {NoPage}] /\ frame'[hand] = <<p, v>>
      /\ \A f \in Frame : f # hand => frame'[f] = frame[f]
  BY <1>1, <1>2, <1>3 DEF Base, TypeOK
<1> HIDE DEF e, t, v, slot
<1>8. SptSet(p, v, e) /\ PteSet(p, v, t)
  BY <1>1, <1>2, <1>4, <1>5, SptUpdate, PteUpdate DEF Base
<1>9. TypeOK'
  <2>1. data' \in [Frame -> Content]
    BY <1>1 DEF Base, TypeOK, Junk, Content
  <2>2. /\ spt' \in Pages(Entry) /\ pte' \in Pages(Pte) /\ frameLock' \in Proc \cup {NoProc}
    BY <1>1, <1>8 DEF SptSet, PteSet
  <2> QED BY <1>1, <1>3, <1>6, <1>7, <2>1, <2>2
          DEF Base, TypeOK, Pages, Labels, swap, Frame, Slot, Entry, Pte
<1>10. Hands'
  <2>1. \A r \in Proc : InClock(r) => r = p
    BY <1>3 DEF Base, Hands
  <2> QED BY <1>1, <1>6, <2>1, VirtualMemoryAssumption DEF Hands, InClock
<1>11. \A r \in Proc : fault[r].page \in VPage
  BY FaultPage DEF Base
<1>12. Transfers'
  BY <1>1, <1>6, <1>8, <1>11 DEF Base, Transfers, SptSet, Slot
<1>13. Asked'
  BY <1>1, <1>6, <1>8, <1>11 DEF Base, Asked, SptSet, PteSet, InClock
<1>14. Named'
  <2>1. \A f \in Frame : frame[f] # <<p, v>>
    BY <1>2 DEF Base, Named
  <2>2. t.p /\ t.f = hand
    BY DEF t
  <2> QED BY <1>1, <1>2, <1>3, <1>4, <1>7, <1>8, <2>1, <2>2 DEF Base, Named, SptSet, PteSet, Frame
<1> QED BY <1>2, <1>3, <1>4, <1>6, <1>7, <1>8, <1>9, <1>10, <1>12, <1>13, <1>14 DEF Base, e, t, v, slot

\* FillFromFile keeps Base; its effect.
LEMMA FillFromFileBase ==
  ASSUME Base, NEW p \in Proc, FillFromFile(p)
  PROVE  /\ Base' /\ pc'[p] = "filling" /\ \A q \in Proc : q # p => pc'[q] = pc[q]
<1>1. /\ pc[p] = "fill" /\ p \in machine.who /\ Goto(p, "filling") /\ fault[p].how = "file"
      /\ buf' = [buf EXCEPT ![p] = spt[p][fault[p].page].index]
      /\ UNCHANGED <<machine, fault, frames, locks, spt, pte, swap, panic>>
  BY DEF FillFromFile, At
<1>2. /\ pc' \in [Proc -> Labels] /\ pc'[p] = "filling"
      /\ \A q \in Proc : q # p => pc'[q] = pc[q]
  BY <1>1, Moves DEF Base, Labels
<1>3. TypeOK'
  <2>1. spt[p][fault[p].page].index \in 0 .. machine.frames
    BY FaultPage, Sizes DEF Base, Pages, Entry
  <2>2. buf' \in [Proc -> 0..machine.frames \cup 0..machine.slots]
    BY <1>1, <2>1 DEF Base, TypeOK
  <2> QED BY <1>1, <1>2, <2>2 DEF Base, TypeOK, Labels, frames, locks, swap, Frame, Slot, Entry, Pte
<1>4. Hands' /\ Asked'
  BY <1>1, <1>2 DEF Base, Hands, Asked, InClock, frames, locks
<1>5. Transfers'
  BY <1>1, <1>2 DEF Base, Transfers, locks, Slot
<1>6. Named'
  BY <1>1 DEF Base, Named, frames, Frame
<1> QED BY <1>2, <1>3, <1>4, <1>5, <1>6 DEF Base

\* FillFromSwap keeps Base; its effect.
LEMMA FillFromSwapBase ==
  ASSUME Base, NEW p \in Proc, FillFromSwap(p)
  PROVE  /\ Base' /\ pc'[p] = "filling" /\ \A q \in Proc : q # p => pc'[q] = pc[q]
         /\ SptSet(p, fault[p].page, [spt[p][fault[p].page] EXCEPT !.swap = FALSE])
<1> DEFINE v == fault[p].page
           e == [spt[p][v] EXCEPT !.swap = FALSE]
<1>1. /\ pc[p] = "fill" /\ p \in machine.who /\ Goto(p, "filling") /\ fault[p].how = "swap"
      /\ spt' = [spt EXCEPT ![p][v] = e]
      /\ buf' = [buf EXCEPT ![p] = spt[p][v].index] /\ swapLock = NoProc /\ swapLock' = p
      /\ panic' = (spt[p][v].slot = 0)
      /\ UNCHANGED <<machine, fault, frames, frameLock, pte, swap>>
  <2>1. spt' = [spt EXCEPT ![p][v].swap = FALSE]
    BY DEF FillFromSwap
  <2>2. spt' = [spt EXCEPT ![p][v] = e]
    BY <2>1 DEF Base, TypeOK
  <2> QED BY <2>2 DEF FillFromSwap, At
<1>2. /\ pc' \in [Proc -> Labels] /\ pc'[p] = "filling"
      /\ \A q \in Proc : q # p => pc'[q] = pc[q]
  BY <1>1, Moves DEF Base, Labels
<1>3. v \in VPage /\ spt[p][v] \in Entry
  BY FaultPage, Sizes DEF Base, Pages
<1>4. e \in Entry /\ e.in = spt[p][v].in /\ e.index = spt[p][v].index /\ e.slot = spt[p][v].slot
  BY <1>3 DEF Entry
<1> HIDE DEF e, v
<1>5. SptSet(p, v, e)
  BY <1>1, <1>3, <1>4, SptUpdate DEF Base
<1>6. TypeOK'
  <2>1. spt[p][v].index \in 0 .. machine.frames
    BY <1>3, Sizes DEF Base, Entry
  <2>2. buf' \in [Proc -> 0..machine.frames \cup 0..machine.slots]
    BY <1>1, <2>1 DEF Base, TypeOK
  <2>3. spt' \in Pages(Entry) /\ panic' \in BOOLEAN /\ swapLock' \in Proc \cup {NoProc}
    BY <1>1, <1>5 DEF SptSet
  <2> QED BY <1>1, <1>2, <2>2, <2>3 DEF Base, TypeOK, Pages, Labels, frames, swap, Frame, Slot, Entry, Pte
<1>7. \A r \in Proc : fault[r].page \in VPage
  BY FaultPage DEF Base
<1>8. Hands' /\ Asked'
  <2>1. Hands'
    BY <1>1, <1>2 DEF Base, Hands, InClock, frames
  <2>2. pc[p] \notin {"dead", "gone"}
    BY <1>1
  <2>3. Asked'
    BY <1>1, <1>2, <1>4, <1>5, <1>7 DEF Base, Asked, InClock, SptSet
  <2> QED BY <2>1, <2>3
<1>9. Transfers'
  <2>1. \A r \in Proc : pc[r] # "copy" /\ (pc[r] = "filling" => fault[r].how # "swap")
    BY <1>1, VirtualMemoryAssumption DEF Base, Transfers
  <2>2. panic' \/ spt'[p][fault'[p].page].slot # 0
    BY <1>1, <1>4, <1>5 DEF SptSet, v
  <2>3. \A r \in Proc : pc'[r] = "filling" => fault'[r].how \in {"file", "swap"}
    BY <1>1, <1>2 DEF Base, Transfers
  <2>4. \A r \in Proc : r # p => pc'[r] # "copy" /\ (pc'[r] = "filling" => fault'[r].how # "swap")
    BY <1>1, <1>2, <2>1
  <2> QED BY <1>1, <1>2, <2>2, <2>3, <2>4 DEF Transfers
<1>10. Named'
  BY <1>1, <1>4, <1>5 DEF Base, Named, SptSet, frames, Frame
<1> QED BY <1>2, <1>5, <1>6, <1>8, <1>9, <1>10 DEF Base, e, v

\* The end of a transfer keeps frames and buffers well typed.
LEMMA ArriveTypes ==
  ASSUME Base, NEW p \in Proc, NEW c \in Content, Arrive(p, c)
  PROVE  /\ data' \in [Frame -> Content]
         /\ buf' \in [Proc -> 0..machine.frames \cup 0..machine.slots]
         /\ \A q \in Proc : q # p => buf'[q] = buf[q]
<1>1. /\ data \in [Frame -> Content]
      /\ buf \in [Proc -> 0..machine.frames \cup 0..machine.slots] /\ machine.slots \in Nat
  BY Sizes DEF Base, TypeOK
<1>2. data' \in [Frame -> Content]
  BY <1>1 DEF Arrive
<1>3. 0 \in 0..machine.frames \cup 0..machine.slots
  BY <1>1
<1>4. /\ buf' \in [Proc -> 0..machine.frames \cup 0..machine.slots]
      /\ \A q \in Proc : q # p => buf'[q] = buf[q]
  BY <1>1, <1>3 DEF Arrive
<1> QED BY <1>2, <1>4

\* FilledFromFile keeps Base; its effect.
LEMMA FilledFromFileBase ==
  ASSUME Base, NEW p \in Proc, FilledFromFile(p)
  PROVE  /\ Base' /\ pc'[p] = (IF buf[p] = 0 THEN "killed" ELSE "user")
         /\ \A q \in Proc : q # p => pc'[q] = pc[q] /\ fault'[q] = fault[q]
<1> DEFINE label == IF buf[p] = 0 THEN "killed" ELSE "user"
<1>1. /\ pc[p] = "filling" /\ p \in machine.who /\ fault[p].how = "file" /\ Return(p, label)
      /\ Arrive(p, FileData(p, fault[p].page))
      /\ UNCHANGED <<machine, frame, hand, locks, spt, pte, swap, panic>>
  BY DEF FilledFromFile, At
<1>2. label \in {"killed", "user"}
  OBVIOUS
<1> HIDE DEF label
<1>3. /\ pc' \in [Proc -> Labels] /\ pc'[p] = label
      /\ \A q \in Proc : q # p => pc'[q] = pc[q] /\ fault'[q] = fault[q]
      /\ fault' \in [Proc -> [page : VPage, how : {"grow", "swap", "file", "kill"}]]
  BY <1>1, <1>2, Returns DEF Base, Labels
<1>4. FileData(p, fault[p].page) \in Content
  BY FaultPage DEF Base, FileData, Content
<1>5. /\ data' \in [Frame -> Content] /\ buf' \in [Proc -> 0..machine.frames \cup 0..machine.slots]
      /\ \A q \in Proc : q # p => buf'[q] = buf[q]
  BY <1>1, <1>4, ArriveTypes
<1>6. TypeOK'
  BY <1>1, <1>3, <1>5 DEF Base, TypeOK, Labels, locks, swap, Frame, Slot, Entry, Pte
<1>7. Hands'
  BY <1>1, <1>2, <1>3 DEF Base, Hands, InClock, locks
<1>8. Asked'
  BY <1>1, <1>2, <1>3 DEF Base, Asked, InClock
<1>9. Transfers'
  BY <1>1, <1>2, <1>3, <1>5 DEF Base, Transfers, locks, Slot
<1>10. Named'
  BY <1>1 DEF Base, Named, Frame
<1> QED BY <1>3, <1>6, <1>7, <1>8, <1>9, <1>10 DEF Base, label

\* FilledFromSwap keeps Base; its effect.
LEMMA FilledFromSwapBase ==
  ASSUME Base, NEW p \in Proc, FilledFromSwap(p)
  PROVE  /\ Base' /\ pc'[p] = (IF buf[p] = 0 THEN "killed" ELSE "dirty")
         /\ \A q \in Proc : q # p => pc'[q] = pc[q]
         /\ spt[p][fault[p].page].slot \in Slot
<1> DEFINE label == IF buf[p] = 0 THEN "killed" ELSE "dirty"
           slot == spt[p][fault[p].page].slot
<1>1. /\ pc[p] = "filling" /\ p \in machine.who /\ fault[p].how = "swap" /\ Goto(p, label) /\ ~ panic
      /\ Arrive(p, sdata[slot])
      /\ UNCHANGED <<machine, fault, frame, hand, frameLock, spt, pte, panic>>
      /\ used' = IF buf[p] = 0 THEN used ELSE used \ {slot}
      /\ sdata' = IF buf[p] = 0 \/ slot = 0 THEN sdata ELSE [sdata EXCEPT ![slot] = Junk]
      /\ swapLock' = IF buf[p] = 0 THEN swapLock ELSE NoProc
  BY DEF FilledFromSwap, At
<1>2. label \in {"killed", "dirty"}
  OBVIOUS
<1> HIDE DEF label
<1>3. /\ pc' \in [Proc -> Labels] /\ pc'[p] = label
      /\ \A q \in Proc : q # p => pc'[q] = pc[q]
  BY <1>1, <1>2, Moves DEF Base, Labels
<1>4. swapLock = p /\ slot \in Slot
  <2>1. swapLock = p /\ slot # 0
    BY <1>1 DEF Base, Transfers
  <2>2. spt[p][fault[p].page] \in Entry /\ machine.slots \in Nat
    BY FaultPage, Sizes DEF Base, Pages
  <2>3. slot \in 0 .. machine.slots
    BY <2>2 DEF Entry
  <2> QED BY <2>1, <2>2, <2>3 DEF Slot
<1>5. sdata[slot] \in Content
  BY <1>4 DEF Base, TypeOK
<1>6. /\ data' \in [Frame -> Content] /\ buf' \in [Proc -> 0..machine.frames \cup 0..machine.slots]
      /\ \A q \in Proc : q # p => buf'[q] = buf[q]
  BY <1>1, <1>5, ArriveTypes
<1> HIDE DEF slot
<1>7. TypeOK'
  <2>1. used' \subseteq Slot /\ swapLock' \in Proc \cup {NoProc}
    BY <1>1, <1>4 DEF Base, TypeOK
  <2>2. sdata' \in [Slot -> Content]
    BY <1>1 DEF Base, TypeOK, Junk, Content
  <2> QED BY <1>1, <1>3, <1>6, <2>1, <2>2 DEF Base, TypeOK, Labels, Frame, Slot, Entry, Pte
<1>8. Hands'
  BY <1>1, <1>2, <1>3 DEF Base, Hands, InClock
<1>9. Asked'
  BY <1>1, <1>2, <1>3 DEF Base, Asked, InClock
<1>10. Transfers'
  <2>1. \A q \in Proc : q # p => pc[q] # "copy" /\ (pc[q] = "filling" => fault[q].how # "swap")
    BY <1>4 DEF Base, Transfers
  <2>2. \A q \in Proc : q # p => pc'[q] # "copy" /\ (pc'[q] = "filling" => fault'[q].how # "swap")
    BY <1>1, <1>3, <2>1
  <2>3. \A q \in Proc : pc'[q] = "filling" => fault'[q].how \in {"file", "swap"}
    BY <1>1, <1>2, <1>3 DEF Base, Transfers
  <2> QED BY <1>2, <1>3, <2>2, <2>3 DEF Transfers
<1>11. Named'
  BY <1>1 DEF Base, Named, Frame
<1> QED BY <1>3, <1>4, <1>7, <1>8, <1>9, <1>10, <1>11 DEF Base, label, slot

\* SetDirty keeps Base; its effect.
LEMMA SetDirtyBase ==
  ASSUME Base, NEW p \in Proc, SetDirty(p)
  PROVE  LET v == fault[p].page IN
         /\ Base' /\ pc'[p] = "user" /\ \A q \in Proc : q # p => pc'[q] = pc[q] /\ fault'[q] = fault[q]
         /\ PteSet(p, v, [pte[p][v] EXCEPT !.d = TRUE])
         /\ SptSet(p, v, [spt[p][v] EXCEPT !.slot = 0])
<1> DEFINE v == fault[p].page
           t == [pte[p][v] EXCEPT !.d = TRUE]
           e == [spt[p][v] EXCEPT !.slot = 0]
<1>1. /\ pc[p] = "dirty" /\ p \in machine.who /\ Return(p, "user")
      /\ pte' = [pte EXCEPT ![p][v] = t] /\ spt' = [spt EXCEPT ![p][v] = e]
      /\ UNCHANGED <<machine, buf, frames, locks, swap, panic>>
  <2>1. /\ pte' = [pte EXCEPT ![p][v].d = TRUE] /\ spt' = [spt EXCEPT ![p][v].slot = 0]
    BY DEF SetDirty
  <2>2. pte' = [pte EXCEPT ![p][v] = t] /\ spt' = [spt EXCEPT ![p][v] = e]
    BY <2>1 DEF Base, TypeOK
  <2> QED BY <2>2 DEF SetDirty, At
<1>2. /\ pc' \in [Proc -> Labels] /\ pc'[p] = "user"
      /\ \A q \in Proc : q # p => pc'[q] = pc[q] /\ fault'[q] = fault[q]
      /\ fault' \in [Proc -> [page : VPage, how : {"grow", "swap", "file", "kill"}]]
  BY <1>1, Returns DEF Base, Labels
<1>3. v \in VPage /\ spt[p][v] \in Entry /\ pte[p][v] \in Pte /\ machine.slots \in Nat
  BY FaultPage, Sizes DEF Base, Pages
<1>4. e \in Entry /\ e.in = spt[p][v].in /\ e.index = spt[p][v].index
  BY <1>3 DEF Entry
<1>5. t \in Pte /\ t.p = pte[p][v].p /\ t.f = pte[p][v].f
  BY <1>3 DEF Pte
<1> HIDE DEF e, t, v
<1>6. SptSet(p, v, e) /\ PteSet(p, v, t)
  BY <1>1, <1>3, <1>4, <1>5, SptUpdate, PteUpdate DEF Base
<1>7. TypeOK'
  BY <1>1, <1>2, <1>6
     DEF Base, TypeOK, SptSet, PteSet, Pages, Labels, frames, locks, swap, Frame, Slot, Entry, Pte
<1>8. \A r \in Proc : fault[r].page \in VPage
  BY FaultPage DEF Base
<1>9. Hands'
  BY <1>1, <1>2 DEF Base, Hands, InClock, frames, locks
<1>10. Asked'
  BY <1>1, <1>2, <1>4, <1>5, <1>6, <1>8 DEF Base, Asked, InClock, SptSet, PteSet
<1>11. Transfers'
  BY <1>1, <1>2, <1>6, <1>8 DEF Base, Transfers, SptSet, locks, Slot
<1>12. Named'
  BY <1>1, <1>4, <1>5, <1>6 DEF Base, Named, SptSet, PteSet, frames, Frame
<1> QED BY <1>2, <1>6, <1>7, <1>9, <1>10, <1>11, <1>12 DEF Base, e, t, v

\* What freeing a process's pages does to the tables and the frames.
LEMMA FreePagesTypes ==
  ASSUME Base, NEW p \in Proc, FreePages(p), UNCHANGED <<machine, fault>>
  PROVE  /\ \A f \in Frame : frame'[f] = NoPage \/ frame'[f] = frame[f]
         /\ \A f \in Frame, v \in VPage : frame'[f] # <<p, v>>
         /\ frame' \in [Frame -> (Proc \X VPage) \cup {NoPage}]
         /\ pte' \in Pages(Pte) /\ spt' \in Pages(Entry)
         /\ \A v \in VPage : pte'[p][v] = NoPte /\ spt'[p][v] = NoEntry
         /\ \A q \in Proc, v \in VPage : q # p => pte'[q][v] = pte[q][v] /\ spt'[q][v] = spt[q][v]
         /\ pc' \in [Proc -> Labels] /\ pc'[p] \in {"dead", "gone"}
         /\ \A q \in Proc : q # p => pc'[q] = pc[q]
<1>1. frame \in [Frame -> (Proc \X VPage) \cup {NoPage}]
  BY DEF Base, TypeOK
<1>2. frame' = [f \in Frame |-> IF f \in Indexes(p) THEN NoPage ELSE frame[f]]
  BY DEF FreePages
<1>3. /\ \A f \in Frame : frame'[f] = IF f \in Indexes(p) THEN NoPage ELSE frame[f]
      /\ frame' \in [Frame -> (Proc \X VPage) \cup {NoPage}]
  BY <1>1, <1>2
<1>4. \A f \in Frame, v \in VPage : frame'[f] # <<p, v>>
  <2> SUFFICES ASSUME NEW f \in Frame, NEW v \in VPage, frame'[f] = <<p, v>> PROVE FALSE
    OBVIOUS
  <2>1. <<p, v>> # NoPage
    BY VirtualMemoryAssumption DEF NoPage
  <2>2. f \notin Indexes(p) /\ frame[f] = <<p, v>>
    BY <1>3, <2>1
  <2>3. spt[p][v].in /\ spt[p][v].index = f
    BY <2>2 DEF Base, Named
  <2>4. f # 0
    BY Sizes DEF Base, Frame
  <2> QED BY <2>2, <2>3, <2>4 DEF Indexes
<1>5. spt \in Pages(Entry) /\ pte \in Pages(Pte) /\ NoPte \in Pte /\ NoEntry \in Entry
  BY Sizes DEF Base
<1>6. /\ pte' = [pte EXCEPT ![p] = [v \in VPage |-> NoPte]]
      /\ spt' = [spt EXCEPT ![p] = [v \in VPage |-> NoEntry]]
  BY DEF FreePages
<1>7. /\ pte' \in Pages(Pte) /\ \A v \in VPage : pte'[p][v] = NoPte
      /\ \A q \in Proc, v \in VPage : q # p => pte'[q][v] = pte[q][v]
  BY <1>5, <1>6 DEF Pages
<1>8. /\ spt' \in Pages(Entry) /\ \A v \in VPage : spt'[p][v] = NoEntry
      /\ \A q \in Proc, v \in VPage : q # p => spt'[q][v] = spt[q][v]
  BY <1>5, <1>6 DEF Pages
<1>9. \E label \in {"dead", "gone"} : Goto(p, label)
  BY DEF FreePages
<1>10. /\ pc' \in [Proc -> Labels] /\ pc'[p] \in {"dead", "gone"}
       /\ \A q \in Proc : q # p => pc'[q] = pc[q]
  BY <1>9, Moves DEF Base, Labels
<1> QED BY <1>3, <1>4, <1>7, <1>8, <1>10

\* Freeing the pages of an exiting process keeps Base.
LEMMA FreePagesBase ==
  ASSUME Base, NEW p \in Proc, FreePages(p), frameLock = NoProc, p \in machine.who,
         pc[p] \in {"user", "killed", "exiting"}, used' \subseteq used,
         UNCHANGED <<machine, fault, buf, data, hand, locks, sdata, panic>>
  PROVE  Base'
<1>1. /\ \A f \in Frame : frame'[f] = NoPage \/ frame'[f] = frame[f]
      /\ \A f \in Frame, v \in VPage : frame'[f] # <<p, v>>
      /\ frame' \in [Frame -> (Proc \X VPage) \cup {NoPage}]
      /\ pte' \in Pages(Pte) /\ spt' \in Pages(Entry)
      /\ \A v \in VPage : pte'[p][v] = NoPte /\ spt'[p][v] = NoEntry
      /\ \A q \in Proc, v \in VPage : q # p => pte'[q][v] = pte[q][v] /\ spt'[q][v] = spt[q][v]
      /\ pc' \in [Proc -> Labels] /\ pc'[p] \in {"dead", "gone"}
      /\ \A q \in Proc : q # p => pc'[q] = pc[q]
  BY FreePagesTypes
<1>2. TypeOK'
  BY <1>1 DEF Base, TypeOK, Pages, Labels, locks, Frame, Slot, Entry, Pte
<1>3. \A q \in Proc : ~ InClock(q)
  BY VirtualMemoryAssumption DEF Base, Hands
<1>4. Hands'
  <2>1. \A q \in Proc : ~ InClock(q)' /\ pc'[q] \notin {"out", "copy", "unmap", "insert"}
    BY <1>1, <1>3 DEF InClock
  <2> QED BY <2>1, VirtualMemoryAssumption DEF Hands, locks
<1>5. \A r \in Proc : fault[r].page \in VPage
  BY FaultPage DEF Base
<1>6. Transfers'
  BY <1>1, <1>5 DEF Base, Transfers, locks, Slot
<1>7. Asked'
  <2>1. \A q \in Proc : q # p /\ pc'[q] \in {"dead", "gone"} =>
          \A v \in VPage : spt'[q][v] = NoEntry /\ pte'[q][v] = NoPte
    BY <1>1 DEF Base, Asked
  <2>2. \A q \in Proc : pc'[q] = "lock" \/ InClock(q)' =>
           spt'[q][fault'[q].page].in /\ ~ pte'[q][fault'[q].page].p
    BY <1>1, <1>5 DEF Base, Asked, InClock
  <2> QED BY <1>1, <2>1, <2>2 DEF Base, Asked
<1>8. Named'
  <2> SUFFICES ASSUME NEW q \in Proc, NEW v \in VPage, NEW f \in Frame, frame'[f] = <<q, v>>
               PROVE  /\ pte'[q][v].p /\ pte'[q][v].f = f
                      /\ spt'[q][v].in /\ spt'[q][v].index = f
    BY DEF Named, Frame
  <2>1. q # p /\ frame[f] = <<q, v>>
    BY <1>1, VirtualMemoryAssumption DEF NoPage
  <2> QED BY <1>1, <2>1 DEF Base, Named
<1> QED BY <1>2, <1>4, <1>6, <1>7, <1>8 DEF Base

\* Exit and ExitResumes keep Base.
LEMMA ExitBase ==
  ASSUME Base, NEW p \in Proc, Exit(p) \/ ExitResumes(p)
  PROVE  Base'
<1>1. /\ FreePages(p) /\ frameLock = NoProc /\ p \in machine.who
      /\ pc[p] \in {"user", "killed", "exiting"} /\ used' \subseteq used
      /\ UNCHANGED <<machine, fault, buf, data, hand, locks, sdata, panic>>
  BY DEF Exit, ExitResumes, At
<1> QED BY <1>1, FreePagesBase

\* ExitWaits keeps Base; its effect.
LEMMA ExitWaitsBase ==
  ASSUME Base, NEW p \in Proc, ExitWaits(p)
  PROVE  /\ Base' /\ frameLock # NoProc /\ pc[p] \in {"user", "killed"} /\ p \in machine.who
<1>1. /\ pc[p] \in {"user", "killed"} /\ p \in machine.who /\ Goto(p, "exiting")
      /\ used' \subseteq used /\ frameLock # NoProc
      /\ UNCHANGED <<machine, fault, buf, frames, locks, spt, pte, sdata, panic>>
  BY DEF ExitWaits, At
<1>2. /\ pc' \in [Proc -> Labels] /\ pc'[p] = "exiting"
      /\ \A q \in Proc : q # p => pc'[q] = pc[q]
  BY <1>1, Moves DEF Base, Labels
<1>3. TypeOK'
  BY <1>1, <1>2 DEF Base, TypeOK, Labels, frames, locks, Frame, Slot, Entry, Pte
<1>4. Hands' /\ Asked'
  BY <1>1, <1>2 DEF Base, Hands, Asked, InClock, frames, locks
<1>5. Transfers'
  BY <1>1, <1>2 DEF Base, Transfers, locks, Slot
<1>6. Named'
  BY <1>1 DEF Base, Named, frames, Frame
<1> QED BY <1>1, <1>3, <1>4, <1>5, <1>6 DEF Base

\* Base holds at boot.
LEMMA InitBase == Init => Base
<1> SUFFICES ASSUME Init PROVE Base
  OBVIOUS
<1>1. machine.frames \in Nat \ {0} /\ machine.slots \in Nat
  BY VirtualMemoryAssumption DEF Init
<1>2. TypeOK
  <2>1. NoFault \in [page : VPage, how : {"grow", "swap", "file", "kill"}]
    BY VirtualMemoryAssumption DEF NoFault
  <2>2. NoEntry \in Entry /\ NoPte \in Pte /\ Junk \in Content
    BY <1>1 DEF NoEntry, Entry, NoPte, Pte, Junk, Content
  <2>3. 1 \in Frame /\ 0 \in 0..machine.frames \cup 0..machine.slots
    BY <1>1 DEF Frame
  <2>4. spt \in [Proc -> [VPage -> Entry]] /\ pte \in [Proc -> [VPage -> Pte]]
    BY <2>2 DEF Init
  <2> HIDE DEF NoFault, NoEntry, NoPte, Junk
  <2> QED BY <2>1, <2>2, <2>3, <2>4 DEF Init, TypeOK
<1>3. Hands /\ Transfers /\ Asked
  BY VirtualMemoryAssumption DEF Init, Hands, InClock, Transfers, Asked
<1>4. Named
  BY VirtualMemoryAssumption DEF Init, Named, NoPage
<1> QED BY <1>2, <1>3, <1>4 DEF Base

\* Every step keeps Base.
LEMMA NextBase == Base /\ [Next]_vars => Base'
<1> SUFFICES ASSUME Base, [Next]_vars PROVE Base'
  OBVIOUS
<1>1. ASSUME UNCHANGED vars PROVE Base'
  <2>1. UNCHANGED <<machine, pc, fault, buf, frame, data, hand, frameLock, swapLock, spt, pte,
                    used, sdata, panic>>
    BY <1>1 DEF vars, frames, locks, swap
  <2>2. TypeOK'
    BY <2>1 DEF Base, TypeOK, Frame, Slot, Entry, Pte
  <2>3. Hands' /\ Asked' /\ Transfers'
    BY <2>1 DEF Base, Hands, Transfers, Asked, InClock, Slot
  <2>4. Named'
    BY <2>1 DEF Base, Named, Frame
  <2> QED BY <2>2, <2>3, <2>4 DEF Base
<1>2. ASSUME NEW p \in Proc, KernelStep(p) PROVE Base'
  BY <1>2, LockBase, ClockSkipBase, VictimBase, SwapOutBase, CopyBase, UnmapBase, InsertBase,
     FillFromFileBase, FilledFromFileBase, FillFromSwapBase, FilledFromSwapBase, SetDirtyBase,
     ExitBase DEF KernelStep
<1>3. ASSUME NEW p \in Proc, UserStep(p) PROVE Base'
  BY <1>3, StartBase, ExitBase, ExitWaitsBase, ReadBase, FaultBase, WriteBase DEF UserStep
<1> QED BY <1>1, <1>2, <1>3 DEF Next, Stopped

----------------------------------------------------------------------------
(* Mapped pages are in their frames *)

\* No entry's index is another process's frame: the process is alone, or no new
\* entry is in a block that malloc hands out for the first time, whose zero for
\* index, which nobody initialises, is that of the first frame.
IndexesKnown == Alone \/ ~ machine.fresh

\* The second part: a mapped page is in the frame its page table entry names and,
\* where no block is fresh, an entry with an index has its page mapped.
Mapped ==
  IndexesKnown =>
    \A p \in Proc, v \in VPage :
      /\ pte[p][v].p => pte[p][v].f \in Frame /\ frame[pte[p][v].f] = <<p, v>>
      /\ ~ machine.fresh /\ spt[p][v].in /\ spt[p][v].index # 0 => pte[p][v].p

\* Mapped depends on the frames and on four fields of the entries.
LEMMA MappedSame ==
  ASSUME Mapped, machine' = machine, frame' = frame,
         \A p \in Proc, v \in VPage :
           /\ pte'[p][v].p = pte[p][v].p /\ pte'[p][v].f = pte[p][v].f
           /\ spt'[p][v].in = spt[p][v].in /\ spt'[p][v].index = spt[p][v].index
  PROVE  Mapped'
  BY DEF Mapped, IndexesKnown, Alone, Frame

\* Read and Write keep Mapped.
LEMMA AccessMapped ==
  ASSUME Base, Mapped, NEW p \in Proc, NEW v \in VPage,
         Read(p, v) \/ \E x \in Word : Write(p, v, x)
  PROVE  Mapped'
<1>1. pte[p][v] \in Pte
  BY Sizes DEF Base, Pages
<1> DEFINE r == [pte[p][v] EXCEPT !.a = TRUE]
           w == [pte[p][v] EXCEPT !.a = TRUE, !.d = TRUE]
<1>2. /\ r.p = pte[p][v].p /\ r.f = pte[p][v].f
      /\ w.p = pte[p][v].p /\ w.f = pte[p][v].f
  BY <1>1 DEF Pte
<1>3. PteSet(p, v, r) \/ PteSet(p, v, w)
  BY ReadBase, WriteBase
<1> HIDE DEF r, w
<1>4. UNCHANGED <<machine, frame, spt>>
  BY DEF Read, Write, frames
<1> QED BY <1>2, <1>3, <1>4, MappedSame DEF PteSet

\* Start keeps Mapped.
LEMMA StartMapped ==
  ASSUME Base, Mapped, NEW p \in Proc, Start(p)
  PROVE  Mapped'
<1>1. /\ pc[p] = "dead" /\ UNCHANGED <<machine, frame, pte>>
  BY DEF Start, At, frames
<1>2. PICK index \in UnsetIndex :
        /\ index \in 0 .. 1 /\ (machine.fresh \/ index = 0)
        /\ \A v \in VPage : spt'[p][v] = IF v \in machine.pages /\ (v \in Program \/ v = Top)
                                         THEN NewEntry(index) ELSE NoEntry
  BY StartBase
<1>3. \A q \in Proc, v \in VPage : q # p => spt'[q][v] = spt[q][v]
  BY StartBase
<1>4. \A v \in VPage : ~ machine.fresh => spt'[p][v].index = 0
  BY <1>2 DEF NewEntry, NoEntry
<1> QED BY <1>1, <1>3, <1>4, ZenonT(40) DEF Mapped, IndexesKnown, Alone, Frame

\* Fault keeps Mapped.
LEMMA FaultMapped ==
  ASSUME Base, Mapped, NEW p \in Proc, NEW v \in VPage, Fault(p, v)
  PROVE  Mapped'
<1>1. UNCHANGED <<machine, frame, pte>>
  BY DEF Fault, frames
<1>2. \/ UNCHANGED spt
      \/ SptSet(p, v, NewEntry(0))
  BY FaultBase
<1>3. NewEntry(0).index = 0
  BY DEF NewEntry
<1> QED BY <1>1, <1>2, <1>3 DEF Mapped, IndexesKnown, Alone, Frame, SptSet

\* ClockSkip keeps Mapped.
LEMMA ClockSkipMapped ==
  ASSUME Base, Mapped, NEW p \in Proc, ClockSkip(p)
  PROVE  Mapped'
<1>1. UNCHANGED <<machine, frame, spt>>
  BY DEF ClockSkip
<1>2. PICK q \in Proc, v \in VPage : PteSet(q, v, [pte[q][v] EXCEPT !.a = FALSE])
  BY ClockSkipBase
<1> DEFINE t == [pte[q][v] EXCEPT !.a = FALSE]
<1>3. t.p = pte[q][v].p /\ t.f = pte[q][v].f
  <2>1. pte[q][v] \in Pte
    BY Sizes DEF Base, Pages
  <2> QED BY <2>1 DEF Pte
<1> HIDE DEF t
<1> QED BY <1>1, <1>2, <1>3, MappedSame DEF PteSet, t

\* SwapOut keeps Mapped.
LEMMA SwapOutMapped ==
  ASSUME Base, Mapped, NEW p \in Proc, SwapOut(p)
  PROVE  Mapped'
<1>1. /\ UNCHANGED <<machine, frame, pte>>
      /\ \/ UNCHANGED spt
         \/ \E q \in Proc, v \in VPage : \E s \in Slot \ used :
              SptSet(q, v, [spt[q][v] EXCEPT !.slot = s, !.swap = TRUE])
  BY SwapOutBase DEF frames
<1>2. CASE UNCHANGED spt
  BY <1>1, <1>2, MappedSame
<1>3. ASSUME NEW q \in Proc, NEW v \in VPage, NEW s \in Slot \ used,
             SptSet(q, v, [spt[q][v] EXCEPT !.slot = s, !.swap = TRUE])
      PROVE  Mapped'
  <2> DEFINE e == [spt[q][v] EXCEPT !.slot = s, !.swap = TRUE]
  <2>1. e.in = spt[q][v].in /\ e.index = spt[q][v].index
    <3>1. spt[q][v] \in Entry
      BY Sizes DEF Base, Pages
    <3> QED BY <3>1 DEF Entry
  <2>2. SptSet(q, v, e)
    BY <1>3
  <2> HIDE DEF e
  <2> QED BY <1>1, <2>1, <2>2, MappedSame DEF SptSet
<1> QED BY <1>1, <1>2, <1>3

\* Unmap keeps Mapped.
LEMMA UnmapMapped ==
  ASSUME Base, Mapped, NEW p \in Proc, Unmap(p)
  PROVE  Mapped'
<1>1. PICK q \in Proc, v \in VPage :
        /\ frame[hand] = <<q, v>> /\ frame' = [frame EXCEPT ![hand] = NoPage]
        /\ SptSet(q, v, [spt[q][v] EXCEPT !.index = 0]) /\ PteSet(q, v, NoPte)
  BY UnmapBase
<1> DEFINE e == [spt[q][v] EXCEPT !.index = 0]
<1>2. e.index = 0
  BY Sizes DEF Base, Pages, Entry
<1>3. SptSet(q, v, e)
  BY <1>1
<1> HIDE DEF e
<1>4. machine' = machine /\ hand \in Frame /\ frame \in [Frame -> (Proc \X VPage) \cup {NoPage}]
  BY DEF Unmap, Base, TypeOK
<1> SUFFICES ASSUME IndexesKnown', NEW r \in Proc, NEW w \in VPage
             PROVE  /\ pte'[r][w].p => pte'[r][w].f \in Frame /\ frame'[pte'[r][w].f] = <<r, w>>
                    /\ ~ machine.fresh /\ spt'[r][w].in /\ spt'[r][w].index # 0 => pte'[r][w].p
  BY <1>4 DEF Mapped, Frame
<1>5. IndexesKnown
  BY <1>4 DEF IndexesKnown, Alone
<1>6. CASE r = q /\ w = v
  BY <1>1, <1>2, <1>3, <1>6 DEF SptSet, PteSet, NoPte
<1>7. CASE ~ (r = q /\ w = v)
  <2>1. spt'[r][w] = spt[r][w] /\ pte'[r][w] = pte[r][w]
    BY <1>1, <1>3, <1>7 DEF SptSet, PteSet
  <2>2. /\ pte[r][w].p => pte[r][w].f \in Frame /\ frame[pte[r][w].f] = <<r, w>>
        /\ ~ machine.fresh /\ spt[r][w].in /\ spt[r][w].index # 0 => pte[r][w].p
    BY <1>5 DEF Mapped
  <2>3. frame[hand] # <<r, w>>
    BY <1>1, <1>7
  <2> QED BY <1>1, <1>4, <2>1, <2>2, <2>3
<1> QED BY <1>6, <1>7

\* Insert keeps Mapped.
LEMMA InsertMapped ==
  ASSUME Base, Mapped, NEW p \in Proc, Insert(p)
  PROVE  Mapped'
<1> DEFINE v == fault[p].page
           e == [spt[p][v] EXCEPT !.swap = FALSE, !.index = hand,
                                  !.slot = IF spt[p][v].swap THEN @ ELSE 0]
           t == [p |-> TRUE, a |-> TRUE, d |-> FALSE, f |-> hand]
<1>1. /\ SptSet(p, v, e) /\ PteSet(p, v, t)
      /\ frame[hand] = NoPage /\ frame'[hand] = <<p, v>>
      /\ \A f \in Frame : f # hand => frame'[f] = frame[f]
  BY InsertBase
<1>2. t.p /\ t.f = hand
  OBVIOUS
<1>3. machine' = machine /\ hand \in Frame
  BY DEF Insert, Base, TypeOK
<1> HIDE DEF e, t, v
<1> SUFFICES ASSUME IndexesKnown', NEW r \in Proc, NEW w \in VPage
             PROVE  /\ pte'[r][w].p => pte'[r][w].f \in Frame /\ frame'[pte'[r][w].f] = <<r, w>>
                    /\ ~ machine.fresh /\ spt'[r][w].in /\ spt'[r][w].index # 0 => pte'[r][w].p
  BY <1>3 DEF Mapped, Frame
<1>4. IndexesKnown
  BY <1>3 DEF IndexesKnown, Alone
<1>5. CASE r = p /\ w = v
  BY <1>1, <1>2, <1>3, <1>5 DEF PteSet
<1>6. CASE ~ (r = p /\ w = v)
  <2>1. spt'[r][w] = spt[r][w] /\ pte'[r][w] = pte[r][w]
    BY <1>1, <1>6 DEF SptSet, PteSet
  <2>2. /\ pte[r][w].p => pte[r][w].f \in Frame /\ frame[pte[r][w].f] = <<r, w>>
        /\ ~ machine.fresh /\ spt[r][w].in /\ spt[r][w].index # 0 => pte[r][w].p
    BY <1>4 DEF Mapped
  <2>3. <<r, w>> # NoPage
    BY VirtualMemoryAssumption DEF NoPage
  <2> QED BY <1>1, <2>1, <2>2, <2>3
<1> QED BY <1>5, <1>6

\* FillFromSwap and SetDirty keep Mapped.
LEMMA FillMapped ==
  ASSUME Base, Mapped, NEW p \in Proc, FillFromSwap(p) \/ SetDirty(p)
  PROVE  Mapped'
<1> DEFINE v == fault[p].page
           e1 == [spt[p][v] EXCEPT !.swap = FALSE]
           e2 == [spt[p][v] EXCEPT !.slot = 0]
           t == [pte[p][v] EXCEPT !.d = TRUE]
<1>1. v \in VPage /\ spt[p][v] \in Entry /\ pte[p][v] \in Pte
  BY FaultPage, Sizes DEF Base, Pages
<1>2. /\ e1.in = spt[p][v].in /\ e1.index = spt[p][v].index
      /\ e2.in = spt[p][v].in /\ e2.index = spt[p][v].index
      /\ t.p = pte[p][v].p /\ t.f = pte[p][v].f
  BY <1>1 DEF Entry, Pte
<1>3. UNCHANGED <<machine, frame>>
  BY DEF FillFromSwap, SetDirty, frames
<1>4. CASE FillFromSwap(p)
  <2>1. SptSet(p, v, e1) /\ UNCHANGED pte
    BY <1>4, FillFromSwapBase DEF FillFromSwap
  <2> HIDE DEF e1, v
  <2> QED BY <1>2, <1>3, <2>1, MappedSame DEF SptSet
<1>5. CASE SetDirty(p)
  <2>1. SptSet(p, v, e2) /\ PteSet(p, v, t)
    BY <1>5, SetDirtyBase
  <2> HIDE DEF e2, t, v
  <2> QED BY <1>2, <1>3, <2>1, MappedSame DEF SptSet, PteSet
<1> QED BY <1>4, <1>5

\* A step that changes no table keeps Mapped.
LEMMA QuietMapped ==
  ASSUME Base, Mapped, UNCHANGED <<machine, frame, spt, pte>>
  PROVE  Mapped'
  BY MappedSame

\* Exit and ExitResumes keep Mapped.
LEMMA ExitMapped ==
  ASSUME Base, Mapped, NEW p \in Proc, Exit(p) \/ ExitResumes(p)
  PROVE  Mapped'
<1>1. FreePages(p) /\ UNCHANGED <<machine, fault>> /\ p \in machine.who
  BY DEF Exit, ExitResumes, At
<1>2. /\ \A v \in VPage : pte'[p][v] = NoPte /\ spt'[p][v] = NoEntry
      /\ \A q \in Proc, v \in VPage : q # p => pte'[q][v] = pte[q][v] /\ spt'[q][v] = spt[q][v]
  BY <1>1, FreePagesTypes
<1>3. \A f \in Frame : frame'[f] = IF f \in Indexes(p) THEN NoPage ELSE frame[f]
  BY <1>1 DEF FreePages
<1> SUFFICES ASSUME IndexesKnown', NEW r \in Proc, NEW w \in VPage
             PROVE  /\ pte'[r][w].p => pte'[r][w].f \in Frame /\ frame'[pte'[r][w].f] = <<r, w>>
                    /\ ~ machine.fresh /\ spt'[r][w].in /\ spt'[r][w].index # 0 => pte'[r][w].p
  BY <1>1 DEF Mapped, Frame
<1>4. IndexesKnown
  BY <1>1 DEF IndexesKnown, Alone
<1>5. CASE r = p
  BY <1>2, <1>5 DEF NoPte, NoEntry
<1>6. CASE r # p
  <2>1. /\ pte[r][w].p => pte[r][w].f \in Frame /\ frame[pte[r][w].f] = <<r, w>>
        /\ ~ machine.fresh /\ spt[r][w].in /\ spt[r][w].index # 0 => pte[r][w].p
    BY <1>4 DEF Mapped
  <2>2. CASE Alone
    <3>1. r \notin machine.who
      BY <1>1, <1>6, <2>2 DEF Alone
    <3>2. pte[r][w] = NoPte /\ spt[r][w] = NoEntry
      BY <3>1 DEF Base, Asked
    <3> QED BY <1>2, <1>6, <3>2 DEF NoPte, NoEntry
  <2>3. CASE ~ machine.fresh
    <3>1. ASSUME pte[r][w].p PROVE pte[r][w].f \notin Indexes(p)
      <4> SUFFICES ASSUME pte[r][w].f \in Indexes(p) PROVE FALSE
        OBVIOUS
      <4>1. PICK v \in VPage : spt[p][v].in /\ spt[p][v].index = pte[r][w].f /\ spt[p][v].index # 0
        BY DEF Indexes
      <4>2. pte[p][v].p /\ pte[p][v].f \in Frame /\ frame[pte[p][v].f] = <<p, v>>
        BY <1>4, <2>3, <4>1 DEF Mapped
      <4>3. spt[p][v].index = pte[p][v].f
        BY <4>2 DEF Base, Named
      <4>4. frame[pte[r][w].f] = <<r, w>>
        BY <2>1, <3>1
      <4> QED BY <1>6, <4>1, <4>2, <4>3, <4>4
    <3> QED BY <1>2, <1>3, <1>6, <2>1, <3>1
  <2> QED BY <1>4, <2>2, <2>3 DEF IndexesKnown
<1> QED BY <1>5, <1>6

\* Every step keeps Mapped.
LEMMA NextMapped == Base /\ Mapped /\ [Next]_vars => Mapped'
<1> SUFFICES ASSUME Base, Mapped, [Next]_vars PROVE Mapped'
  OBVIOUS
<1>1. ASSUME UNCHANGED vars PROVE Mapped'
  BY <1>1, QuietMapped DEF vars, frames
<1>2. ASSUME NEW p \in Proc, KernelStep(p) PROVE Mapped'
  <2>1. CASE Lock(p) \/ Victim(p)
    <3>1. UNCHANGED <<machine, frame, spt, pte>>
      BY <2>1 DEF Lock, Victim, frames
    <3> QED BY <3>1, QuietMapped
  <2>2. CASE Copy(p) \/ FillFromFile(p) \/ FilledFromFile(p) \/ FilledFromSwap(p)
    <3>1. UNCHANGED <<machine, frame, spt, pte>>
      BY <2>2 DEF Copy, FillFromFile, FilledFromFile, FilledFromSwap, frames
    <3> QED BY <3>1, QuietMapped
  <2> QED BY <1>2, <2>1, <2>2, ClockSkipMapped, SwapOutMapped, UnmapMapped, InsertMapped, FillMapped,
             ExitMapped DEF KernelStep
<1>3. ASSUME NEW p \in Proc, UserStep(p) PROVE Mapped'
  <2>1. CASE ExitWaits(p)
    <3>1. UNCHANGED <<machine, frame, spt, pte>>
      BY <2>1 DEF ExitWaits, frames
    <3> QED BY <3>1, QuietMapped
  <2> QED BY <1>3, <2>1, StartMapped, ExitMapped, AccessMapped, FaultMapped DEF UserStep
<1> QED BY <1>1, <1>2, <1>3 DEF Next, Stopped

----------------------------------------------------------------------------
(* A process alone: where its pages are *)

\* The data of p's fault are still to come.
Fetching(p) == pc[p] \in {"fill", "filling"}

\* Page v of p is being evicted.
Going(p, v) == pc[p] \in {"copy", "unmap"} /\ frame[hand] = <<p, v>>

\* The pages p has in swap, one on its way back included.
Held(p) == {v \in VPage : spt[p][v].in /\ InSwap(p, v)}

\* Their slots.
Bits(p) == {spt[p][v].slot : v \in Held(p)}

\* The bits set in slot_map are the slots of those pages, one each.
Swaps(p) ==
  /\ used = Bits(p)
  /\ \A v, w \in Held(p) : spt[p][v].slot = spt[p][w].slot => v = w

\* A mapped page is not in swap, unless it is on its way there.
Resident(p) == \A v \in VPage : spt[p][v].in /\ spt[p][v].swap /\ pte[p][v].p => Going(p, v)

\* While data are fetched their page is mapped, its swap flag reset, and the
\* buffer is its frame.
Fetches(p) ==
  LET v == fault[p].page IN
  /\ pc[p] \in {"fill", "filling", "dirty"} => pte[p][v].p /\ ~ spt[p][v].swap
  /\ Fetching(p) => \/ fault[p].how = "swap"
                    \/ fault[p].how = "file" /\ v \in Program
  /\ pc[p] = "filling" => buf[p] = spt[p][v].index

\* Before insert_page the branch of page_fault is the one the entry calls for.
Faulted(p) ==
  LET v == fault[p].page IN
  pc[p] = "lock" \/ InClock(p) =>
    \/ fault[p].how = "swap" /\ spt[p][v].swap
    \/ fault[p].how = "file" /\ ~ spt[p][v].swap /\ v \in Program
    \/ fault[p].how = "grow" /\ ~ spt[p][v].swap /\ v \notin Program

\* The process is never killed and never waits to exit; its program has
\* entries, and a stack page neither mapped nor in swap is being made.
Present(p) ==
  /\ pc[p] \notin {"killed", "exiting"}
  /\ \A v \in VPage :
       /\ v \in Program /\ pc[p] \notin {"dead", "gone"} => spt[p][v].in
       /\ v \notin Program /\ spt[p][v].in /\ ~ spt[p][v].swap /\ ~ pte[p][v].p =>
            fault[p].page = v /\ (pc[p] = "lock" \/ InClock(p))

\* A program's page that is not dirty holds what its file holds.
Clean(p) ==
  \A v \in Program :
    pte[p][v].p /\ ~ pte[p][v].d /\ ~ InFlight(p, v) /\ ~ (pc[p] = "dirty" /\ fault[p].page = v) =>
      data[pte[p][v].f] = FileData(p, v)

\* During an eviction: after the copy the slot holds what the frame holds; a
\* page that is not copied is clean and the program's.
Evicting(p) ==
  \A v \in VPage : Going(p, v) =>
    IF pc[p] = "copy" THEN spt[p][v].swap /\ buf[p] = spt[p][v].slot
    ELSE \/ spt[p][v].swap /\ sdata[spt[p][v].slot] = data[hand]
         \/ ~ spt[p][v].swap /\ v \in Program /\ ~ pte[p][v].d

\* The invariant of a process alone.
Steady(p) ==
  Swaps(p) /\ Resident(p) /\ Fetches(p) /\ Faulted(p) /\ Present(p) /\ Clean(p) /\ Evicting(p)

\* No page of p changes.
Kept(p) == \A v \in VPage : PageContent(p, v)' = PageContent(p, v)

\* What all the steps of a process alone start from.
Good(p) == Base /\ Mapped /\ machine.who = {p} /\ Steady(p)

\* What the invariants say of the tables of a process alone.
LEMMA GoodFacts ==
  ASSUME NEW p \in Proc, Good(p)
  PROVE  /\ IndexesKnown
         /\ spt \in Pages(Entry) /\ pte \in Pages(Pte) /\ fault[p].page \in VPage
         /\ \A v \in VPage : pte[p][v].p =>
              pte[p][v].f \in Frame /\ frame[pte[p][v].f] = <<p, v>> /\ spt[p][v].in
              /\ spt[p][v].index = pte[p][v].f
         /\ \A v, w \in VPage : pte[p][v].p /\ pte[p][w].p /\ pte[p][v].f = pte[p][w].f => v = w
         /\ \A v \in Held(p) : spt[p][v].slot \in used /\ spt[p][v].slot # 0
         /\ \A v \in VPage : v \in Program <=> Kind[v] # "stack"
<1>1. IndexesKnown
  BY DEF IndexesKnown, Alone, Good
<1>2. spt \in Pages(Entry) /\ pte \in Pages(Pte) /\ fault[p].page \in VPage
  BY Sizes, FaultPage DEF Good, Base
<1>3. \A v \in VPage : pte[p][v].p => pte[p][v].f \in Frame /\ frame[pte[p][v].f] = <<p, v>>
  BY <1>1 DEF Good, Mapped
<1>4. \A v \in VPage : pte[p][v].p => spt[p][v].in /\ spt[p][v].index = pte[p][v].f
  BY <1>3 DEF Good, Base, Named
<1>5. \A v \in Held(p) : spt[p][v].slot \in used /\ spt[p][v].slot # 0
  <2>1. \A v \in Held(p) : spt[p][v].slot \in used
    BY DEF Good, Steady, Swaps, Bits
  <2>2. used \subseteq Slot /\ 0 \notin Slot
    BY Sizes DEF Good, Base, TypeOK, Slot
  <2> QED BY <2>1, <2>2
<1> QED BY <1>1, <1>2, <1>3, <1>4, <1>5 DEF Program

\* Swaps depends on slot_map and on the pages in swap.
LEMMA SwapsSame ==
  ASSUME NEW p \in Proc, Swaps(p), used' = used, Held(p)' = Held(p),
         \A v \in Held(p) : spt'[p][v].slot = spt[p][v].slot
  PROVE  Swaps(p)'
<1>1. Bits(p)' = Bits(p)
  BY DEF Bits
<1> QED BY <1>1 DEF Swaps

\* Setting or clearing accessed bits changes no page.
LEMMA MarkSteady ==
  ASSUME NEW p \in Proc, Good(p), NEW v \in VPage, NEW t, PteSet(p, v, t),
         t.p = pte[p][v].p, t.f = pte[p][v].f, t.d = pte[p][v].d,
         UNCHANGED <<machine, pc, fault, buf, frame, data, spt, used, sdata>>,
         hand' = hand \/ pc[p] = "clock"
  PROVE  Steady(p)' /\ Kept(p)
<1>1. \A w \in VPage : pte'[p][w].p = pte[p][w].p /\ pte'[p][w].f = pte[p][w].f
                       /\ pte'[p][w].d = pte[p][w].d
  BY DEF PteSet
<1>2. \A w \in VPage : /\ Going(p, w)' = Going(p, w) /\ InFlight(p, w)' = InFlight(p, w)
                       /\ InSwap(p, w)' = InSwap(p, w)
  BY DEF Going, InFlight, InSwap
<1>3. Swaps(p)'
  <2>1. Held(p)' = Held(p)
    BY <1>2 DEF Held
  <2> QED BY <2>1, SwapsSame DEF Good, Steady
<1>4. Resident(p)' /\ Fetches(p)' /\ Faulted(p)' /\ Present(p)'
  <2>1. fault[p].page \in VPage
    BY GoodFacts
  <2> QED BY <1>1, <1>2, <2>1 DEF Good, Steady, Resident, Fetches, Fetching, Faulted, InClock, Present
<1>5. Clean(p)'
  BY <1>1, <1>2 DEF Good, Steady, Clean, Program
<1>6. Evicting(p)'
  <2>1. \A w \in VPage : Going(p, w) => hand' = hand
    BY DEF Going
  <2> QED BY <1>1, <1>2, <2>1 DEF Good, Steady, Evicting
<1>7. Kept(p)
  BY <1>1, <1>2 DEF Kept, PageContent
<1> QED BY <1>3, <1>4, <1>5, <1>6, <1>7 DEF Steady

\* A user's read changes no page.
LEMMA ReadSteady ==
  ASSUME NEW p \in Proc, Good(p), NEW v \in VPage, Read(p, v)
  PROVE  Steady(p)' /\ Kept(p)
<1> DEFINE t == [pte[p][v] EXCEPT !.a = TRUE]
<1>1. PteSet(p, v, t)
  BY ReadBase DEF Good
<1>2. t.p = pte[p][v].p /\ t.f = pte[p][v].f /\ t.d = pte[p][v].d
  <2>1. pte[p][v] \in Pte
    BY GoodFacts DEF Pages
  <2> QED BY <2>1 DEF Pte
<1>3. UNCHANGED <<machine, pc, fault, buf, frame, data, spt, used, sdata>> /\ hand' = hand
  BY DEF Read, frames, swap
<1> HIDE DEF t
<1> QED BY <1>1, <1>2, <1>3, MarkSteady

\* The second chance changes no page.
LEMMA ClockSkipSteady ==
  ASSUME NEW p \in Proc, Good(p), ClockSkip(p)
  PROVE  Steady(p)' /\ Kept(p)
<1>1. PICK q \in Proc, v \in VPage :
        frame[hand] = <<q, v>> /\ PteSet(q, v, [pte[q][v] EXCEPT !.a = FALSE])
  BY ClockSkipBase DEF Good
<1>2. q = p
  <2>1. hand \in Frame
    BY DEF Good, Base, TypeOK
  <2>2. pte[q][v].p
    BY <1>1, <2>1 DEF Good, Base, Named
  <2> QED BY <2>2 DEF Good, Base, Asked, NoPte
<1> DEFINE t == [pte[p][v] EXCEPT !.a = FALSE]
<1>3. t.p = pte[p][v].p /\ t.f = pte[p][v].f /\ t.d = pte[p][v].d
  <2>1. pte[p][v] \in Pte
    BY GoodFacts DEF Pages
  <2> QED BY <2>1 DEF Pte
<1>4. UNCHANGED <<machine, pc, fault, buf, frame, data, spt, used, sdata>> /\ pc[p] = "clock"
  BY DEF ClockSkip, At, swap
<1>5. PteSet(p, v, t)
  BY <1>1, <1>2
<1> HIDE DEF t
<1> QED BY <1>3, <1>4, <1>5, MarkSteady

\* A content is not the absence of one.
LEMMA ContentIsThere ==
  ASSUME NEW c \in Content
  PROVE  c # Absent
  BY DEF Content, Absent

\* A user's write changes the page written, and no other one.
LEMMA WriteSteady ==
  ASSUME NEW p \in Proc, Good(p), NEW v \in VPage, NEW x \in Word, Write(p, v, x)
  PROVE  /\ Steady(p)' /\ PageContent(p, v) # Absent
         /\ \A w \in VPage : PageContent(p, w)' = IF w = v THEN Stored(p, v, x) ELSE PageContent(p, w)
<1> DEFINE t == [pte[p][v] EXCEPT !.a = TRUE, !.d = TRUE]
<1>1. PteSet(p, v, t)
  BY WriteBase DEF Good
<1>2. t.p = pte[p][v].p /\ t.f = pte[p][v].f /\ t.d
  <2>1. pte[p][v] \in Pte
    BY GoodFacts DEF Pages
  <2> QED BY <2>1 DEF Pte
<1> HIDE DEF t
<1>3. /\ pc[p] = "user" /\ pte[p][v].p
      /\ data' = [data EXCEPT ![pte[p][v].f] = Stored(p, v, x)]
      /\ UNCHANGED <<machine, pc, fault, buf, frame, hand, spt, used, sdata>>
  BY DEF Write, At, swap
<1>4. \A w \in VPage : /\ pte'[p][w].p = pte[p][w].p /\ pte'[p][w].f = pte[p][w].f
                       /\ w # v => pte'[p][w].d = pte[p][w].d
  BY <1>1, <1>2 DEF PteSet
<1>5. pte'[p][v].d
  BY <1>1, <1>2 DEF PteSet
<1>6. \A w \in VPage : /\ ~ Going(p, w)' /\ ~ InFlight(p, w)' /\ InSwap(p, w)' = InSwap(p, w)
                       /\ ~ Going(p, w) /\ ~ InFlight(p, w)
  BY <1>3 DEF Going, InFlight, InSwap
<1>7. data \in [Frame -> Content] /\ pte[p][v].f \in Frame /\ spt[p][v].in
  BY <1>3, GoodFacts DEF Good, Base, TypeOK
<1>8. data'[pte[p][v].f] = Stored(p, v, x)
  BY <1>3, <1>7
<1>9. \A w \in VPage : w # v /\ pte[p][w].p => data'[pte[p][w].f] = data[pte[p][w].f]
  BY <1>3, <1>7, GoodFacts
<1>10. Swaps(p)'
  <2>1. Held(p)' = Held(p)
    BY <1>3, <1>6 DEF Held
  <2> QED BY <1>3, <2>1, SwapsSame DEF Good, Steady
<1>11. Resident(p)' /\ Fetches(p)' /\ Faulted(p)' /\ Present(p)'
  <2>1. fault[p].page \in VPage
    BY GoodFacts
  <2> QED BY <1>3, <1>4, <1>6, <2>1
          DEF Good, Steady, Resident, Fetches, Fetching, Faulted, InClock, Present
<1>12. Clean(p)' /\ Evicting(p)'
  BY <1>3, <1>4, <1>5, <1>6, <1>9 DEF Good, Steady, Clean, Evicting, Program
<1>13. PageContent(p, v) # Absent
  <2>1. PageContent(p, v) = data[pte[p][v].f]
    BY <1>3, <1>6, <1>7 DEF PageContent
  <2>2. data[pte[p][v].f] \in Content
    BY <1>7
  <2> QED BY <2>1, <2>2, ContentIsThere
<1>14. \A w \in VPage : PageContent(p, w)' = IF w = v THEN Stored(p, v, x) ELSE PageContent(p, w)
  <2>1. PageContent(p, v)' = data'[pte'[p][v].f]
    BY <1>3, <1>4, <1>6, <1>7 DEF PageContent
  <2>2. \A w \in VPage : w # v => PageContent(p, w)' = PageContent(p, w)
    BY <1>3, <1>4, <1>6, <1>9 DEF PageContent
  <2> QED BY <1>4, <1>8, <2>1, <2>2
<1> QED BY <1>10, <1>11, <1>12, <1>13, <1>14 DEF Steady

\* Lock and Victim.
LEMMA WaitSteady ==
  ASSUME NEW p \in Proc, Good(p), Lock(p) \/ Victim(p)
  PROVE  Steady(p)' /\ Kept(p)
<1>1. UNCHANGED <<machine, fault, buf, frame, data, hand, spt, pte, used, sdata>>
  BY DEF Lock, Victim, frames, swap
<1>2. \/ pc[p] = "lock" /\ pc'[p] = "clock"
      \/ pc[p] = "clock" /\ pc'[p] \in {"insert", "out"}
      \/ pc[p] = "clock" /\ pc'[p] = "unmap" /\ frame[hand] # NoPage
         /\ Kind[frame[hand][2]] # "stack" /\ ~ PteAt(hand).d
  <2>1. CASE Lock(p)
    BY <2>1 DEF Lock, At, Goto, Good, Base, TypeOK
  <2>2. CASE Victim(p)
    <3>1. pc[p] = "clock"
      BY <2>2 DEF Victim, At
    <3>2. CASE frame[hand] = NoPage
      BY <2>2, <3>1, <3>2 DEF Victim, Goto, Good, Base, TypeOK
    <3>3. CASE frame[hand] # NoPage
      <4>1. Goto(p, IF Kind[frame[hand][2]] = "stack" \/ PteAt(hand).d THEN "out" ELSE "unmap")
        BY <2>2, <3>3 DEF Victim
      <4>2. pc'[p] = IF Kind[frame[hand][2]] = "stack" \/ PteAt(hand).d THEN "out" ELSE "unmap"
        BY <4>1 DEF Goto, Good, Base, TypeOK
      <4> QED BY <3>1, <3>3, <4>2
    <3> QED BY <3>2, <3>3
  <2> QED BY <2>1, <2>2
<1>3. \A v \in VPage : ~ InFlight(p, v) /\ ~ InFlight(p, v)' /\ InSwap(p, v)' = InSwap(p, v)
                       /\ ~ Going(p, v) /\ (Going(p, v)' => pc'[p] = "unmap" /\ frame[hand] = <<p, v>>)
  BY <1>1, <1>2 DEF Going, InFlight, InSwap
<1>4. Swaps(p)'
  <2>1. Held(p)' = Held(p)
    BY <1>1, <1>3 DEF Held
  <2> QED BY <1>1, <2>1, SwapsSame DEF Good, Steady
<1>5. Resident(p)' /\ Fetches(p)' /\ Faulted(p)' /\ Present(p)'
  BY <1>1, <1>2, <1>3
     DEF Good, Steady, Resident, Fetches, Fetching, Faulted, InClock, Present
<1>6. Clean(p)'
  BY <1>1, <1>2, <1>3 DEF Good, Steady, Clean, Program
<1>7. Evicting(p)'
  <2> SUFFICES ASSUME NEW v \in VPage, Going(p, v)'
               PROVE  pc'[p] = "unmap" /\ ~ spt[p][v].swap /\ v \in Program /\ ~ pte[p][v].d
    BY <1>1 DEF Evicting
  <2>1. frame[hand] = <<p, v>> /\ pc'[p] = "unmap"
    BY <1>3
  <2>2. pte[p][v].p /\ spt[p][v].in
    BY <2>1 DEF Good, Base, TypeOK, Named
  <2>3. ~ spt[p][v].swap
    BY <1>3, <2>2 DEF Good, Steady, Resident
  <2>4. Kind[v] # "stack" /\ ~ pte[p][v].d
    BY <1>2, <2>1 DEF PteAt
  <2> QED BY <2>1, <2>3, <2>4 DEF Program
<1>8. Kept(p)
  <2>1. pc[p] \notin {"dead", "gone", "exiting"} /\ pc'[p] \notin {"dead", "gone", "exiting"}
    BY <1>2
  <2> QED BY <1>1, <1>3, <2>1 DEF Kept, PageContent
<1> QED BY <1>4, <1>5, <1>6, <1>7, <1>8 DEF Steady

\* Entering the handler changes no page.
LEMMA FaultSteady ==
  ASSUME NEW p \in Proc, Good(p), NEW v \in VPage, Fault(p, v)
  PROVE  Steady(p)' /\ Kept(p)
<1>1. /\ pc[p] = "user" /\ v \in machine.pages /\ ~ pte[p][v].p
      /\ UNCHANGED <<machine, buf, frame, data, hand, pte, used, sdata>>
  BY DEF Fault, At, frames, swap
<1> DEFINE how == Branch(spt[p][v], v)
<1>2. \/ ~ spt[p][v].in /\ how = "grow"
      \/ spt[p][v].in /\ spt[p][v].swap /\ how = "swap"
      \/ spt[p][v].in /\ ~ spt[p][v].swap /\ v \in Program /\ how = "file"
  <2>1. spt[p][v] \in Entry
    BY GoodFacts DEF Pages
  <2>2. ~ (spt[p][v].in /\ ~ spt[p][v].swap /\ v \notin Program)
    BY <1>1 DEF Good, Steady, Present, InClock
  <2>3. spt[p][v].in \in BOOLEAN /\ spt[p][v].swap \in BOOLEAN
    BY <2>1 DEF Entry
  <2>4. CASE ~ spt[p][v].in
    BY <2>4 DEF Branch
  <2>5. CASE spt[p][v].in /\ spt[p][v].swap
    BY <2>5 DEF Branch
  <2>6. CASE spt[p][v].in /\ ~ spt[p][v].swap
    <3>1. v \in Program /\ Kind[v] # "stack"
      BY <2>2, <2>6 DEF Program
    <3> QED BY <2>6, <3>1 DEF Branch
  <2> QED BY <2>3, <2>4, <2>5, <2>6
<1>3. pc'[p] = "lock" /\ fault'[p] = [page |-> v, how |-> how]
  <2>1. fault' = [fault EXCEPT ![p] = [page |-> v, how |-> how]] /\ Goto(p, "lock")
    BY <1>2 DEF Fault
  <2> HIDE DEF how
  <2> QED BY <2>1 DEF Goto, Good, Base, TypeOK
<1> HIDE DEF how
<1>4. fault'[p].page = v /\ fault'[p].how = how
  BY <1>3
<1>5. /\ spt[p][v].in => spt' = spt
      /\ ~ spt[p][v].in => spt'[p][v].in /\ ~ spt'[p][v].swap
      /\ \A w \in VPage : w # v => spt'[p][w] = spt[p][w]
  <2>1. \/ spt[p][v].in /\ UNCHANGED spt
        \/ ~ spt[p][v].in /\ SptSet(p, v, NewEntry(0))
    BY FaultBase DEF Good
  <2>2. NewEntry(0).in /\ ~ NewEntry(0).swap
    BY DEF NewEntry
  <2> QED BY <2>1, <2>2 DEF SptSet
<1>6. \A w \in VPage : /\ ~ Going(p, w)' /\ ~ InFlight(p, w)' /\ ~ Going(p, w) /\ ~ InFlight(p, w)
  BY <1>1, <1>3 DEF Going, InFlight
<1>7. Swaps(p)'
  <2>1. Held(p)' = Held(p)
    BY <1>5, <1>6 DEF Held, InSwap
  <2>2. \A w \in Held(p) : spt'[p][w].slot = spt[p][w].slot
    BY <1>5 DEF Held
  <2> QED BY <1>1, <2>1, <2>2, SwapsSame DEF Good, Steady
<1>8. ~ spt[p][v].in => v \notin Program
  BY <1>1 DEF Good, Steady, Present
<1>9. Resident(p)' /\ Clean(p)' /\ Evicting(p)'
  BY <1>1, <1>5, <1>6 DEF Good, Steady, Resident, Clean, Evicting, Program
<1>10. Fetches(p)' /\ Faulted(p)'
  BY <1>2, <1>3, <1>4, <1>5, <1>8 DEF Fetches, Fetching, Faulted, Program
<1>11. Present(p)'
  BY <1>1, <1>3, <1>4, <1>5 DEF Good, Steady, Present, InClock, Program
<1>12. Kept(p)
  <2> SUFFICES ASSUME NEW w \in VPage PROVE PageContent(p, w)' = PageContent(p, w)
    BY DEF Kept
  <2>1. CASE spt[p][w].in
    BY <1>1, <1>3, <1>5, <1>6, <2>1 DEF PageContent, InSwap, Program
  <2>2. CASE ~ spt[p][w].in /\ w = v
    <3>1. PageContent(p, v) = Absent
      BY <2>2 DEF PageContent
    <3>2. PageContent(p, v)' = Absent
      BY <1>1, <1>3, <1>5, <1>6, <1>8, <2>2 DEF PageContent, InSwap, Program
    <3> QED BY <2>2, <3>1, <3>2
  <2>3. CASE ~ spt[p][w].in /\ w # v
    BY <1>1, <1>3, <1>5, <2>3 DEF PageContent
  <2> QED BY <2>1, <2>2, <2>3
<1> QED BY <1>7, <1>9, <1>10, <1>11, <1>12 DEF Steady

\* The page at the hand is the running process's own.
LEMMA OwnFrame ==
  ASSUME NEW p \in Proc, Good(p), NEW q \in Proc, NEW v \in VPage, frame[hand] = <<q, v>>
  PROVE  q = p /\ pte[p][v].p /\ pte[p][v].f = hand /\ spt[p][v].in
<1>1. hand \in Frame
  BY DEF Good, Base, TypeOK
<1>2. pte[q][v].p /\ pte[q][v].f = hand /\ spt[q][v].in
  BY <1>1 DEF Good, Base, Named
<1> QED BY <1>2 DEF Good, Base, Asked, NoPte

\* Taking a slot for the victim changes no page.
LEMMA SwapOutSteady ==
  ASSUME NEW p \in Proc, Good(p), SwapOut(p)
  PROVE  Steady(p)' /\ Kept(p)
<1>1. /\ pc[p] = "out"
      /\ UNCHANGED <<machine, fault, frame, data, hand, pte, sdata>>
      /\ \/ UNCHANGED <<pc, buf, swapLock, spt, used>>
         \/ \E q \in Proc, v \in VPage : \E s \in Slot \ used :
              /\ frame[hand] = <<q, v>> /\ used' = used \cup {s} /\ buf' = [buf EXCEPT ![p] = s]
              /\ SptSet(q, v, [spt[q][v] EXCEPT !.slot = s, !.swap = TRUE])
              /\ pc'[p] = "copy"
  BY SwapOutBase DEF Good, frames
<1>2. CASE UNCHANGED <<pc, buf, swapLock, spt, used>>
  <2>1. \A w \in VPage : /\ Going(p, w)' = Going(p, w) /\ InFlight(p, w)' = InFlight(p, w)
                         /\ InSwap(p, w)' = InSwap(p, w)
    BY <1>1, <1>2 DEF Going, InFlight, InSwap
  <2>2. Swaps(p)'
    BY <1>2, <2>1, SwapsSame DEF Held, Good, Steady
  <2>3. Resident(p)' /\ Fetches(p)' /\ Faulted(p)' /\ Present(p)' /\ Clean(p)' /\ Evicting(p)'
    BY <1>1, <1>2, <2>1
    DEF Good, Steady, Resident, Fetches, Fetching, Faulted, InClock, Present,
                            Clean, Evicting, Program
  <2>4. Kept(p)
    BY <1>1, <1>2, <2>1 DEF Kept, PageContent
  <2> QED BY <2>2, <2>3, <2>4 DEF Steady
<1>3. ASSUME NEW q \in Proc, NEW v \in VPage, NEW s \in Slot \ used,
             frame[hand] = <<q, v>>, used' = used \cup {s}, buf' = [buf EXCEPT ![p] = s],
             SptSet(q, v, [spt[q][v] EXCEPT !.slot = s, !.swap = TRUE]), pc'[p] = "copy"
      PROVE  Steady(p)' /\ Kept(p)
  <2>1. q = p /\ pte[p][v].p /\ pte[p][v].f = hand /\ spt[p][v].in
    BY <1>3, OwnFrame
  <2> DEFINE e == [spt[p][v] EXCEPT !.slot = s, !.swap = TRUE]
  <2>2. e.slot = s /\ e.swap = TRUE /\ e.in
    <3>1. spt[p][v] \in Entry
      BY GoodFacts DEF Pages
    <3> QED BY <2>1, <3>1 DEF Entry
  <2>3. SptSet(p, v, e)
    BY <1>3, <2>1
  <2> HIDE DEF e
  <2>4. /\ spt'[p][v].slot = s /\ spt'[p][v].swap /\ spt'[p][v].in
        /\ \A w \in VPage : w # v => spt'[p][w] = spt[p][w]
    BY <2>2, <2>3 DEF SptSet
  <2>5. \A w \in VPage : /\ ~ InFlight(p, w) /\ ~ InFlight(p, w)' /\ ~ Going(p, w)
                         /\ (Going(p, w)' => w = v)
    <3>1. frame'[hand'] = <<p, v>> /\ pc[p] = "out" /\ pc'[p] = "copy"
      BY <1>1, <1>3, <2>1
    <3> QED BY <3>1 DEF Going, InFlight
  <2>6. Going(p, v)'
    BY <1>1, <1>3, <2>1 DEF Going
  <2>7. ~ spt[p][v].swap
    BY <2>1, <2>5 DEF Good, Steady, Resident
  <2>8. Swaps(p)'
    <3>1. v \notin Held(p) /\ Held(p)' = Held(p) \cup {v}
      BY <2>1, <2>4, <2>5, <2>7 DEF Held, InSwap
    <3>2. \A w \in Held(p) : spt'[p][w].slot = spt[p][w].slot /\ spt[p][w].slot # s
      BY <2>4, <3>1, GoodFacts DEF Held
    <3>3. Bits(p)' = Bits(p) \cup {s}
      <4>1. Bits(p)' = {spt'[p][w].slot : w \in Held(p) \cup {v}}
        BY <3>1 DEF Bits
      <4> QED BY <2>4, <3>2, <4>1 DEF Bits
    <3> QED BY <1>3, <2>4, <3>1, <3>2, <3>3 DEF Good, Steady, Swaps
  <2>9. Resident(p)'
    BY <1>1, <2>4, <2>5, <2>6 DEF Good, Steady, Resident
  <2>10. Fetches(p)' /\ Faulted(p)'
    <3>1. fault[p].page # v /\ fault[p].page \in VPage
      BY <1>1, <2>1, GoodFacts DEF Good, Base, Asked, InClock
    <3> QED BY <1>1, <1>3, <2>4, <3>1
            DEF Good, Steady, Fetches, Fetching, Faulted, InClock, Program
  <2>11. Present(p)' /\ Clean(p)'
    BY <1>1, <1>3, <2>1, <2>4, <2>5 DEF Good, Steady, Present, InClock, Clean, Program
  <2>12. Evicting(p)'
    <3>1. buf'[p] = s
      BY <1>3 DEF Good, Base, TypeOK
    <3> QED BY <1>3, <2>4, <2>5, <3>1 DEF Evicting
  <2>13. Kept(p)
    <3> SUFFICES ASSUME NEW w \in VPage PROVE PageContent(p, w)' = PageContent(p, w)
      BY DEF Kept
    <3>1. CASE w = v
      BY <1>1, <1>3, <2>1, <2>4, <2>5, <3>1 DEF PageContent
    <3>2. CASE w # v
      BY <1>1, <1>3, <2>4, <2>5, <3>2 DEF PageContent, InSwap, Program
    <3> QED BY <3>1, <3>2
  <2> QED BY <2>8, <2>9, <2>10, <2>11, <2>12, <2>13 DEF Steady
<1> QED BY <1>1, <1>2, <1>3

\* Writing the victim to its slot changes no page: the slot is no other one's.
LEMMA CopySteady ==
  ASSUME NEW p \in Proc, Good(p), Copy(p)
  PROVE  Steady(p)' /\ Kept(p)
<1>1. /\ pc[p] = "copy" /\ pc'[p] = "unmap" /\ buf[p] \in Slot
      /\ sdata' = [sdata EXCEPT ![buf[p]] = data[hand]]
      /\ UNCHANGED <<machine, fault, frame, data, hand, spt, pte, used>>
  BY CopyBase DEF Copy, At, Good, frames
<1>2. PICK v \in VPage : frame[hand] = <<p, v>> /\ pte[p][v].p /\ spt[p][v].in
  <2>1. frame[hand] # NoPage
    BY <1>1 DEF Good, Base, Hands
  <2> QED BY <2>1, HandPage, OwnFrame DEF Good, Base
<1>3. Going(p, v) /\ \A w \in VPage : Going(p, w) => w = v
  BY <1>1, <1>2 DEF Going
<1>4. spt[p][v].swap /\ buf[p] = spt[p][v].slot /\ v \in Held(p)
  BY <1>1, <1>2, <1>3 DEF Good, Steady, Evicting, Held, InSwap
<1>5. \A w \in VPage : /\ ~ InFlight(p, w) /\ ~ InFlight(p, w)' /\ InSwap(p, w)' = InSwap(p, w)
                       /\ Going(p, w)' = Going(p, w)
  BY <1>1 DEF InFlight, InSwap, Going
<1>6. sdata'[spt[p][v].slot] = data[hand]
  BY <1>1, <1>4 DEF Good, Base, TypeOK
<1>7. \A w \in Held(p) : w # v => sdata'[spt[p][w].slot] = sdata[spt[p][w].slot]
  <2> SUFFICES ASSUME NEW w \in Held(p), w # v
               PROVE  sdata'[spt[p][w].slot] = sdata[spt[p][w].slot]
    OBVIOUS
  <2>1. spt[p][w].slot \in used /\ used \subseteq Slot
    BY GoodFacts DEF Good, Base, TypeOK
  <2>2. spt[p][w].slot # buf[p]
    BY <1>4 DEF Good, Steady, Swaps
  <2> QED BY <1>1, <2>1, <2>2 DEF Good, Base, TypeOK
<1>8. Swaps(p)'
  <2>1. Held(p)' = Held(p)
    BY <1>1, <1>5 DEF Held
  <2> QED BY <1>1, <2>1, SwapsSame DEF Good, Steady
<1>9. Resident(p)' /\ Fetches(p)' /\ Faulted(p)' /\ Present(p)' /\ Clean(p)'
  <2>1. fault[p].page \in VPage
    BY GoodFacts
  <2> QED BY <1>1, <1>5, <2>1 DEF Good, Steady, Resident, Fetches, Fetching, Faulted, InClock,
                                  Present, Clean, Program
<1>10. Evicting(p)'
  BY <1>1, <1>3, <1>4, <1>5, <1>6 DEF Evicting
<1>11. Kept(p)
  <2> SUFFICES ASSUME NEW w \in VPage PROVE PageContent(p, w)' = PageContent(p, w)
    BY DEF Kept
  <2>1. CASE w = v
    BY <1>1, <1>2, <1>5, <2>1 DEF PageContent
  <2>2. CASE w # v /\ w \in Held(p)
    BY <1>1, <1>5, <1>7, <2>2 DEF PageContent, Program
  <2>3. CASE w \notin Held(p)
    BY <1>1, <1>5, <2>3 DEF PageContent, Held, Program
  <2> QED BY <2>1, <2>2, <2>3
<1> QED BY <1>8, <1>9, <1>10, <1>11 DEF Steady

\* Unmapping the victim changes no page: its data are in its slot or its file.
LEMMA UnmapSteady ==
  ASSUME NEW p \in Proc, Good(p), Unmap(p)
  PROVE  Steady(p)' /\ Kept(p)
<1>1. /\ pc[p] = "unmap" /\ pc'[p] = "insert"
      /\ UNCHANGED <<machine, fault, buf, data, hand, used, sdata>>
  BY UnmapBase DEF Unmap, Good, swap
<1>2. PICK q \in Proc, v \in VPage :
        /\ frame[hand] = <<q, v>> /\ SptSet(q, v, [spt[q][v] EXCEPT !.index = 0]) /\ PteSet(q, v, NoPte)
  BY UnmapBase DEF Good
<1>3. q = p /\ pte[p][v].p /\ pte[p][v].f = hand /\ spt[p][v].in
  BY <1>2, OwnFrame
<1> DEFINE e == [spt[p][v] EXCEPT !.index = 0]
<1>4. e.in = spt[p][v].in /\ e.swap = spt[p][v].swap /\ e.slot = spt[p][v].slot
  <2>1. spt[p][v] \in Entry
    BY GoodFacts DEF Pages
  <2> QED BY <2>1 DEF Entry
<1>5. SptSet(p, v, e) /\ PteSet(p, v, NoPte)
  BY <1>2, <1>3
<1> HIDE DEF e
<1>6. /\ \A w \in VPage : spt'[p][w].in = spt[p][w].in /\ spt'[p][w].swap = spt[p][w].swap
                          /\ spt'[p][w].slot = spt[p][w].slot
      /\ ~ pte'[p][v].p /\ \A w \in VPage : w # v => pte'[p][w] = pte[p][w]
  BY <1>4, <1>5 DEF SptSet, PteSet, NoPte
<1>7. Going(p, v) /\ \A w \in VPage : Going(p, w) => w = v
  BY <1>1, <1>2, <1>3 DEF Going
<1>8. \A w \in VPage : /\ ~ InFlight(p, w) /\ ~ InFlight(p, w)' /\ InSwap(p, w)' = InSwap(p, w)
                       /\ ~ Going(p, w)'
  BY <1>1, <1>6 DEF InFlight, InSwap, Going
<1>9. \/ spt[p][v].swap /\ v \in Held(p) /\ sdata[spt[p][v].slot] = data[hand]
      \/ ~ spt[p][v].swap /\ v \in Program /\ ~ pte[p][v].d /\ data[hand] = FileData(p, v)
  <2>1. \/ spt[p][v].swap /\ sdata[spt[p][v].slot] = data[hand]
        \/ ~ spt[p][v].swap /\ v \in Program /\ ~ pte[p][v].d
    BY <1>1, <1>7 DEF Good, Steady, Evicting
  <2>2. v \in Program /\ ~ pte[p][v].d => data[hand] = FileData(p, v)
    BY <1>1, <1>3, <1>8 DEF Good, Steady, Clean
  <2> QED BY <1>3, <2>1, <2>2 DEF Held, InSwap
<1>10. Swaps(p)'
  <2>1. Held(p)' = Held(p)
    BY <1>6, <1>8 DEF Held
  <2> QED BY <1>1, <1>6, <2>1, SwapsSame DEF Good, Steady, Held
<1>11. Resident(p)' /\ Clean(p)' /\ Evicting(p)'
  BY <1>1, <1>6, <1>7, <1>8 DEF Good, Steady, Resident, Clean, Evicting, Program
<1>12. Fetches(p)' /\ Faulted(p)'
  <2>1. fault[p].page \in VPage
    BY GoodFacts
  <2> QED BY <1>1, <1>6, <2>1 DEF Good, Steady, Fetches, Fetching, Faulted, InClock, Program
<1>13. Present(p)'
  BY <1>1, <1>6, <1>9 DEF Good, Steady, Present, InClock, Program
<1>14. Kept(p)
  <2> SUFFICES ASSUME NEW w \in VPage PROVE PageContent(p, w)' = PageContent(p, w)
    BY DEF Kept
  <2>1. CASE w = v
    <3>1. PageContent(p, v) = data[hand]
      BY <1>1, <1>3, <1>8 DEF PageContent
    <3>2. PageContent(p, v)' = data[hand]
      <4>1. CASE spt[p][v].swap
        <5>1. spt[p][v].slot # 0
          BY <1>9, <4>1, GoodFacts
        <5> QED BY <1>1, <1>3, <1>6, <1>9, <4>1, <5>1 DEF PageContent, InSwap
      <4>2. CASE ~ spt[p][v].swap
        BY <1>1, <1>3, <1>6, <1>8, <1>9, <4>2 DEF PageContent, InSwap, Program
      <4> QED BY <4>1, <4>2
    <3> QED BY <2>1, <3>1, <3>2
  <2>2. CASE w # v
    BY <1>1, <1>6, <1>8, <2>2 DEF PageContent, Program
  <2> QED BY <2>1, <2>2
<1> QED BY <1>10, <1>11, <1>12, <1>13, <1>14 DEF Steady

\* Mapping the page changes no page, but that a new stack page appears.
LEMMA InsertSteady ==
  ASSUME NEW p \in Proc, Good(p), Insert(p), NEW v \in VPage, v = fault[p].page
  PROVE  /\ Steady(p)'
         /\ \A w \in VPage : w # v \/ v \in Program => PageContent(p, w)' = PageContent(p, w)
         /\ v \notin Program /\ PageContent(p, v)' # PageContent(p, v) =>
              PageContent(p, v) = Absent /\ PageContent(p, v)' # Absent
<1> DEFINE e == [spt[p][v] EXCEPT !.swap = FALSE, !.index = hand,
                                  !.slot = IF spt[p][v].swap THEN @ ELSE 0]
           t == [p |-> TRUE, a |-> TRUE, d |-> FALSE, f |-> hand]
<1>1. /\ SptSet(p, v, e) /\ PteSet(p, v, t)
      /\ e.in /\ ~ e.swap /\ e.slot = (IF spt[p][v].swap THEN spt[p][v].slot ELSE 0)
      /\ e.index = hand
      /\ pc'[p] = (IF fault[p].how = "grow" THEN "user" ELSE "fill")
      /\ fault'[p] = (IF fault[p].how = "grow" THEN NoFault ELSE fault[p])
      /\ frame[hand] = NoPage /\ frame'[hand] = <<p, v>> /\ ~ pte[p][v].p
  BY InsertBase DEF Good
<1>2. t.p /\ t.f = hand
  OBVIOUS
<1> HIDE DEF e, t
<1>3. pc[p] = "insert" /\ data' = [data EXCEPT ![hand] = Junk]
      /\ UNCHANGED <<machine, used, sdata>>
  BY DEF Insert, At, swap
<1>4. v \in VPage /\ spt[p][v].in
  BY <1>3, GoodFacts DEF Good, Base, Asked, InClock
<1>5. /\ spt'[p][v].in /\ ~ spt'[p][v].swap
      /\ spt'[p][v].slot = (IF spt[p][v].swap THEN spt[p][v].slot ELSE 0)
      /\ pte'[p][v].p /\ pte'[p][v].f = hand
      /\ \A w \in VPage : w # v => spt'[p][w] = spt[p][w] /\ pte'[p][w] = pte[p][w]
  BY <1>1, <1>2 DEF SptSet, PteSet
<1>6. /\ hand \in Frame /\ data \in [Frame -> Content]
      /\ data'[hand] = Junk /\ \A f \in Frame : f # hand => data'[f] = data[f]
  BY <1>3 DEF Good, Base, TypeOK
<1>7. \A w \in VPage : pte[p][w].p => pte[p][w].f # hand /\ data'[pte[p][w].f] = data[pte[p][w].f]
  <2>1. \A w \in VPage : <<p, w>> # NoPage
    BY VirtualMemoryAssumption DEF NoPage
  <2>2. \A w \in VPage : pte[p][w].p => pte[p][w].f \in Frame /\ frame[pte[p][w].f] = <<p, w>>
    BY GoodFacts
  <2> QED BY <1>1, <1>6, <2>1, <2>2
<1>8. \/ fault[p].how = "swap" /\ spt[p][v].swap
      \/ fault[p].how = "file" /\ ~ spt[p][v].swap /\ v \in Program
      \/ fault[p].how = "grow" /\ ~ spt[p][v].swap /\ v \notin Program
  BY <1>3 DEF Good, Steady, Faulted, InClock
<1>9. /\ \A w \in VPage : ~ Going(p, w) /\ ~ InFlight(p, w) /\ ~ Going(p, w)'
      /\ \A w \in VPage : w # v => ~ InFlight(p, w)'
      /\ InFlight(p, v)' = (fault[p].how # "grow")
      /\ InFlight(p, v)' => fault'[p] = fault[p] /\ pc'[p] = "fill"
  BY <1>1, <1>3, <1>4 DEF Going, InFlight
<1>10. Swaps(p)'
  <2>1. \A w \in VPage : InSwap(p, w)' = InSwap(p, w)
    <3>1. \A w \in VPage : w # v => InSwap(p, w)' = InSwap(p, w)
      BY <1>5, <1>9 DEF InSwap
    <3>2. InSwap(p, v)' = InSwap(p, v)
      BY <1>5, <1>8, <1>9 DEF InSwap
    <3> QED BY <3>1, <3>2
  <2>2. Held(p)' = Held(p)
    BY <1>4, <1>5, <2>1 DEF Held
  <2>3. \A w \in Held(p) : spt'[p][w].slot = spt[p][w].slot
    BY <1>5, <1>9 DEF Held, InSwap
  <2> QED BY <1>3, <2>2, <2>3, SwapsSame DEF Good, Steady
<1>11. Resident(p)'
  BY <1>5, <1>9 DEF Good, Steady, Resident
<1>12. Fetches(p)' /\ Faulted(p)'
  <2>1. CASE fault[p].how = "grow"
    BY <1>1, <2>1 DEF Fetches, Fetching, Faulted, InClock
  <2>2. CASE fault[p].how # "grow"
    <3>1. fault'[p] = fault[p] /\ pc'[p] = "fill"
      BY <1>1, <2>2
    <3>2. fault'[p].page = v
      BY <3>1
    <3> QED BY <1>5, <1>8, <2>2, <3>1, <3>2 DEF Fetches, Fetching, Faulted, InClock, Program
  <2> QED BY <2>1, <2>2
<1>13. Present(p)'
  <2>1. \A w \in VPage : w \notin Program /\ spt[p][w].in /\ ~ spt[p][w].swap /\ ~ pte[p][w].p => w = v
    BY DEF Good, Steady, Present
  <2>2. \A w \in Program : spt[p][w].in
    BY <1>3 DEF Good, Steady, Present, Program
  <2> QED BY <1>1, <1>5, <2>1, <2>2 DEF Present, Program
<1>14. Clean(p)' /\ Evicting(p)'
  <2> SUFFICES ASSUME NEW w \in Program, pte'[p][w].p, ~ pte'[p][w].d, ~ InFlight(p, w)'
               PROVE  data'[pte'[p][w].f] = FileData(p, w)
    BY <1>9 DEF Clean, Evicting, Program
  <2>1. w \in VPage
    BY DEF Program
  <2>2. w # v
    BY <1>8, <1>9, VirtualMemoryAssumption
  <2>3. data[pte[p][w].f] = FileData(p, w)
    BY <1>3, <1>5, <1>9, <2>1, <2>2 DEF Good, Steady, Clean
  <2> QED BY <1>5, <1>7, <2>1, <2>2, <2>3
<1>15. \A w \in VPage : w # v => PageContent(p, w)' = PageContent(p, w)
  BY <1>1, <1>3, <1>5, <1>7, <1>9 DEF PageContent, InSwap, Program
<1>16. v \in Program => PageContent(p, v)' = PageContent(p, v)
  <2>1. CASE fault[p].how = "swap"
    <3>1. v \in Held(p) /\ spt[p][v].slot # 0
      BY <1>4, <1>8, <2>1, GoodFacts DEF Held, InSwap
    <3>2. PageContent(p, v) = sdata[spt[p][v].slot]
      BY <1>1, <1>3, <1>4, <1>8, <2>1, <3>1 DEF PageContent, InSwap
    <3>3. InFlight(p, v)' /\ InSwap(p, v)'
      BY <1>9, <2>1 DEF InSwap
    <3>4. PageContent(p, v)' = sdata[spt[p][v].slot]
      BY <1>1, <1>3, <1>5, <1>8, <2>1, <3>1, <3>3 DEF PageContent
    <3> QED BY <3>2, <3>4
  <2>2. CASE fault[p].how = "file"
    <3>1. PageContent(p, v) = FileData(p, v)
      BY <1>1, <1>3, <1>4, <1>8, <1>9, <2>2 DEF PageContent, InSwap
    <3>2. InFlight(p, v)' /\ ~ InSwap(p, v)'
      BY <1>5, <1>9, <2>2 DEF InSwap
    <3>3. PageContent(p, v)' = FileData(p, v)
      BY <1>1, <1>5, <1>8, <2>2, <3>2 DEF PageContent, Program
    <3> QED BY <3>1, <3>3
  <2> QED BY <1>8, <2>1, <2>2
<1>17. v \notin Program /\ PageContent(p, v)' # PageContent(p, v) =>
         PageContent(p, v) = Absent /\ PageContent(p, v)' # Absent
  <2>1. CASE fault[p].how = "swap"
    <3>1. v \in Held(p) /\ spt[p][v].slot # 0
      BY <1>4, <1>8, <2>1, GoodFacts DEF Held, InSwap
    <3>2. PageContent(p, v) = sdata[spt[p][v].slot]
      BY <1>1, <1>3, <1>4, <1>8, <2>1, <3>1 DEF PageContent, InSwap
    <3>3. InFlight(p, v)' /\ InSwap(p, v)'
      BY <1>9, <2>1 DEF InSwap
    <3>4. PageContent(p, v)' = sdata[spt[p][v].slot]
      BY <1>1, <1>3, <1>5, <1>8, <2>1, <3>1, <3>3 DEF PageContent
    <3> QED BY <3>2, <3>4
  <2>2. CASE fault[p].how = "grow"
    <3>1. ~ InSwap(p, v)
      BY <1>8, <1>9, <2>2 DEF InSwap
    <3>2. v \notin Program => PageContent(p, v) = Absent
      BY <1>1, <1>3, <1>4, <3>1 DEF PageContent
    <3>3. PageContent(p, v)' = Junk
      BY <1>1, <1>5, <1>6, <1>9, <2>2 DEF PageContent
    <3>4. Junk # Absent
      BY DEF Junk, Absent
    <3> QED BY <3>2, <3>3, <3>4
  <2> QED BY <1>8, <2>1, <2>2
<1>18. Steady(p)'
  BY <1>10, <1>11, <1>12, <1>13, <1>14 DEF Steady
<1> QED BY <1>15, <1>16, <1>17, <1>18

\* FillFromFile and FillFromSwap.
LEMMA FillSteady ==
  ASSUME NEW p \in Proc, Good(p), FillFromFile(p) \/ FillFromSwap(p),
         NEW v \in VPage, v = fault[p].page
  PROVE  Steady(p)' /\ Kept(p)
<1>1. /\ pc[p] = "fill" /\ buf' = [buf EXCEPT ![p] = spt[p][v].index]
      /\ UNCHANGED <<machine, fault, frame, data, hand, pte, used, sdata>>
      /\ spt' = spt \/ spt' = [spt EXCEPT ![p][v].swap = FALSE]
  BY DEF FillFromFile, FillFromSwap, At, frames, swap
<1>2. pc'[p] = "filling"
  BY FillFromFileBase, FillFromSwapBase DEF Good
<1>3. ~ spt[p][v].swap /\ pte[p][v].p
  BY <1>1 DEF Good, Steady, Fetches
<1>4. \A w \in VPage : /\ spt'[p][w].in = spt[p][w].in /\ spt'[p][w].swap = spt[p][w].swap
                       /\ spt'[p][w].slot = spt[p][w].slot /\ spt'[p][w].index = spt[p][w].index
  <2>1. CASE spt' = spt
    BY <2>1
  <2>2. CASE spt' = [spt EXCEPT ![p][v].swap = FALSE]
    <3>1. spt[p][v] \in Entry /\ spt \in Pages(Entry)
      BY GoodFacts DEF Pages
    <3>2. [spt[p][v] EXCEPT !.swap = FALSE] = spt[p][v]
      BY <1>3, <3>1 DEF Entry
    <3>3. spt' = [spt EXCEPT ![p][v] = [spt[p][v] EXCEPT !.swap = FALSE]]
      BY <2>2
    <3>4. \A w \in VPage : spt'[p][w] = spt[p][w]
      BY <3>1, <3>2, <3>3 DEF Pages
    <3> QED BY <3>4
  <2> QED BY <1>1, <2>1, <2>2
<1>5. buf'[p] = spt[p][v].index
  BY <1>1 DEF Good, Base, TypeOK
<1>6. \A w \in VPage : /\ ~ Going(p, w) /\ ~ Going(p, w)' /\ InFlight(p, w)' = InFlight(p, w)
                       /\ InSwap(p, w)' = InSwap(p, w)
  BY <1>1, <1>2, <1>4 DEF Going, InFlight, InSwap
<1>7. Swaps(p)'
  <2>1. Held(p)' = Held(p)
    BY <1>4, <1>6 DEF Held
  <2> QED BY <1>1, <1>4, <2>1, SwapsSame DEF Good, Steady, Held
<1>8. Resident(p)' /\ Evicting(p)' /\ Clean(p)'
  BY <1>1, <1>2, <1>4, <1>6 DEF Good, Steady, Resident, Evicting, Clean, Program
<1>9. Fetches(p)' /\ Faulted(p)' /\ Present(p)'
  BY <1>1, <1>2, <1>4, <1>5
     DEF Good, Steady, Fetches, Fetching, Faulted, Present, InClock, Program
<1>10. Kept(p)
  BY <1>1, <1>2, <1>4, <1>6 DEF Kept, PageContent
<1> QED BY <1>7, <1>8, <1>9, <1>10 DEF Steady

\* The frame the data of a fault go to is that of the page.
LEMMA Arrives ==
  ASSUME NEW p \in Proc, Good(p), pc[p] = "filling", NEW v \in VPage, v = fault[p].page,
         NEW c, Arrive(p, c)
  PROVE  /\ buf[p] # 0 /\ pte[p][v].p /\ ~ spt[p][v].swap /\ spt[p][v].in
         /\ data'[pte[p][v].f] = c
         /\ \A w \in VPage : w # v /\ pte[p][w].p => data'[pte[p][w].f] = data[pte[p][w].f]
<1>1. pte[p][v].p /\ ~ spt[p][v].swap /\ buf[p] = spt[p][v].index
  BY DEF Good, Steady, Fetches
<1>2. pte[p][v].f \in Frame /\ spt[p][v].in /\ buf[p] = pte[p][v].f
  BY <1>1, GoodFacts
<1>3. buf[p] # 0 /\ data' = [data EXCEPT ![pte[p][v].f] = c]
  <2>1. buf[p] # 0
    BY <1>2, Sizes DEF Frame, Good, Base
  <2> QED BY <1>2, <2>1 DEF Arrive
<1>4. data'[pte[p][v].f] = c
  BY <1>2, <1>3 DEF Good, Base, TypeOK
<1>5. \A w \in VPage : w # v /\ pte[p][w].p => data'[pte[p][w].f] = data[pte[p][w].f]
  BY <1>1, <1>2, <1>3, GoodFacts DEF Good, Base, TypeOK
<1> QED BY <1>1, <1>2, <1>3, <1>4, <1>5

\* The file's data are those the page had.
LEMMA FilledFromFileSteady ==
  ASSUME NEW p \in Proc, Good(p), FilledFromFile(p), NEW v \in VPage, v = fault[p].page
  PROVE  Steady(p)' /\ Kept(p)
<1>1. /\ pc[p] = "filling" /\ fault[p].how = "file" /\ Arrive(p, FileData(p, v))
      /\ UNCHANGED <<machine, frame, hand, spt, pte, used, sdata>>
  BY DEF FilledFromFile, At, swap
<1>2. /\ buf[p] # 0 /\ pte[p][v].p /\ ~ spt[p][v].swap /\ spt[p][v].in
      /\ data'[pte[p][v].f] = FileData(p, v)
      /\ \A w \in VPage : w # v /\ pte[p][w].p => data'[pte[p][w].f] = data[pte[p][w].f]
  BY <1>1, Arrives
<1>3. pc'[p] = "user" /\ v \in Program
  BY <1>1, <1>2, FilledFromFileBase DEF Good, Steady, Fetches, Fetching
<1>4. /\ \A w \in VPage : ~ Going(p, w) /\ ~ Going(p, w)' /\ ~ InFlight(p, w)'
                          /\ InSwap(p, w)' = InSwap(p, w)
      /\ InFlight(p, v) /\ \A w \in VPage : w # v => ~ InFlight(p, w)
  BY <1>1, <1>3 DEF Going, InFlight, InSwap
<1>5. Swaps(p)'
  <2>1. Held(p)' = Held(p)
    BY <1>1, <1>4 DEF Held
  <2> QED BY <1>1, <2>1, SwapsSame DEF Good, Steady, Held
<1>6. Resident(p)' /\ Evicting(p)'
  BY <1>1, <1>4 DEF Good, Steady, Resident, Evicting
<1>7. Clean(p)'
  BY <1>1, <1>2, <1>3, <1>4 DEF Good, Steady, Clean, Program
<1>8. Fetches(p)' /\ Faulted(p)' /\ Present(p)'
  BY <1>1, <1>2, <1>3
  DEF Good, Steady, Fetches, Fetching, Faulted, Present, InClock, Program
<1>9. Kept(p)
  <2> SUFFICES ASSUME NEW w \in VPage PROVE PageContent(p, w)' = PageContent(p, w)
    BY DEF Kept
  <2>1. CASE w = v
    <3>1. PageContent(p, v) = FileData(p, v)
      BY <1>1, <1>2, <1>3, <1>4 DEF PageContent, InSwap
    <3>2. PageContent(p, v)' = FileData(p, v)
      BY <1>1, <1>2, <1>3, <1>4 DEF PageContent
    <3> QED BY <2>1, <3>1, <3>2
  <2>2. CASE w # v
    BY <1>1, <1>2, <1>3, <1>4, <2>2 DEF PageContent
  <2> QED BY <2>1, <2>2
<1> QED BY <1>5, <1>6, <1>7, <1>8, <1>9 DEF Steady

\* The slot's data are those the page had, and its bit is reset.
LEMMA FilledFromSwapSteady ==
  ASSUME NEW p \in Proc, Good(p), FilledFromSwap(p), NEW v \in VPage, v = fault[p].page
  PROVE  Steady(p)' /\ Kept(p)
<1> DEFINE slot == spt[p][v].slot
<1>1. /\ pc[p] = "filling" /\ fault[p].how = "swap" /\ Arrive(p, sdata[slot])
      /\ used' = (IF buf[p] = 0 THEN used ELSE used \ {slot})
      /\ sdata' = (IF buf[p] = 0 \/ slot = 0 THEN sdata ELSE [sdata EXCEPT ![slot] = Junk])
      /\ UNCHANGED <<machine, fault, frame, hand, spt, pte>>
  BY DEF FilledFromSwap, At
<1>2. /\ buf[p] # 0 /\ pte[p][v].p /\ ~ spt[p][v].swap /\ spt[p][v].in
      /\ data'[pte[p][v].f] = sdata[slot]
      /\ \A w \in VPage : w # v /\ pte[p][w].p => data'[pte[p][w].f] = data[pte[p][w].f]
  BY <1>1, Arrives
<1>3. pc'[p] = "dirty"
  BY <1>2, FilledFromSwapBase DEF Good
<1>4. /\ \A w \in VPage : ~ Going(p, w) /\ ~ Going(p, w)' /\ ~ InFlight(p, w)'
      /\ InFlight(p, v) /\ \A w \in VPage : w # v => ~ InFlight(p, w)
      /\ \A w \in VPage : w # v => InSwap(p, w)' = InSwap(p, w)
      /\ InSwap(p, v) /\ ~ InSwap(p, v)'
  BY <1>1, <1>2, <1>3 DEF Going, InFlight, InSwap
<1>5. v \in Held(p) /\ slot # 0 /\ \A w \in Held(p) : w # v => spt[p][w].slot # slot
  <2>1. v \in Held(p)
    BY <1>2, <1>4 DEF Held
  <2>2. \A w \in Held(p) : w # v => spt[p][w].slot # slot
    BY <2>1 DEF Good, Steady, Swaps
  <2> QED BY <2>1, <2>2, GoodFacts
<1>6. \A w \in Held(p) : w # v => sdata'[spt[p][w].slot] = sdata[spt[p][w].slot]
  BY <1>1, <1>5, GoodFacts DEF Good, Base, TypeOK
<1>7. Swaps(p)'
  <2>1. Held(p)' = Held(p) \ {v}
    BY <1>1, <1>4 DEF Held
  <2>2. Bits(p)' = {spt[p][w].slot : w \in Held(p) \ {v}}
    BY <1>1, <2>1 DEF Bits
  <2>3. Bits(p)' = Bits(p) \ {slot}
    BY <1>5, <2>2 DEF Bits
  <2>4. used' = used \ {slot}
    BY <1>1, <1>2
  <2> HIDE DEF slot
  <2> QED BY <1>1, <2>1, <2>3, <2>4 DEF Good, Steady, Swaps
<1> HIDE DEF slot
<1>8. Resident(p)' /\ Evicting(p)'
  BY <1>1, <1>4 DEF Good, Steady, Resident, Evicting
<1>9. Clean(p)'
  BY <1>1, <1>2, <1>3, <1>4 DEF Good, Steady, Clean, Program
<1>10. Fetches(p)' /\ Faulted(p)' /\ Present(p)'
  BY <1>1, <1>2, <1>3
  DEF Good, Steady, Fetches, Fetching, Faulted, Present, InClock, Program
<1>11. Kept(p)
  <2> SUFFICES ASSUME NEW w \in VPage PROVE PageContent(p, w)' = PageContent(p, w)
    BY DEF Kept
  <2>1. CASE w = v
    <3>1. PageContent(p, v) = sdata[slot]
      BY <1>1, <1>2, <1>4, <1>5 DEF PageContent, slot
    <3>2. PageContent(p, v)' = sdata[slot]
      BY <1>1, <1>2, <1>3, <1>4 DEF PageContent
    <3> QED BY <2>1, <3>1, <3>2
  <2>2. CASE w # v /\ w \in Held(p)
    BY <1>1, <1>2, <1>3, <1>4, <1>6, <2>2 DEF PageContent, Program
  <2>3. CASE w # v /\ w \notin Held(p)
    BY <1>1, <1>2, <1>3, <1>4, <2>3 DEF PageContent, Program, Held
  <2> QED BY <2>1, <2>2, <2>3
<1> QED BY <1>7, <1>8, <1>9, <1>10, <1>11 DEF Steady

\* The end of bring_page_from_swap changes no page.
LEMMA SetDirtySteady ==
  ASSUME NEW p \in Proc, Good(p), SetDirty(p), NEW v \in VPage, v = fault[p].page
  PROVE  Steady(p)' /\ Kept(p)
<1> DEFINE e == [spt[p][v] EXCEPT !.slot = 0]
           t == [pte[p][v] EXCEPT !.d = TRUE]
<1>1. /\ pc[p] = "dirty" /\ UNCHANGED <<machine, buf, frame, data, hand, used, sdata>>
  BY DEF SetDirty, At, frames, swap
<1>2. pc'[p] = "user" /\ PteSet(p, v, t) /\ SptSet(p, v, e)
  BY SetDirtyBase DEF Good
<1>3. /\ e.in = spt[p][v].in /\ e.swap = spt[p][v].swap
      /\ t.p = pte[p][v].p /\ t.f = pte[p][v].f /\ t.d
  <2>1. spt[p][v] \in Entry /\ pte[p][v] \in Pte
    BY GoodFacts DEF Pages
  <2> QED BY <2>1 DEF Entry, Pte
<1> HIDE DEF e, t
<1>4. /\ \A w \in VPage : /\ spt'[p][w].in = spt[p][w].in /\ spt'[p][w].swap = spt[p][w].swap
                          /\ pte'[p][w].p = pte[p][w].p /\ pte'[p][w].f = pte[p][w].f
      /\ pte'[p][v].d
      /\ \A w \in VPage : w # v => spt'[p][w].slot = spt[p][w].slot /\ pte'[p][w].d = pte[p][w].d
  BY <1>2, <1>3 DEF SptSet, PteSet
<1>5. pte[p][v].p /\ ~ spt[p][v].swap
  BY <1>1 DEF Good, Steady, Fetches
<1>6. \A w \in VPage : /\ ~ Going(p, w) /\ ~ Going(p, w)' /\ ~ InFlight(p, w) /\ ~ InFlight(p, w)'
                       /\ InSwap(p, w)' = InSwap(p, w)
  BY <1>1, <1>2, <1>4 DEF Going, InFlight, InSwap
<1>7. ~ InSwap(p, v)
  BY <1>5, <1>6 DEF InSwap
<1>8. Swaps(p)'
  <2>1. Held(p)' = Held(p) /\ v \notin Held(p)
    BY <1>4, <1>6, <1>7 DEF Held
  <2> QED BY <1>1, <1>4, <2>1, SwapsSame DEF Good, Steady, Held
<1>9. Resident(p)' /\ Evicting(p)' /\ Clean(p)'
  BY <1>1, <1>2, <1>4, <1>6 DEF Good, Steady, Resident, Evicting, Clean, Program
<1>10. Fetches(p)' /\ Faulted(p)' /\ Present(p)'
  BY <1>1, <1>2, <1>4
  DEF Good, Steady, Fetches, Fetching, Faulted, Present, InClock, Program
<1>11. Kept(p)
  BY <1>1, <1>2, <1>4, <1>5, <1>6, <1>7 DEF Kept, PageContent
<1> QED BY <1>8, <1>9, <1>10, <1>11 DEF Steady

\* Loading gives the process its program's pages.
LEMMA StartSteady ==
  ASSUME NEW p \in Proc, Base, Mapped, machine.who = {p}, Steady(p), Start(p)
  PROVE  /\ Steady(p)'
         /\ \A v \in VPage : PageContent(p, v) = Absent
         /\ \A v \in VPage : PageContent(p, v)' = IF v \in Program THEN FileData(p, v) ELSE Absent
<1>1. pc[p] = "dead" /\ UNCHANGED <<machine, buf, frame, data, hand, pte, used, sdata>> /\ Return(p, "lock")
  BY DEF Start, At, frames, swap
<1>2. pc'[p] = "lock" /\ fault'[p] = NoFault
  BY <1>1, Returns DEF Base, Labels
<1>3. PICK index \in UnsetIndex :
        \A v \in VPage : spt'[p][v] = IF v \in machine.pages /\ (v \in Program \/ v = Top)
                                      THEN NewEntry(index) ELSE NoEntry
  BY StartBase
<1>4. \A v \in VPage : v \in Program \/ v = Top => v \in machine.pages
  BY VirtualMemoryAssumption DEF Base, TypeOK, Program
<1>5. \A v \in VPage : /\ spt'[p][v].in <=> v \in Program \/ v = Top
                       /\ ~ spt'[p][v].swap
  BY <1>3, <1>4 DEF NewEntry, NoEntry
<1>6. \A v \in VPage : ~ spt[p][v].in /\ ~ pte[p][v].p /\ ~ pte'[p][v].p
  BY <1>1 DEF Base, Asked, NoEntry, NoPte
<1>7. \A v \in VPage : ~ InFlight(p, v)' /\ ~ Going(p, v)'
  BY <1>2 DEF InFlight, Going
<1>8. Top \in VPage /\ Top \notin Program /\ NoFault.page = Top /\ NoFault.how = "grow"
  BY VirtualMemoryAssumption DEF Program, NoFault
<1>9. Swaps(p)'
  <2>1. Held(p) = {} /\ Held(p)' = {}
    BY <1>5, <1>6, <1>7 DEF Held, InSwap
  <2>2. Bits(p) = {} /\ Bits(p)' = {}
    BY <2>1 DEF Bits
  <2> QED BY <1>1, <2>1, <2>2 DEF Steady, Swaps
<1>10. Resident(p)' /\ Evicting(p)' /\ Clean(p)'
  BY <1>6, <1>7 DEF Resident, Evicting, Clean, Program
<1>11. Fetches(p)' /\ Faulted(p)'
  BY <1>2, <1>5, <1>8 DEF Fetches, Fetching, Faulted
<1>12. Present(p)'
  BY <1>2, <1>5, <1>8 DEF Present, Program
<1>13. \A v \in VPage : PageContent(p, v) = Absent
  BY <1>1 DEF PageContent
<1>14. \A v \in VPage : PageContent(p, v)' = IF v \in Program THEN FileData(p, v) ELSE Absent
  BY <1>2, <1>5, <1>6, <1>7, <1>8 DEF PageContent, InSwap, Program
<1> QED BY <1>9, <1>10, <1>11, <1>12, <1>13, <1>14 DEF Steady

\* What thread_exit frees is all the swap space taken.
LEMMA ExitSteady ==
  ASSUME NEW p \in Proc, Good(p), Exit(p)
  PROVE  Steady(p)' /\ \A v \in VPage : PageContent(p, v)' = Absent
<1>1. /\ pc[p] = "user" /\ FreePages(p) /\ used' = used \ SwapBits(p, VPage)
      /\ UNCHANGED <<machine, fault>>
  BY DEF Exit, At, Good, Steady, Present
<1>2. pc'[p] \in {"dead", "gone"} /\ \A v \in VPage : pte'[p][v] = NoPte /\ spt'[p][v] = NoEntry
  BY <1>1, FreePagesTypes DEF Good
<1>3. /\ \A v \in VPage : ~ InFlight(p, v) /\ ~ InFlight(p, v)' /\ ~ Going(p, v)'
      /\ \A v \in VPage : ~ pte'[p][v].p /\ ~ spt'[p][v].in
  BY <1>1, <1>2 DEF InFlight, Going, NoPte, NoEntry
<1>4. used' = {} /\ Held(p)' = {}
  <2>1. Bits(p) = SwapBits(p, VPage)
    <3>1. Held(p) = {v \in VPage : spt[p][v].in /\ spt[p][v].swap}
      BY <1>3 DEF Held, InSwap
    <3> QED BY <3>1 DEF Bits, SwapBits
  <2>2. used = Bits(p)
    BY DEF Good, Steady, Swaps
  <2>3. Held(p)' = {}
    BY <1>3 DEF Held
  <2> QED BY <1>1, <2>1, <2>2, <2>3
<1>5. Swaps(p)'
  BY <1>4 DEF Swaps, Bits
<1>6. Resident(p)' /\ Evicting(p)' /\ Clean(p)'
  BY <1>3 DEF Resident, Evicting, Clean, Program
<1>7. Fetches(p)' /\ Faulted(p)' /\ Present(p)'
  BY <1>2, <1>3 DEF Fetches, Fetching, Faulted, InClock, Present
<1>8. \A v \in VPage : PageContent(p, v)' = Absent
  BY <1>2 DEF PageContent
<1> QED BY <1>5, <1>6, <1>7, <1>8 DEF Steady

\* Nothing changes when nothing happens.
LEMMA IdleSteady ==
  ASSUME NEW p \in Proc, Good(p), UNCHANGED vars
  PROVE  Steady(p)' /\ Kept(p)
<1>1. UNCHANGED <<machine, pc, fault, buf, frame, data, hand, spt, pte, used, sdata>>
  BY DEF vars, frames, swap
<1>2. \A w \in VPage : /\ Going(p, w)' = Going(p, w) /\ InFlight(p, w)' = InFlight(p, w)
                       /\ InSwap(p, w)' = InSwap(p, w)
  BY <1>1 DEF Going, InFlight, InSwap
<1>3. Swaps(p)'
  <2>1. Held(p)' = Held(p)
    BY <1>1, <1>2 DEF Held
  <2> QED BY <1>1, <2>1, SwapsSame DEF Good, Steady
<1>4. Resident(p)' /\ Fetches(p)' /\ Faulted(p)' /\ Present(p)'
  BY <1>1, <1>2 DEF Good, Steady, Resident, Fetches, Fetching, Faulted, InClock, Present
<1>5. Clean(p)' /\ Evicting(p)'
  BY <1>1, <1>2 DEF Good, Steady, Clean, Evicting, Program
<1>6. Kept(p)
  BY <1>1, <1>2 DEF Kept, PageContent
<1> QED BY <1>3, <1>4, <1>5, <1>6 DEF Steady

\* What a step may do to the pages of a process alone.
Moved(p) ==
  \/ Kept(p)
  \/ /\ \A v \in VPage : PageContent(p, v) = Absent
     /\ \A v \in VPage : PageContent(p, v)' = IF v \in Program THEN FileData(p, v) ELSE Absent
  \/ \A v \in VPage : PageContent(p, v)' = Absent
  \/ \E v \in VPage \ Program :
       /\ PageContent(p, v) = Absent /\ PageContent(p, v)' # Absent
       /\ \A w \in VPage : w # v => PageContent(p, w)' = PageContent(p, w)
  \/ \E v \in VPage, x \in Word :
       /\ PageContent(p, v) # Absent
       /\ \A w \in VPage : PageContent(p, w)' =
                             IF w = v THEN Stored(p, v, x) ELSE PageContent(p, w)

\* Every step of a process alone keeps Steady and is one Moved allows.
LEMMA StepSteady ==
  ASSUME NEW p \in Proc, Good(p), KernelStep(p) \/ UserStep(p)
  PROVE  Steady(p)' /\ Moved(p)
<1>1. PICK v \in VPage : v = fault[p].page
  BY GoodFacts
<1>2. CASE \/ Lock(p) \/ ClockSkip(p) \/ Victim(p) \/ SwapOut(p) \/ Copy(p) \/ Unmap(p)
           \/ FillFromFile(p) \/ FilledFromFile(p) \/ FillFromSwap(p) \/ FilledFromSwap(p) \/ SetDirty(p)
  <2>1. Steady(p)' /\ Kept(p)
    BY <1>1, <1>2, WaitSteady, ClockSkipSteady, SwapOutSteady, CopySteady, UnmapSteady, FillSteady,
       FilledFromFileSteady, FilledFromSwapSteady, SetDirtySteady
  <2> QED BY <2>1 DEF Moved
<1>3. CASE Insert(p)
  <2>1. /\ Steady(p)'
        /\ \A w \in VPage : w # v \/ v \in Program => PageContent(p, w)' = PageContent(p, w)
        /\ v \notin Program /\ PageContent(p, v)' # PageContent(p, v) =>
             PageContent(p, v) = Absent /\ PageContent(p, v)' # Absent
    BY <1>1, <1>3, InsertSteady
  <2>2. CASE v \in Program \/ PageContent(p, v)' = PageContent(p, v)
    <3>1. Kept(p)
      BY <2>1, <2>2 DEF Kept
    <3> QED BY <2>1, <3>1 DEF Moved
  <2>3. CASE v \notin Program /\ PageContent(p, v)' # PageContent(p, v)
    BY <2>1, <2>3 DEF Moved
  <2> QED BY <2>1, <2>2, <2>3
<1>4. CASE Start(p)
  BY <1>4, StartSteady DEF Good, Moved
<1>5. CASE Exit(p)
  BY <1>5, ExitSteady DEF Moved
<1>6. CASE \E w \in VPage : Read(p, w) \/ Fault(p, w)
  <2>1. Steady(p)' /\ Kept(p)
    BY <1>6, ReadSteady, FaultSteady
  <2> QED BY <2>1 DEF Moved
<1>7. CASE \E w \in VPage : \E x \in Word : Write(p, w, x)
  <2>1. PICK w \in VPage, x \in Word : Write(p, w, x)
    BY <1>7
  <2>2. /\ Steady(p)' /\ PageContent(p, w) # Absent
        /\ \A u \in VPage : PageContent(p, u)' = IF u = w THEN Stored(p, w, x) ELSE PageContent(p, u)
    BY <2>1, WriteSteady
  <2> QED BY <2>2 DEF Moved
<1>8. ~ ExitWaits(p) /\ ~ ExitResumes(p)
  <2>1. ASSUME ExitWaits(p) PROVE FALSE
    <3>1. frameLock # NoProc /\ pc[p] = "user"
      BY <2>1 DEF ExitWaits, At, Good, Steady, Present
    <3>2. frameLock \in Proc /\ InClock(frameLock)
      BY <3>1 DEF Good, Base, TypeOK, Hands
    <3>3. frameLock = p
      BY <3>2 DEF Good, Base, Asked, InClock
    <3> QED BY <3>1, <3>2, <3>3 DEF InClock
  <2>2. ASSUME ExitResumes(p) PROVE FALSE
    BY <2>2 DEF ExitResumes, At, Good, Steady, Present
  <2> QED BY <2>1, <2>2
<1> QED BY <1>2, <1>3, <1>4, <1>5, <1>6, <1>7, <1>8 DEF KernelStep, UserStep

\* The third part of the invariant.
AloneSteady == \A p \in Proc : machine.who = {p} => Steady(p)

\* It holds at boot.
LEMMA InitSteady == Init => AloneSteady
<1> SUFFICES ASSUME Init, NEW p \in Proc PROVE Steady(p)
  BY DEF AloneSteady
<1>1. /\ pc[p] = "dead" /\ used = {}
      /\ \A v \in VPage : spt[p][v] = NoEntry /\ pte[p][v] = NoPte
  BY DEF Init
<1>2. \A v \in VPage : ~ spt[p][v].in /\ ~ pte[p][v].p /\ ~ Going(p, v)
  BY <1>1 DEF NoEntry, NoPte, Going
<1>3. Held(p) = {}
  BY <1>2 DEF Held
<1> QED BY <1>1, <1>2, <1>3 DEF Steady, Swaps, Bits, Resident, Fetches, Fetching, Faulted, InClock,
                                Present, Clean, Evicting, Program

\* The instance never changes.
LEMMA SameMachine ==
  ASSUME [Next]_vars
  PROVE  machine' = machine
<1>1. ASSUME NEW p \in Proc, KernelStep(p) PROVE machine' = machine
  BY <1>1
  DEF KernelStep, Lock, ClockSkip, Victim, SwapOut, Copy, Unmap, Insert, FillFromFile,
     FilledFromFile, FillFromSwap, FilledFromSwap, SetDirty, ExitResumes
<1>2. ASSUME NEW p \in Proc, UserStep(p) PROVE machine' = machine
  BY <1>2 DEF UserStep, Start, Exit, ExitWaits, Read, Fault, Write
<1> QED BY <1>1, <1>2 DEF Next, Stopped, vars

\* Every step keeps it.
LEMMA NextSteady ==
  ASSUME Base, Mapped, AloneSteady, [Next]_vars
  PROVE  AloneSteady' /\ \A p \in Proc : machine.who = {p} => Moved(p)
<1>1. machine' = machine
  BY SameMachine
<1>2. ASSUME NEW p \in Proc, machine.who = {p} PROVE Steady(p)' /\ Moved(p)
  <2>1. Good(p)
    BY <1>2 DEF Good, AloneSteady
  <2>2. CASE UNCHANGED vars
    BY <2>1, <2>2, IdleSteady DEF Moved
  <2>3. ASSUME NEW q \in Proc, KernelStep(q) \/ UserStep(q) PROVE Steady(p)' /\ Moved(p)
    <3>1. q \in machine.who
      BY <2>3 DEF KernelStep, UserStep, At, Lock, ClockSkip, Victim, SwapOut, Copy, Unmap,
         Insert, FillFromFile, FilledFromFile, FillFromSwap, FilledFromSwap, SetDirty, ExitResumes,
         Start, Exit, ExitWaits, Read, Fault, Write
    <3> QED BY <1>2, <2>1, <2>3, <3>1, StepSteady
  <2> QED BY <2>2, <2>3 DEF Next, Stopped
<1> QED BY <1>1, <1>2 DEF AloneSteady

----------------------------------------------------------------------------
(* The theorems *)

\* Mapped holds at boot.
LEMMA InitMapped == Init => Mapped
  BY DEF Init, Mapped, NoPte, NoEntry

\* Base and Mapped are invariant.
LEMMA SpecBase == Spec => [](Base /\ Mapped)
<1>1. Init => Base /\ Mapped
  BY InitBase, InitMapped
<1>2. Base /\ Mapped /\ [Next]_vars => Base' /\ Mapped'
  BY NextBase, NextMapped
<1> QED BY <1>1, <1>2, PTL DEF Spec

\* TypeOK: the tables, locks and maps stay well formed; the hand stays in the
\* frame table, slots in slot_map, and no buffer is out of range.
THEOREM TypeCorrect == Spec => []TypeOK
<1>1. Base => TypeOK
  BY DEF Base
<1> QED BY <1>1, SpecBase, PTL

\* FramesAgree: frame table, page tables and supplemental tables say the same,
\* so no two pages share a frame and no frame in use counts as free, through
\* faults, evictions of other processes' pages and exits in any order.
THEOREM FramesAlwaysAgree == Spec => [](IndexesKnown => FramesAgree)
<1>1. Base /\ Mapped => (IndexesKnown => FramesAgree)
  <2> SUFFICES ASSUME Base, Mapped, IndexesKnown, NEW p \in Proc, NEW v \in VPage
               PROVE  /\ pte[p][v].p => /\ frame[pte[p][v].f] = <<p, v>>
                                        /\ spt[p][v].in /\ spt[p][v].index = pte[p][v].f
                      /\ \A f \in Frame : frame[f] = <<p, v>> => pte[p][v].p /\ pte[p][v].f = f
    BY DEF FramesAgree
  <2>1. pte[p][v].p => pte[p][v].f \in Frame /\ frame[pte[p][v].f] = <<p, v>>
    BY DEF Mapped
  <2> QED BY <2>1 DEF Base, Named
<1> QED BY <1>1, SpecBase, PTL

\* All three parts are invariant.
LEMMA SpecSteady == Spec => [](Base /\ Mapped /\ AloneSteady)
<1>1. Init => Base /\ Mapped /\ AloneSteady
  BY InitBase, InitMapped, InitSteady
<1>2. Base /\ Mapped /\ AloneSteady /\ [Next]_vars => Base' /\ Mapped' /\ AloneSteady'
  BY NextBase, NextMapped, NextSteady
<1> QED BY <1>1, <1>2, PTL DEF Spec

\* SlotsOwned, of a process alone: each page in swap has a slot of its own, and
\* slot_map has no other bit set, however often pages go out and come back
\* (free_swap, mem_to_swap, swap_to_mem).
THEOREM SlotsAlwaysOwned == Spec => [](Alone => SlotsOwned)
<1>1. Base /\ Mapped /\ AloneSteady => (Alone => SlotsOwned)
  <2> SUFFICES ASSUME Base, Mapped, AloneSteady, Alone PROVE SlotsOwned
    OBVIOUS
  <2>1. PICK p \in Proc : machine.who = {p}
    BY DEF Alone
  <2>2. Good(p)
    BY <2>1 DEF Good, AloneSteady
  <2>3. pc[p] # "exiting" /\ used = Bits(p)
        /\ \A v, w \in Held(p) : spt[p][v].slot = spt[p][w].slot => v = w
    BY <2>2 DEF Good, Steady, Swaps, Present
  <2>4. \A g \in SwappedOut : /\ g \in Proc \X VPage /\ g[1] = p /\ g[2] \in Held(p)
                              /\ SlotOf(g) = spt[p][g[2]].slot
    <3> SUFFICES ASSUME NEW g \in SwappedOut
                 PROVE  g \in Proc \X VPage /\ g[1] = p /\ g[2] \in Held(p)
      BY DEF SlotOf
    <3>1. g \in Proc \X VPage /\ g[1] \in Proc /\ g[2] \in VPage
          /\ spt[g[1]][g[2]].in /\ InSwap(g[1], g[2])
      BY DEF SwappedOut
    <3>2. g[1] = p
      BY <2>1, <3>1 DEF Base, Asked, NoEntry
    <3> QED BY <3>1, <3>2 DEF Held
  <2>5. \A v \in Held(p) : <<p, v>> \in SwappedOut /\ SlotOf(<<p, v>>) = spt[p][v].slot
    BY <2>3 DEF Held, SwappedOut, SlotOf
  <2>6. \A g, h \in SwappedOut : SlotOf(g) = SlotOf(h) => g = h
    BY <2>3, <2>4
  <2>7. \A g \in SwappedOut : SlotOf(g) \in used
    BY <2>3, <2>4 DEF Bits
  <2>8. used \subseteq {SlotOf(g) : g \in SwappedOut}
    <3> SUFFICES ASSUME NEW s \in Bits(p) PROVE \E g \in SwappedOut : s = SlotOf(g)
      BY <2>3
    <3>1. PICK v \in Held(p) : s = spt[p][v].slot
      BY DEF Bits
    <3> QED BY <2>5, <3>1
  <2> QED BY <2>6, <2>7, <2>8 DEF SlotsOwned
<1> QED BY <1>1, SpecSteady, PTL

\* The memory Memory's specification sees.
Memories == [p \in Proc |-> [v \in VPage |-> PageContent(p, v)]]

\* A step that changes it is one of Memory's.
LEMMA MemoryStep ==
  ASSUME Base, Base', machine' = machine, NEW p \in Proc, machine.who = {p}, Moved(p),
         Memories' # Memories
  PROVE  M!MNext
<1>1. \A q \in Proc, v \in VPage : q # p => PageContent(q, v) = Absent /\ PageContent(q, v)' = Absent
  <2> SUFFICES ASSUME NEW q \in Proc, NEW v \in VPage, q # p
               PROVE  PageContent(q, v) = Absent /\ PageContent(q, v)' = Absent
    OBVIOUS
  <2>1. q \notin machine.who
    OBVIOUS
  <2>2. pc[q] = "dead" /\ pc'[q] = "dead"
    BY <2>1 DEF Base, Asked
  <2> QED BY <2>2 DEF PageContent
<1>2. Memories' = [Memories EXCEPT ![p] = [v \in VPage |-> PageContent(p, v)']]
  BY <1>1 DEF Memories
<1>3. \A v \in VPage : Memories[p][v] = PageContent(p, v) /\ Memories'[p][v] = PageContent(p, v)'
  BY DEF Memories
<1>4. ~ Kept(p)
  BY <1>1 DEF Kept, Memories
<1>5. CASE /\ \A v \in VPage : PageContent(p, v) = Absent
           /\ \A v \in VPage : PageContent(p, v)' = IF v \in Program THEN FileData(p, v) ELSE Absent
  <2>1. M!MLoad(p)
    BY <1>2, <1>3, <1>5 DEF M!MLoad, Memories
  <2> QED BY <2>1 DEF M!MNext
<1>6. CASE \A v \in VPage : PageContent(p, v)' = Absent
  <2>1. M!MExit(p)
    BY <1>2, <1>6 DEF M!MExit, Memories
  <2> QED BY <2>1 DEF M!MNext
<1>7. ASSUME NEW v \in VPage \ Program, PageContent(p, v) = Absent, PageContent(p, v)' # Absent,
             \A w \in VPage : w # v => PageContent(p, w)' = PageContent(p, w)
      PROVE  M!MNext
  <2>1. Memories' = [Memories EXCEPT ![p][v] = PageContent(p, v)']
    BY <1>2, <1>7 DEF Memories
  <2>2. M!MGrow(p, v)
    BY <1>3, <1>7, <2>1 DEF M!MGrow, Memories
  <2> QED BY <2>2 DEF M!MNext
<1>8. ASSUME NEW v \in VPage, NEW x \in Word, PageContent(p, v) # Absent,
             \A w \in VPage : PageContent(p, w)' = IF w = v THEN Stored(p, v, x) ELSE PageContent(p, w)
      PROVE  M!MNext
  <2>1. Memories' = [Memories EXCEPT ![p][v] = Stored(p, v, x)]
    BY <1>2, <1>8 DEF Memories
  <2>2. M!MWrite(p, v, x)
    BY <1>3, <1>8, <2>1 DEF M!MWrite, Memories
  <2> QED BY <2>2 DEF M!MNext
<1> QED BY <1>4, <1>5, <1>6, <1>7, <1>8 DEF Moved

\* A process alone has the memory that Memory specifies, however few frames
\* and slots: page_fault, evict_frame and swap bring back every page as it was.
THEOREM MemoryIsKept == Spec => MemoryKeptAlone
<1>1. Init => M!MInit
  BY DEF Init, M!MInit, PageContent
<1>2. Base /\ Base' /\ Mapped /\ AloneSteady /\ [Next]_vars => [Alone => M!MNext]_(M!mvars)
  <2> SUFFICES ASSUME Base, Base', Mapped, AloneSteady, [Next]_vars, Alone, M!mvars' # M!mvars
               PROVE  M!MNext
    OBVIOUS
  <2>1. PICK p \in Proc : machine.who = {p}
    BY DEF Alone
  <2>2. Moved(p)
    BY <2>1, NextSteady
  <2>3. Memories' # Memories
    BY DEF M!mvars, Memories
  <2>4. machine' = machine
    BY SameMachine
  <2> QED BY <2>1, <2>2, <2>3, <2>4, MemoryStep
<1> QED BY <1>1, <1>2, SpecSteady, PTL DEF Spec, MemoryKeptAlone
=============================================================================
