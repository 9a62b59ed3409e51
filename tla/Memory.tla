------------------------------- MODULE Memory -------------------------------
(***************************************************************************)
(* What Project 3's virtual memory promises its processes: each has an     *)
(* array of pages of its own that keeps what the process last wrote,       *)
(* however few frames there are.  A program's pages begin with what its    *)
(* file holds; a stack page begins with anything.                          *)
(***************************************************************************)
CONSTANTS
  Proc,            \* the processes
  VPage,           \* their virtual pages
  Program,         \* those of VPage a program is loaded into
  Absent,          \* the content of a page that is not there
  FileData(_, _),  \* what a program's file holds for one of its pages
  Stored(_, _, _), \* what a page holds after a write of a word
  Word             \* what is written

VARIABLE mem    \* the pages of every process

mvars == <<mem>>

MInit == mem = [p \in Proc |-> [v \in VPage |-> Absent]]

MLoad(p) ==
  /\ \A v \in VPage : mem[p][v] = Absent
  /\ mem' = [mem EXCEPT ![p] = [v \in VPage |->
               IF v \in Program THEN FileData(p, v) ELSE Absent]]

(* A stack page appears, with whatever its frame held. *)
MGrow(p, v) ==
  /\ v \notin Program /\ mem[p][v] = Absent
  /\ mem'[p][v] # Absent
  /\ mem' = [mem EXCEPT ![p][v] = mem'[p][v]]

MWrite(p, v, x) ==
  /\ mem[p][v] # Absent
  /\ mem' = [mem EXCEPT ![p][v] = Stored(p, v, x)]

MExit(p) ==
  mem' = [mem EXCEPT ![p] = [v \in VPage |-> Absent]]

MNext ==
  \E p \in Proc :
    \/ MLoad(p) \/ MExit(p)
    \/ \E v \in VPage : MGrow(p, v) \/ \E x \in Word : MWrite(p, v, x)

MSpec == MInit /\ [][MNext]_mvars
=============================================================================
