-------------------------- MODULE MCVirtualMemory --------------------------
(* Instances of VirtualMemory for TLC. *)
EXTENDS VirtualMemory, TLC

CONSTANTS a, b

(* A program page and two stack pages, the higher one of the two grown. *)
Kinds == <<"data", "stack", "stack">>

(* One process with more pages than frames, with slots enough and with too *)
(* few. *)
AloneWith(n) ==
  [who |-> {a}, frames |-> 2, slots |-> n, pages |-> {1, 2, 3}, fresh |-> TRUE, again |-> TRUE]

(* Two processes with more pages than frames together, neither with as     *)
(* many as there are frames. *)
Two(zero) ==
  [who |-> {a, b}, frames |-> 3, slots |-> 3, pages |-> {1, 2}, fresh |-> zero, again |-> FALSE]

Small == {AloneWith(1), AloneWith(3), Two(FALSE)}
Parallel == {Two(FALSE)}
=============================================================================
