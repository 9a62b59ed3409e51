------------------------------ MODULE MCThreads ------------------------------
(* Instances of Threads for TLC: the constants are model values of the cfg. *)
EXTENDS Threads
=============================================================================
