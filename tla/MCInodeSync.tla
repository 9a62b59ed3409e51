----------------------------- MODULE MCInodeSync -----------------------------
(* Instances of InodeSync for TLC. *)
EXTENDS InodeSync

Semaphores == {LockSema} \cup {WaiterSema(t) : t \in Worker}

Symmetry == Permutations(Worker)
=============================================================================
