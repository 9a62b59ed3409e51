------------------------------ MODULE MCProcess ------------------------------
(* Instances of Process for TLC. *)
EXTENDS Process

Semaphores == {WaitSema(t) : t \in Child} \cup {LoadSema(t) : t \in Child}
=============================================================================
