----------------------------- MODULE Semaphores -----------------------------
(***************************************************************************)
(* What Pintos' semaphores promise their callers (the comments of synch.c  *)
(* on sema_down, sema_try_down and sema_up), with no lists, statuses or    *)
(* scheduler: a value nobody takes below zero, and threads asking for it.  *)
(***************************************************************************)
EXTENDS Naturals

CONSTANTS Thread, Sema, NoSema

VARIABLES
  value,    \* of every semaphore
  asking    \* the semaphore a thread is asking for, or NoSema

svars == <<value, asking>>

SInit == value \in [Sema -> Nat] /\ asking = [t \in Thread |-> NoSema]

Ask(t, s) ==
  /\ asking[t] = NoSema
  /\ asking' = [asking EXCEPT ![t] = s]
  /\ UNCHANGED value

(* A thread that asked gets one unit. *)
Grant(t, s) ==
  /\ asking[t] = s /\ value[s] > 0
  /\ asking' = [asking EXCEPT ![t] = NoSema]
  /\ value' = [value EXCEPT ![s] = @ - 1]

(* One that never had to wait gets it: sema_try_down, or a lucky sema_down. *)
TakeAtOnce(s) ==
  /\ value[s] > 0
  /\ value' = [value EXCEPT ![s] = @ - 1]
  /\ UNCHANGED asking

(* One function may up several semaphores in one step. *)
UpAll(S) ==
  /\ value' = [s \in Sema |-> value[s] + (IF s \in S THEN 1 ELSE 0)]
  /\ UNCHANGED asking

SNext ==
  \/ \E t \in Thread, s \in Sema : Ask(t, s) \/ Grant(t, s)
  \/ \E s \in Sema : TakeAtOnce(s)
  \/ \E S \in SUBSET Sema : UpAll(S)

SSafe == SInit /\ [][SNext]_svars

(* A semaphore that keeps its value and its askers grants one of them. *)
SFair == \A s \in Sema : WF_svars(\E t \in Thread : Grant(t, s))

SSpec == SSafe /\ SFair
=============================================================================
