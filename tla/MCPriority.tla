---------------------------- MODULE MCPriority ----------------------------
EXTENDS Priority

Two == <<"A", "B">>

Machine(calls, nested, disturbed, naps, prios) ==
  [calls |-> calls, nested |-> nested, disturbed |-> disturbed, naps |-> naps, prios |-> prios]

Mixed == [Thread -> Prios]
Equal == {[t \in Thread |-> 1]}
Stairs == {[t \in Thread |-> CASE t = "a" -> 0 [] t = "b" -> 1 [] t = "c" -> 2]}

\* One lock at a time, two in order, a condition, changes of priority.
Single == Machine({"lock", "sleep"}, FALSE, FALSE, {1}, Mixed)
Nested == Machine({"lock", "sleep"}, TRUE, FALSE, {1}, Stairs)
Condition == Machine({"lock", "cond"}, FALSE, FALSE, {}, Stairs \cup Equal)
Changing == Machine({"lock", "set"}, FALSE, FALSE, {}, Stairs)
Alarms == Machine({"sleep"}, FALSE, FALSE, {0, 1, 2}, Mixed)
\* Slices that end anywhere.
LocksDisturbed == Machine({"lock"}, FALSE, TRUE, {}, Equal)
AlarmsDisturbed == Machine({"sleep"}, FALSE, TRUE, {0, 1, 2}, Equal)

\* Priorities change while others sleep and wake.
Waking == Machine({"set", "sleep"}, FALSE, FALSE, {1}, Stairs)

SmallMachines == {Single, Nested, Condition, Changing, Alarms, LocksDisturbed,
                  AlarmsDisturbed, Waking}
=============================================================================
