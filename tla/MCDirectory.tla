---------------------------- MODULE MCDirectory ----------------------------
(* Instances of Directory for TLC. *)
EXTENDS Directory

CONSTANT a, b

Names == {".", "..", "x", "y"}

Path(from, via, name) == [from |-> from, via |-> via, name |-> name]

x == Path("cwd", ".", "x")
y == Path("cwd", ".", "y")

Machine(calls, paths) == [calls |-> calls, paths |-> paths]

(* One process in a tree, and with open files; two, one of which executes x, *)
(* that make the calls under the lock.                                     *)
Walking ==
  Machine({"create", "remove", "mkdir", "chdir"},
          {x, Path("cwd", "..", "y"), Path("/", "x", "y"), Path("/", "", ""), Path("/", "", "x")})
Opening ==
  Machine({"create", "remove", "open", "close", "mkdir", "write"}, {x, Path("/", "x", "y")})
Together == Machine({"create", "remove", "open", "close", "load", "exit"}, {x, y})

SmallMachines == {Walking, Opening, Together}

(* Two processes that write to the files they have opened. *)
JustWriting == {Machine({"create", "open", "close", "load", "write"}, {x, y})}
=============================================================================
