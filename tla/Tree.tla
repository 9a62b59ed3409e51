-------------------------------- MODULE Tree --------------------------------
(***************************************************************************)
(* What Project 4's directories promise (the comments of directory.c,     *)
(* filesys.c and inode.c): a tree of names, each of them one file or       *)
(* directory, that only empty directories leave, and nodes that live until *)
(* no name and no opener is left.                                         *)
(***************************************************************************)
EXTENDS FiniteSets

CONSTANTS Node, Root, Name, Dots

VARIABLES
  kind,   \* of each node: "none", "file" or "dir"
  link,   \* the entries <<directory, name, node>>
  held    \* the nodes that are open, or a process's directory

tvars == <<kind, link, held>>

Named == {l[3] : l \in {m \in link : m[2] \notin Dots}}
Inside(d) == {l \in link : l[1] = d /\ l[2] \notin Dots}

TInit ==
  /\ kind[Root] = "dir"
  /\ \A l \in link : kind[l[1]] = "dir" /\ kind[l[3]] # "none"
  /\ \A l, m \in link : l[1] = m[1] /\ l[2] = m[2] => l = m
  /\ \A x \in Node : kind[x] # "none" => x \in Named \cup {Root}

(* Only what has a name can be opened; what is open can be closed. *)
Holds == held' \ held \subseteq Named \cup {Root}

Hold == Holds /\ UNCHANGED <<kind, link>>

Make(d, n, x) ==
  /\ kind[d] = "dir" /\ kind[x] = "none"
  /\ ~ \E l \in link : l[1] = d /\ l[2] = n
  /\ \/ /\ kind' = [kind EXCEPT ![x] = "file"]
        /\ link' = link \cup {<<d, n, x>>}
     \/ /\ kind' = [kind EXCEPT ![x] = "dir"]
        /\ link' = link \cup {<<d, n, x>>, <<x, ".", x>>, <<x, "..", d>>}
  /\ Holds

Unlink(d, n) ==
  \E l \in link :
    /\ l[1] = d /\ l[2] = n /\ n \notin Dots
    /\ Inside(l[3]) = {}
    /\ link' = link \ {l}
    /\ Holds /\ kind' = kind

Forget(X) ==
  /\ X \intersect (Named \cup {Root} \cup held') = {}
  /\ kind' = [x \in Node |-> IF x \in X THEN "none" ELSE kind[x]]
  /\ link' = {l \in link : l[1] \notin X}
  /\ Holds

TNext ==
  \/ Hold
  \/ \E d \in Node, n \in Name : Unlink(d, n) \/ \E x \in Node : Make(d, n, x)
  \/ \E X \in SUBSET Node : Forget(X)

TSpec == TInit /\ [][TNext]_tvars
=============================================================================
