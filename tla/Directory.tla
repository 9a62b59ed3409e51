----------------------------- MODULE Directory -----------------------------
(***************************************************************************)
(* The calls of Project 4 that name files (CS439/Project4: create, remove, *)
(* open, close, write, chdir and mkdir of userprog/syscall.c, load and     *)
(* thread_exit) down to directory entries, the openers of inodes and the   *)
(* free map.  create, remove, open and close hold the file lock, the       *)
(* others nothing; each read that a later step relies on is a step.        *)
(*                                                                        *)
(* A file or directory is the sector of its inode and takes no other;      *)
(* FileSystem has what is behind an inode.  A path is where it starts, at  *)
(* most one directory on the way, and the last name.  The lock of a struct *)
(* dir is left out: every struct dir that is used for lookups and entries  *)
(* is private to the call that opened it, and excludes nobody.             *)
(***************************************************************************)
EXTENDS Integers, Sequences, SequencesExt, FiniteSets, FiniteSetsExt

CONSTANTS
  Proc,      \* the processes
  First,     \* the one that is there from the beginning
  Sector,    \* sectors for inodes
  ROOT,      \* ROOT_DIR_SECTOR
  Name,      \* last names of paths, "." and ".." among them
  MaxFd,     \* bound: the file descriptors handed out
  MaxFiles,  \* bound: the open files of a process
  Machines   \* the calls that are made, and with which paths

ASSUME DirectoryAssumption ==
  /\ First \in Proc /\ ROOT \in Sector /\ Sector \subseteq Nat
  /\ {".", ".."} \subseteq Name
  /\ \A m \in Machines :
       /\ ~ {"chdir", "load"} \subseteq m.calls
       /\ \A path \in m.paths : /\ path.from \in {"/", "cwd"}
                               /\ {path.via, path.name} \subseteq Name \cup {""}
  /\ MaxFd \in Nat /\ MaxFiles \in Nat

None == -1
Dots == {".", ".."}

VARIABLES
  machine,
  used,     \* the free map: the sectors marked
  node,     \* on the disk: what each inode is and its directory entries
  inode,    \* the open inodes: openers, whether removed, writes denied
  files,    \* file_record_list of each process
  cwd,      \* the directory of each process, None while it does not run
  exe,      \* my_executable, or None
  next,     \* file_descriptor, the next to hand out
  owner,    \* who holds file_lock
  pc, call, \* where each process is, and its call's local variables
  refused,  \* some write to the file just opened wrote nothing
  leaky     \* some call has taken one of the returns that keep an opener or sector

vars == <<machine, used, node, inode, files, cwd, exe, next, owner, pc, call,
          refused, leaky>>

Entry(name, at) == [in_use |-> TRUE, name |-> name, at |-> at]
Unused == [in_use |-> FALSE]

NewFile == [dir |-> FALSE, slots |-> <<>>]
NewDir(self, parent) == [dir |-> TRUE, slots |-> <<Entry(".", self), Entry("..", parent)>>]

Closed == [count |-> 0, removed |-> FALSE, denied |-> 0]
NoPath == [from |-> "", via |-> "", name |-> ""]
NoCall == [name |-> "", path |-> NoPath, parent |-> None, at |-> None, slot |-> 0, fd |-> 0]

(* filesys_init with format; init.c opens the root as the first cwd. *)
Init ==
  /\ machine \in Machines
  /\ used = {ROOT}
  /\ node = [s \in Sector |-> IF s = ROOT THEN NewDir(ROOT, ROOT) ELSE NewFile]
  /\ inode = [s \in Sector |-> IF s = ROOT THEN [Closed EXCEPT !.count = 1] ELSE Closed]
  /\ files = [p \in Proc |-> <<>>]
  /\ cwd = [p \in Proc |-> IF p = First THEN ROOT ELSE None]
  /\ exe = [p \in Proc |-> None]
  /\ next = 2 /\ owner = None
  /\ pc = [p \in Proc |-> "home"] /\ call = [p \in Proc |-> NoCall]
  /\ refused = FALSE /\ leaky = FALSE

-----------------------------------------------------------------------------
(* The open inodes and the free map as a call changes them. *)
Work == [inode |-> inode, used |-> used]
Set(w) == inode' = w.inode /\ used' = w.used

OpenInode(w, s) == [w EXCEPT !.inode[s].count = @ + 1]

CloseInode(w, s) ==
  LET last == w.inode[s].count = 1
  IN  [inode |-> [w.inode EXCEPT ![s] = IF last THEN Closed ELSE [@ EXCEPT !.count = @ - 1]],
       used |-> IF last /\ w.inode[s].removed THEN w.used \ {s} ELSE w.used]

(* lookup in one directory: an empty name is the root. *)
SlotsOf(d, n) ==
  {i \in DOMAIN node[d].slots : node[d].slots[i].in_use /\ node[d].slots[i].name = n}
Found(d, n) == n = "" \/ SlotsOf(d, n) # {}
At(d, n) == IF n = "" THEN ROOT ELSE node[d].slots[Min(SlotsOf(d, n))].at

Length(d) == Cardinality({i \in DOMAIN node[d].slots : node[d].slots[i].in_use})

Start(p, path) == IF path.from = "/" THEN ROOT ELSE cwd[p]

Go(p, step, c) ==
  /\ pc' = [pc EXCEPT ![p] = step]
  /\ call' = [call EXCEPT ![p] = c]

Return(p) ==
  /\ Go(p, "home", NoCall)
  /\ owner' = IF owner = p THEN None ELSE owner

(* The calls whose harm is known are not made (README): those that take a   *)
(* file for a directory, remove "." or "..", make a directory whose ".." is  *)
(* not its parent, or follow the ".." of a removed directory.              *)
Sound(p, name, path) ==
  LET d == Start(p, path)
      parent == At(d, path.via)
      there == Found(d, path.via) /\ Found(parent, path.name)
  IN  /\ Found(d, path.via) => node[parent].dir
      /\ ".." \in {path.via, path.name} => ~ inode[d].removed
      /\ name = "remove" => path.name \notin Dots
      /\ name \in {"create", "mkdir"} => path.name # ""
      /\ name = "mkdir" => Found(d, path.via) /\ parent = cwd[p]
      /\ name = "chdir" /\ there => node[At(parent, path.name)].dir
      /\ name = "load" /\ there => ~ node[At(parent, path.name)].dir

Locked == {"create", "remove", "open"}

(* A new process has its parent's directory; load opens its executable.      *)
(* Bound: after a call that leaves something open, none that could again.   *)
Begin(p, name, path) ==
  /\ pc[p] = "home" /\ name \in machine.calls
  /\ IF name = "load" THEN cwd[p] = None ELSE cwd[p] # None
  /\ leaky => name \in {"create", "remove"} /\ path.via \in {".", ""}
  /\ name = "open" => Len(files[p]) < MaxFiles /\ next < MaxFd
  /\ IF name \in Locked THEN owner = None /\ owner' = p ELSE owner' = owner
  /\ cwd' = IF name = "load" THEN [cwd EXCEPT ![p] = cwd[First]] ELSE cwd
  /\ IF name = "load" THEN Sound(First, name, path) ELSE Sound(p, name, path)
  /\ Go(p, "split", [NoCall EXCEPT !.name = name, !.path = path])
  /\ UNCHANGED <<machine, used, node, inode, files, exe, next, refused, leaky>>

(* A process whose executable cannot be opened is gone. *)
LoadFails(p) ==
  cwd' = IF call[p].name = "load" /\ pc'[p] = "home" THEN [cwd EXCEPT ![p] = None] ELSE cwd

(* dir_split_name.  A directory that is not found leaves the start of the   *)
(* path open.                                                              *)
Split(p) ==
  LET c == call[p]
      d == Start(p, c.path)
      s == At(d, c.path.via)
  IN  /\ pc[p] = "split"
      /\ IF ~ Found(d, c.path.via)
         THEN Set(OpenInode(Work, d)) /\ leaky' = TRUE /\ Return(p)
         ELSE IF inode[s].removed THEN UNCHANGED <<inode, used, leaky>> /\ Return(p)
         ELSE /\ Set(OpenInode(Work, s))
              /\ Go(p, IF c.name \in {"create", "mkdir"} THEN "scan" ELSE "find",
                    [c EXCEPT !.parent = s])
              /\ UNCHANGED <<owner, leaky>>
      /\ LoadFails(p)
      /\ UNCHANGED <<machine, node, files, exe, next, refused>>

-----------------------------------------------------------------------------
(* free_map_allocate: the bitmap is scanned, then the bit is set. *)
Scan(p) ==
  LET free == Sector \ used
  IN  /\ pc[p] = "scan"
      /\ IF free = {} THEN Go(p, "made", call[p])
         ELSE Go(p, "flip", [call[p] EXCEPT !.at = Min(free)])
      /\ UNCHANGED <<machine, used, node, inode, files, cwd, exe, next, owner,
                     refused, leaky>>

(* inode_create, or dir_create: ".." is the directory of the process. *)
Flip(p) ==
  LET s == call[p].at
  IN  /\ pc[p] = "flip"
      /\ used' = used \cup {s}
      /\ node' = [node EXCEPT ![s] =
                    IF call[p].name = "mkdir" THEN NewDir(s, cwd[p]) ELSE NewFile]
      /\ Go(p, "lookup", call[p])
      /\ UNCHANGED <<machine, inode, files, cwd, exe, next, owner, refused, leaky>>

(* dir_add: is the name in use, where is a free slot, write it. *)
AddLookup(p) ==
  /\ pc[p] = "lookup"
  /\ IF Found(call[p].parent, call[p].path.name) THEN Go(p, "made", call[p])
     ELSE Go(p, "slot", call[p])
  /\ UNCHANGED <<machine, used, node, inode, files, cwd, exe, next, owner,
                 refused, leaky>>

AddSlot(p) ==
  LET slots == node[call[p].parent].slots
      free == {i \in DOMAIN slots : ~ slots[i].in_use}
  IN  /\ pc[p] = "slot"
      /\ Go(p, "put", [call[p] EXCEPT !.slot = Min(free \cup {Len(slots) + 1})])
      /\ UNCHANGED <<machine, used, node, inode, files, cwd, exe, next, owner,
                     refused, leaky>>

(* inode_write_at writes nothing while writes are denied: then, as when the  *)
(* name was in use, the slot of the call stays or becomes 0.               *)
AddPut(p) ==
  LET c == call[p]
      slots == node[c.parent].slots
      new == Entry(c.path.name, c.at)
  IN  /\ pc[p] = "put"
      /\ IF inode[c.parent].denied > 0
         THEN node' = node /\ Go(p, "made", [c EXCEPT !.slot = 0])
         ELSE /\ node' = [node EXCEPT ![c.parent].slots =
                            IF c.slot > Len(slots) THEN Append(slots, new)
                            ELSE [slots EXCEPT ![c.slot] = new]]
              /\ Go(p, "made", c)
      /\ UNCHANGED <<machine, used, inode, files, cwd, exe, next, owner,
                     refused, leaky>>

(* filesys_create gives the sector back when it failed, mkdir does not. *)
Made(p) ==
  LET c == call[p]
      failed == c.slot = 0 /\ c.at # None
      kept == IF failed /\ c.name = "create" THEN [Work EXCEPT !.used = @ \ {c.at}] ELSE Work
  IN  /\ pc[p] = "made"
      /\ Set(CloseInode(kept, c.parent))
      /\ leaky' = (leaky \/ (failed /\ c.name = "mkdir"))
      /\ Return(p)
      /\ UNCHANGED <<machine, node, files, cwd, exe, next, refused>>

-----------------------------------------------------------------------------
(* Mutant: a directory is removed with its last entry still in it. *)
RemovableFull(s) == Length(s) <= 3 /\ s # ROOT /\ ~ inode[s].removed

(* dir_remove refuses a directory with more entries than "." and "..". *)
Removable(s) == Length(s) <= 2 /\ s # ROOT /\ ~ inode[s].removed

FindToRemove(p, d, s) ==
  /\ leaky' = leaky
  /\ IF Removable(s)
     THEN /\ Set(OpenInode(Work, s))
          /\ Go(p, "erase", [call[p] EXCEPT !.at = s, !.slot = Min(SlotsOf(d, call[p].path.name))])
          /\ owner' = owner
     ELSE Set(CloseInode(Work, d)) /\ Return(p)

(* filesys_open does not close the parent of a name that is missing or       *)
(* removed; chdir does not close a removed inode.                          *)
Find(p) ==
  LET c == call[p]
      d == c.parent
      s == At(d, c.path.name)
  IN  /\ pc[p] = "find"
      /\ IF c.name = "remove" /\ Found(d, c.path.name) THEN FindToRemove(p, d, s)
         ELSE IF c.name \in {"open", "load"} /\ (~ Found(d, c.path.name) \/ inode[s].removed)
         THEN Return(p) /\ leaky' = TRUE /\ UNCHANGED <<inode, used>>
         ELSE IF ~ Found(d, c.path.name)
         THEN Return(p) /\ leaky' = leaky /\ Set(CloseInode(Work, d))
         ELSE IF c.name = "chdir" /\ inode[s].removed
         THEN Return(p) /\ leaky' = TRUE /\ Set(CloseInode(OpenInode(Work, s), d))
         ELSE /\ Set(CloseInode(OpenInode(Work, s), d))
              /\ owner' = IF owner = p THEN None ELSE owner
              /\ Go(p, CASE c.name = "open" -> "take"
                         [] c.name = "load" -> "deny"
                         [] c.name = "chdir" -> "switch",
                    [c EXCEPT !.parent = None, !.at = s])
              /\ leaky' = leaky
      /\ LoadFails(p)
      /\ UNCHANGED <<machine, node, files, exe, next, refused>>

Erase(p) ==
  LET c == call[p]
  IN  /\ pc[p] = "erase"
      /\ node' = [node EXCEPT ![c.parent].slots[c.slot] = Unused]
      /\ Go(p, "unlink", c)
      /\ UNCHANGED <<machine, used, inode, files, cwd, exe, next, owner, refused, leaky>>

(* Mutant: inode_remove is forgotten. *)
UnlinkKept(p) ==
  LET c == call[p]
  IN  /\ pc[p] = "unlink"
      /\ Set(CloseInode(CloseInode(Work, c.at), c.parent))
      /\ Return(p)
      /\ UNCHANGED <<machine, node, files, cwd, exe, next, refused, leaky>>

(* inode_remove, and both are closed. *)
Unlink(p) ==
  LET c == call[p]
      w == [Work EXCEPT !.inode[c.at].removed = TRUE]
  IN  /\ pc[p] = "unlink"
      /\ Set(CloseInode(CloseInode(w, c.at), c.parent))
      /\ Return(p)
      /\ UNCHANGED <<machine, node, files, cwd, exe, next, refused, leaky>>

-----------------------------------------------------------------------------
(* open, once its file is open: the counter is read, stored one higher, and  *)
(* read again for the value to return after the disk was asked whether the *)
(* file is a directory.                                                    *)
Take(p) ==
  /\ pc[p] = "take"
  /\ Go(p, "store", [call[p] EXCEPT !.fd = next])
  /\ UNCHANGED <<machine, used, node, inode, files, cwd, exe, next, owner,
                 refused, leaky>>

Store(p) ==
  LET c == call[p]
  IN  /\ pc[p] = "store"
      /\ next' = c.fd + 1
      /\ files' = [files EXCEPT ![p] = Append(@, [fd |-> c.fd, at |-> c.at])]
      /\ Set(IF node[c.at].dir THEN OpenInode(Work, c.at) ELSE Work)
      /\ Go(p, "return", [NoCall EXCEPT !.at = c.at])
      /\ UNCHANGED <<machine, node, cwd, exe, owner, refused, leaky>>

(* The process writes to the descriptor next, where it writes at all. *)
OpenReturns(p) ==
  /\ pc[p] = "return"
  /\ IF "write" \in machine.calls
     THEN Go(p, "opened", [call[p] EXCEPT !.fd = next - 1])
     ELSE Go(p, "home", NoCall)
  /\ UNCHANGED <<machine, used, node, inode, files, cwd, exe, next, owner, refused, leaky>>

(* get_file_record finds the first record. *)
Records(p, fd) == {i \in DOMAIN files[p] : files[p][i].fd = fd}
Record(p, fd) == files[p][Min(Records(p, fd))]

(* close denies writes to learn whether they were denied, that is, whether   *)
(* the file is being executed.                                             *)
CloseDeny(p, i) ==
  LET f == files[p][i]
  IN  /\ pc[p] = "home" /\ "close" \in machine.calls /\ owner = None
      /\ i \in DOMAIN files[p]
      /\ inode' = [inode EXCEPT ![f.at].denied = @ + 1]
      /\ owner' = p
      /\ Go(p, IF inode[f.at].denied > 0 THEN "allow" ELSE "close",
            [NoCall EXCEPT !.fd = f.fd])
      /\ UNCHANGED <<machine, used, node, files, cwd, exe, next, refused, leaky>>

Allowed(w, s) == [w EXCEPT !.inode[s].denied = @ - 1]

(* Mutant: the denial is not taken back. *)
CloseAllowNot(p) ==
  /\ pc[p] = "allow"
  /\ Return(p)
  /\ UNCHANGED <<machine, inode, used, node, files, cwd, exe, next, refused, leaky>>

(* A file that is executed stays open. *)
CloseAllow(p) ==
  /\ pc[p] = "allow"
  /\ Set(Allowed(Work, Record(p, call[p].fd).at))
  /\ Return(p)
  /\ UNCHANGED <<machine, node, files, cwd, exe, next, refused, leaky>>

(* A directory was opened twice. *)
CloseFile(p) ==
  LET f == Record(p, call[p].fd)
      w == Allowed(IF node[f.at].dir THEN CloseInode(Work, f.at) ELSE Work, f.at)
  IN  /\ pc[p] = "close"
      /\ Set(CloseInode(w, f.at))
      /\ files' = [files EXCEPT ![p] = RemoveAt(@, Min(Records(p, f.fd)))]
      /\ Return(p)
      /\ UNCHANGED <<machine, node, cwd, exe, next, refused, leaky>>

Executed(s) == \E p \in Proc : exe[p] = s

(* write to what open returned: no such record, a directory, or denied       *)
(* writes.                                                                 *)
Write(p) ==
  LET c == call[p]
  IN  /\ pc[p] = "opened"
      /\ refused' = (refused \/ (/\ ~ node[c.at].dir /\ ~ Executed(c.at)
                                /\ \/ Records(p, c.fd) = {}
                                   \/ inode[c.at].denied > 0))
      /\ Return(p)
      /\ UNCHANGED <<machine, used, node, inode, files, cwd, exe, next, leaky>>

-----------------------------------------------------------------------------
ChdirSwitch(p) ==
  /\ pc[p] = "switch"
  /\ Set(CloseInode(Work, cwd[p]))
  /\ cwd' = [cwd EXCEPT ![p] = call[p].at]
  /\ Return(p)
  /\ UNCHANGED <<machine, node, files, exe, next, refused, leaky>>

(* load denies writes to the executable it has opened. *)
LoadDeny(p) ==
  LET s == call[p].at
  IN  /\ pc[p] = "deny"
      /\ inode' = [inode EXCEPT ![s].denied = @ + 1]
      /\ exe' = [exe EXCEPT ![p] = s]
      /\ Return(p)
      /\ UNCHANGED <<machine, used, node, files, cwd, next, refused, leaky>>

(* thread_exit closes the files that are not being executed, its own         *)
(* executable included, but no struct dir, and then the executable.        *)
Exit(p) ==
  LET open == SelectSeq(files[p], LAMBDA f : inode[f.at].denied = 0)
      w == FoldLeft(LAMBDA v, f : CloseInode(v, f.at), Work, open)
  IN  /\ pc[p] = "home" /\ "exit" \in machine.calls /\ p # First /\ cwd[p] # None
      /\ Set(CloseInode(Allowed(w, exe[p]), exe[p]))
      /\ leaky' = (leaky \/ Len(open) < Len(files[p])
                     \/ \E i \in DOMAIN open : node[open[i].at].dir)
      /\ files' = [files EXCEPT ![p] = <<>>]
      /\ cwd' = [cwd EXCEPT ![p] = None]
      /\ exe' = [exe EXCEPT ![p] = None]
      /\ UNCHANGED <<machine, node, next, owner, pc, call, refused>>

Next ==
  \E p \in Proc :
    \/ \E name \in {"create", "mkdir", "remove", "open", "chdir", "load"}, path \in machine.paths :
         Begin(p, name, path)
    \/ Split(p) \/ Scan(p) \/ Flip(p) \/ AddLookup(p) \/ AddSlot(p) \/ AddPut(p) \/ Made(p)
    \/ Find(p) \/ Erase(p) \/ Unlink(p)
    \/ Take(p) \/ Store(p) \/ OpenReturns(p)
    \/ \E i \in 1..MaxFiles : CloseDeny(p, i)
    \/ CloseAllow(p) \/ CloseFile(p) \/ Write(p)
    \/ ChdirSwitch(p) \/ LoadDeny(p) \/ Exit(p)

Spec == Init /\ [][Next]_vars

-----------------------------------------------------------------------------
InUse(s) == {i \in DOMAIN node[s].slots : node[s].slots[i].in_use}

TypeOK ==
  /\ used \subseteq Sector
  /\ \A s \in Sector : /\ inode[s].count \in Nat /\ inode[s].denied \in 0..inode[s].count
                       /\ inode[s].removed => inode[s].count > 0
                       /\ \A i \in InUse(s) : node[s].slots[i].name \in Name
                                              /\ node[s].slots[i].at \in Sector
  /\ \A p \in Proc : /\ cwd[p] \in Sector \cup {None} /\ exe[p] \in Sector \cup {None}
                     /\ \A i \in DOMAIN files[p] : files[p][i].at \in Sector
                     /\ {call[p].parent, call[p].at} \subseteq Sector \cup {None}
  /\ owner \in Proc \cup {None}

(* Openers: files, one more for a directory, the directories that processes  *)
(* stand in, executables, and what calls under way have opened.            *)
Openers(s) ==
  LET Opened(p) == Cardinality({i \in DOMAIN files[p] : files[p][i].at = s})
      Calling(p) == (IF call[p].parent = s THEN 1 ELSE 0)
                    + (IF call[p].at = s /\ pc[p] \in {"erase", "unlink", "take", "store",
                                                       "switch", "deny"} THEN 1 ELSE 0)
      Own(p) == (IF node[s].dir THEN 2 ELSE 1) * Opened(p) + Calling(p)
                  + (IF exe[p] = s THEN 1 ELSE 0)
  IN  MapThenSumSet(Own, Proc) + (IF cwd[First] = s THEN 1 ELSE 0)

Denials(s) ==
  Cardinality({p \in Proc : exe[p] = s})
    + Cardinality({p \in Proc : pc[p] \in {"allow", "close"} /\ Record(p, call[p].fd).at = s})

Links ==
  UNION {{<<d, node[d].slots[i].name, node[d].slots[i].at>> : i \in InUse(d)} :
           d \in {s \in used : node[s].dir}}

(* The inodes that somebody can still reach: those being created are not. *)
Born == {ROOT} \cup {l[3] : l \in {m \in Links : m[2] \notin Dots}}
          \cup {s \in Sector : Openers(s) > 0}

(* As long as no call has returned halfway: an inode has exactly the openers *)
(* there are, its writes are denied by the processes that execute it and by *)
(* a close under way, and the free map marks what can be reached and what   *)
(* is being created (inode_close: "If INODE was also a removed inode, frees *)
(* its blocks").                                                           *)
CountsExact ==
  ~ leaky =>
    /\ \A s \in Sector : inode[s].count = Openers(s) /\ inode[s].denied = Denials(s)
    /\ used = Born \cup {call[p].at : p \in {q \in Proc :
                 pc[q] \in {"lookup", "slot", "put", "made"} /\ call[q].at # None}}

Kind ==
  LET there == used \cap Born
  IN  [s \in Sector |-> IF s \notin there THEN "none" ELSE IF node[s].dir THEN "dir" ELSE "file"]

Link == LET born == Born IN {l \in Links : l[1] \in born}

T == INSTANCE Tree WITH
       Node <- Sector, Root <- ROOT, kind <- Kind, link <- Link,
       held <- {s \in Sector : Openers(s) > 0}

(* One process that makes any of the calls, and processes that create,       *)
(* remove, open, close and execute files at the same time, keep a tree: a  *)
(* name is one file, only what is empty is removed, nothing that has a name *)
(* or is open is released, and nothing else can be opened.                 *)
TreeKept == T!TSpec

(* A process that has opened a file nobody executes can write to it: "CHECK  *)
(* (write (fd, buf + CHUNK_SIZE * child_idx, CHUNK_SIZE) > 0"               *)
(* (tests/filesys/base/child-syn-wrt.c:29).                                *)
WritesSucceed == ~ refused
=============================================================================
