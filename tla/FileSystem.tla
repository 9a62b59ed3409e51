----------------------------- MODULE FileSystem -----------------------------
(***************************************************************************)
(* Files on the disk of Project 4 (CS439/Project4/filesys/inode.c and     *)
(* free-map.c): the inode, its chain of index blocks and their data        *)
(* blocks, which are allocated only when touched.  One call at a time;    *)
(* InodeSync has the calls of one inode against each other.               *)
(*                                                                        *)
(* A file is named by the sector of its inode.  Directories are reduced   *)
(* to the set of inodes they name; the sectors of the free map and of the *)
(* directories are not counted.                                           *)
(***************************************************************************)
EXTENDS Integers, FiniteSets, FiniteSetsExt

CONSTANTS
  Sectors,         \* sectors of the disk
  SectorBytes,     \* BLOCK_SECTOR_SIZE
  IndexSize,       \* INDEX_BLOCK_SIZE, the data blocks of an index block
  CreateLengths,   \* the initial sizes of files
  Offsets, Sizes,  \* of writes and reads
  Byte, Zero,      \* the bytes that are written; the byte of a block that was not
  MaxOpen          \* bound: openers of one file

ASSUME FileSystemAssumption ==
  /\ Sectors \in Nat /\ SectorBytes \in Nat \ {0} /\ IndexSize \in Nat \ {0}
  /\ CreateLengths \subseteq Nat /\ Offsets \subseteq Nat /\ Sizes \subseteq Nat
  /\ Byte \cup {Zero} \subseteq Nat /\ MaxOpen \in Nat

Sector == 0..(Sectors - 1)

VARIABLES
  disk,     \* what is written in each sector
  used,     \* the free map: the sectors marked
  names,    \* the inodes that a directory names
  open,     \* the open inodes: openers, whether removed, the copy of inode_disk
  up,       \* FALSE after a panic
  lost      \* some call has failed halfway, or a panic came

vars == <<disk, used, names, open, up, lost>>

IndexBlock(next, data) == [next |-> next, data |-> data]
DataBlock(bytes) == [bytes |-> bytes]
InodeDisk(start, end, length) == [start |-> start, end |-> end, length |-> length]

Slot == 0..(IndexSize - 1)

(* index_block_init: a slot or a next that points to the block itself is    *)
(* one that is not set.                                                    *)
IndexBlockInit(self) == IndexBlock(self, [i \in Slot |-> self])

ZeroBlock == DataBlock([i \in 0..(SectorBytes - 1) |-> Zero])

NotOpen == [count |-> 0]

Init ==
  /\ disk = [s \in Sector |-> ZeroBlock]
  /\ used = {} /\ names = {}
  /\ open = [s \in Sector |-> NotOpen]
  /\ up = TRUE /\ lost = FALSE

-----------------------------------------------------------------------------
(* The disk and the free map as a call changes them; ok: every allocation  *)
(* has succeeded so far.                                                   *)
Work == [disk |-> disk, used |-> used, ok |-> TRUE]

(* bitmap_scan_and_flip takes the first free sector. *)
FirstFree(u) == Min(Sector \ u)

Failed(w) == [w EXCEPT !.ok = FALSE]

(* Where byte pos of a file is: index block, slot and byte of the sector. *)
IndexBytes == SectorBytes * IndexSize
IndexOf(pos) == pos \div IndexBytes
SlotOf(pos) == (pos \div SectorBytes) % IndexSize

(* The n-th index block of the chain that begins at start. *)
NthIndexBlock(d, start, n) ==
  LET block[i \in Nat] == IF i = 0 THEN start ELSE d[block[i - 1]].next
  IN  block[n]

(* byte_to_sector below the end of the file: a slot that is not set is      *)
(* given a sector of zeros.                                                *)
Touch(w, start, pos) ==
  LET b == NthIndexBlock(w.disk, start, IndexOf(pos))
      s == FirstFree(w.used)
  IN  IF w.disk[b].data[SlotOf(pos)] # b THEN w
      ELSE IF ~ w.ok \/ w.used = Sector THEN Failed(w)
      ELSE [w EXCEPT !.used = @ \cup {s},
                     !.disk[s] = ZeroBlock,
                     !.disk[b].data[SlotOf(pos)] = s]

DataSector(d, start, pos) ==
  d[NthIndexBlock(d, start, IndexOf(pos))].data[SlotOf(pos)]

BytesToSectors(length) == (length + SectorBytes - 1) \div SectorBytes

(* The sectors that bytes lo to hi - 1 are in: how many, and the first byte  *)
(* of the n-th.                                                            *)
SectorCount(lo, hi) ==
  IF lo < hi THEN BytesToSectors(hi) - lo \div SectorBytes ELSE 0
SectorStart(lo, n) == SectorBytes * (lo \div SectorBytes + n - 1)

(* The loops of inode_read_at and inode_write_at. *)
ReadSectors(w, start, lo, hi) ==
  LET done[n \in Nat] ==
        IF n = 0 THEN w ELSE Touch(done[n - 1], start, SectorStart(lo, n))
  IN  done[SectorCount(lo, hi)]

WriteSector(w, start, first, lo, hi, byte) ==
  LET v == Touch(w, start, first)
      chunk == {pos \in first..(first + SectorBytes - 1) : pos \in lo..(hi - 1)}
  IN  IF ~ v.ok THEN v
      ELSE [v EXCEPT !.disk[DataSector(v.disk, start, first)].bytes =
              [j \in DOMAIN @ |-> IF first + j \in chunk THEN byte ELSE @[j]]]

WriteSectors(w, start, lo, hi, byte) ==
  LET done[n \in Nat] ==
        IF n = 0 THEN w
        ELSE WriteSector(done[n - 1], start, SectorStart(lo, n), lo, hi, byte)
  IN  done[SectorCount(lo, hi)]

-----------------------------------------------------------------------------
(* The free map when i more sectors have been allocated. *)
Allocated(u, i) ==
  LET map[j \in Nat] == IF j = 0 THEN u ELSE map[j - 1] \cup {FirstFree(map[j - 1])}
  IN  map[i]

(* inode_create: each turn of its loop fills one index block with up to     *)
(* IndexSize new sectors and allocates the next one if sectors are left.    *)
(* After the last, when IndexSize divides their number, the same block is   *)
(* initialised again and its sectors are forgotten.                        *)
CreateIndexBlock(w) ==
  LET more == w.left > IndexSize
      n == IF more THEN IndexSize ELSE w.left
      taken == IF more THEN n + 1 ELSE n
      Nth(i) == FirstFree(Allocated(w.used, i))
      next == IF more THEN Nth(n) ELSE w.end
      slots == [i \in Slot |-> IF i < n THEN Nth(i) ELSE w.end]
      new == {Nth(i) : i \in 0..(n - 1)}
  IN  IF w.left < 0 THEN w
      ELSE IF ~ w.ok \/ \E i \in 0..(taken - 1) : Allocated(w.used, i) = Sector
      THEN [Failed(w) EXCEPT !.used = Sector]
      ELSE [w EXCEPT !.used = Allocated(@, taken),
                     !.disk = [s \in Sector |-> IF s = w.end THEN IndexBlock(next, slots)
                                               ELSE IF s \in new THEN ZeroBlock ELSE @[s]],
                     !.end = next,
                     !.left = @ - IndexSize]

(* After i turns, of a file whose first index block is in start. *)
Created(w, start, sectors, i) ==
  LET turn[j \in Nat] ==
        IF j = 0 THEN [disk |-> w.disk, used |-> w.used \cup {start}, ok |-> TRUE,
                       end |-> start, left |-> sectors]
        ELSE CreateIndexBlock(turn[j - 1])
  IN  turn[i]

InodeCreate(w, f, length) ==
  LET start == FirstFree(w.used)
      sectors == BytesToSectors(length)
      done == Created(w, start, sectors, sectors \div IndexSize + 1)
  IN  IF w.used = Sector THEN Failed(w)
      ELSE [used |-> done.used, ok |-> done.ok,
            disk |-> IF done.ok
                     THEN [done.disk EXCEPT ![f] = InodeDisk(start, done.end, length)]
                     ELSE done.disk]

(* filesys_create.  The name may be taken: then dir_add fails.  A failure   *)
(* gives back the inode's sector and no other.                             *)
FilesysCreate(length, added) ==
  LET f == FirstFree(used)
      w == InodeCreate([Work EXCEPT !.used = @ \cup {f}], f, length)
      success == w.ok /\ added
  IN  /\ up /\ used # Sector
      /\ disk' = w.disk
      /\ used' = IF success THEN w.used ELSE w.used \ {f}
      /\ names' = IF success THEN names \cup {f} ELSE names
      /\ lost' = (lost \/ (~ success /\ used' # used))
      /\ UNCHANGED <<open, up>>

-----------------------------------------------------------------------------
Opened(f) ==
  [count |-> 1, removed |-> FALSE, locked |-> FALSE,
   start |-> disk[f].start, end |-> disk[f].end, length |-> disk[f].length]

Reopened(f) == [open[f] EXCEPT !.count = @ + 1]

InodeOpen(f) ==
  /\ up /\ f \in names /\ open[f].count < MaxOpen
  /\ open' = [open EXCEPT ![f] = IF @ = NotOpen THEN Opened(f) ELSE Reopened(f)]
  /\ UNCHANGED <<disk, used, names, up, lost>>

(* The chain ends at a block whose next is itself. *)
Chain(d, start) == {NthIndexBlock(d, start, n) : n \in 0..Sectors}

DataOf(d, b) == {d[b].data[i] : i \in Slot} \ {b}

(* What is released with a file that has its inode in f. *)
SectorsOf(d, f, start) ==
  {f} \cup UNION {{b} \cup DataOf(d, b) : b \in Chain(d, start)}

(* Mutant: the sectors of a removed file are released by any close. *)
InodeCloseEager(f, x, w) ==
  LET freed == IF x.removed THEN SectorsOf(w.disk, f, x.start) ELSE {}
  IN  /\ open' = [open EXCEPT ![f] = IF x.count = 0 THEN NotOpen ELSE x]
      /\ used' = w.used \ freed
      /\ up' = (freed \subseteq w.used)

(* Mutant: the data of the last index block is not released. *)
InodeCloseLast(f, x, w) ==
  LET chain == Chain(w.disk, x.start)
      kept == UNION {DataOf(w.disk, b) : b \in {c \in chain : w.disk[c].next = c}}
      freed == IF x.count = 0 /\ x.removed
               THEN SectorsOf(w.disk, f, x.start) \ kept ELSE {}
  IN  /\ open' = [open EXCEPT ![f] = IF x.count = 0 THEN NotOpen ELSE x]
      /\ used' = w.used \ freed
      /\ up' = (freed \subseteq w.used)

(* Mutant: a closed inode stays in open_inodes. *)
InodeCloseListed(f, x, w) ==
  LET freed == IF x.count = 0 /\ x.removed THEN SectorsOf(w.disk, f, x.start)
               ELSE {}
  IN  /\ open' = [open EXCEPT ![f] = x]
      /\ used' = w.used \ freed
      /\ up' = (freed \subseteq w.used)

(* inode_close, with the opener already subtracted in x.  free_map_release   *)
(* asserts that what it frees is in use.                                   *)
InodeClose(f, x, w) ==
  LET freed == IF x.count = 0 /\ x.removed THEN SectorsOf(w.disk, f, x.start)
               ELSE {}
  IN  /\ open' = [open EXCEPT ![f] = IF x.count = 0 THEN NotOpen ELSE x]
      /\ used' = w.used \ freed
      /\ up' = (freed \subseteq w.used)

Close(f) ==
  /\ up /\ open[f] # NotOpen
  /\ InodeClose(f, [open[f] EXCEPT !.count = @ - 1], Work)
  /\ UNCHANGED <<disk, names, lost>>

Files == names \cup {f \in Sector : open[f] # NotOpen}

(* The copy of an open inode counts, else the one on the disk. *)
StartOf(f) == IF open[f] = NotOpen THEN disk[f].start ELSE open[f].start
LengthOf(f) == IF open[f] = NotOpen THEN disk[f].length ELSE open[f].length

ByteAt(f, pos) ==
  LET b == NthIndexBlock(disk, StartOf(f), IndexOf(pos))
      s == disk[b].data[SlotOf(pos)]
  IN  IF s = b THEN Zero ELSE disk[s].bytes[pos % SectorBytes]

(* A write that failed left the lock of an open inode held. *)
Locked(f) == open[f] # NotOpen /\ open[f].locked

-----------------------------------------------------------------------------
(* A read fills the holes it meets; when the disk is full block_read is     *)
(* asked for sector -1 and panics.                                         *)
InodeReadAt(f, offset, size) ==
  LET x == open[f]
      w == ReadSectors(Work, x.start, offset, Min({offset + size, x.length}))
  IN  /\ up /\ x # NotOpen /\ ~ x.locked
      /\ disk' = w.disk /\ used' = w.used /\ up' = w.ok
      /\ UNCHANGED <<names, open, lost>>

(* dir_remove opens the inode and, whatever it is, counts the entries in     *)
(* use in it: a file is read to its end, its holes are filled, and one     *)
(* whose bytes look like more than two entries stays.  Else the entry is   *)
(* erased, the inode marked and closed.                                    *)
DirRemove(f, entries) ==
  LET x == IF open[f] = NotOpen THEN [Opened(f) EXCEPT !.count = 0] ELSE open[f]
      w == ReadSectors(Work, x.start, 0, x.length)
  IN  /\ up /\ f \in names /\ ~ Locked(f)
      /\ entries <= Cardinality({i \in 1..x.length : ByteAt(f, i - 1) # Zero})
      /\ disk' = w.disk /\ lost' = lost
      /\ \/ /\ ~ w.ok
            /\ up' = FALSE /\ used' = w.used
            /\ UNCHANGED <<names, open>>
         \/ /\ w.ok /\ entries > 2
            /\ used' = w.used
            /\ UNCHANGED <<names, open, up>>
         \/ /\ w.ok /\ entries <= 2
            /\ names' = names \ {f}
            /\ InodeClose(f, [x EXCEPT !.removed = TRUE], w)

(* One more index block, linked to the one the inode ends with. *)
AddIndexBlock(w) ==
  LET s == FirstFree(w.used)
  IN  IF ~ w.ok \/ w.used = Sector THEN Failed(w)
      ELSE [w EXCEPT !.used = @ \cup {s},
                     !.disk[s] = IndexBlockInit(s),
                     !.disk[w.end].next = s,
                     !.end = s]

(* Mutant: one index block too few. *)
NewIndexBlocksFew(length, new) ==
  IF IndexOf(new) = IndexOf(length) THEN 0 ELSE IndexOf(new) - IndexOf(length) - 1

(* Length and the new length are taken to have index blocks 0 to IndexOf.  *)
NewIndexBlocks(length, new) == IndexOf(new) - IndexOf(length)

Extended(x, length) ==
  LET grown[n \in Nat] ==
        IF n = 0 THEN [disk |-> disk, used |-> used, ok |-> TRUE, end |-> x.end]
        ELSE AddIndexBlock(grown[n - 1])
  IN  grown[NewIndexBlocks(x.length, length)]

(* A failure leaves the lock held (InodeSync). *)
ExtendFails(f, x, w) ==
  /\ ~ w.ok
  /\ open' = [open EXCEPT ![f] = [x EXCEPT !.end = w.end, !.locked = TRUE]]
  /\ disk' = w.disk /\ used' = w.used /\ up' = up
  /\ lost' = (lost \/ used' # used)

Write(f, x, w, offset, size, byte) ==
  LET v == WriteSectors([disk |-> w.disk, used |-> w.used, ok |-> TRUE],
                        x.start, offset, offset + size, byte)
  IN  /\ open' = [open EXCEPT ![f] = x]
      /\ disk' = v.disk /\ used' = v.used /\ up' = v.ok /\ lost' = lost

InodeWriteAt(f, offset, size, byte) ==
  LET x == open[f]
      new == offset + size
      w == Extended(x, new)
      y == [x EXCEPT !.end = w.end, !.length = new]
      z == [w EXCEPT !.disk[f] = InodeDisk(y.start, y.end, y.length)]
  IN  /\ up /\ x # NotOpen /\ ~ x.locked
      /\ \/ new <= x.length /\ Write(f, x, Work, offset, size, byte)
         \/ new > x.length /\ ExtendFails(f, x, w)
         \/ new > x.length /\ w.ok /\ Write(f, y, z, offset, size, byte)
      /\ names' = names

(* The machine is switched off between two calls, or has panicked; what     *)
(* was removed and still open then is never released.                      *)
Reboot ==
  /\ open' = [s \in Sector |-> NotOpen]
  /\ up' = TRUE
  /\ lost' = (lost \/ \E f \in Sector : open[f] # NotOpen /\ f \notin names)
  /\ UNCHANGED <<disk, used, names>>

Next ==
  \/ \E length \in CreateLengths, added \in BOOLEAN : FilesysCreate(length, added)
  \/ \E f \in Sector :
       \/ InodeOpen(f) \/ Close(f)
       \/ \E entries \in {0, 3} : DirRemove(f, entries)
       \/ \E offset \in Offsets, size \in Sizes :
            \/ InodeReadAt(f, offset, size)
            \/ \E byte \in Byte : InodeWriteAt(f, offset, size, byte)
  \/ Reboot

Spec == Init /\ [][Next]_vars

-----------------------------------------------------------------------------
Block ==
  [next : Sector, data : [Slot -> Sector]]
    \cup [bytes : [0..(SectorBytes - 1) -> Byte \cup {Zero}]]
    \cup [start : Sector, end : Sector, length : Nat]

Inode ==
  [count : 1..MaxOpen, removed : BOOLEAN, locked : BOOLEAN,
   start : Sector, end : Sector, length : Nat] \cup {NotOpen}

TypeOK ==
  /\ disk \in [Sector -> Block]
  /\ used \subseteq Sector /\ names \subseteq Sector
  /\ open \in [Sector -> Inode]
  /\ up \in BOOLEAN /\ lost \in BOOLEAN

(* A file whose inode is in f has a chain that ends, and each of its sectors *)
(* once: as the inode, as an index block or as one slot of one of these.   *)
Whole(d, f, start) ==
  LET chain == Chain(d, start)
  IN  /\ f \notin chain
      /\ \E b \in chain : d[b].next = b
      /\ \A b \in chain : DataOf(d, b) \cap (chain \cup {f}) = {}
      /\ \A b, c \in chain, i, j \in Slot :
           d[b].data[i] = d[c].data[j] => b = c /\ (i = j \/ d[b].data[i] = b)

Of(f) == SectorsOf(disk, f, StartOf(f))

(* No sector is part of two files, or of one twice, and all of them are     *)
(* marked: nothing is written over, and nothing is released twice.         *)
OwnedOnce ==
  /\ \A f \in Files : Whole(disk, f, StartOf(f)) /\ Of(f) \subseteq used
  /\ \A f, g \in Files : f # g => Of(f) \cap Of(g) = {}

(* As long as no call has failed halfway and no machine was switched off    *)
(* with removed files open, the free map marks the sectors of the files    *)
(* and no others (inode_close: "If INODE was also a removed inode, frees   *)
(* its blocks").                                                           *)
NothingLost == ~ lost => used = UNION {Of(f) : f \in Files}

NoFile == <<-1>>

Content ==
  [f \in Sector |-> IF f \notin Files THEN NoFile
                    ELSE [i \in 1..LengthOf(f) |-> ByteAt(f, i - 1)]]

F == INSTANCE Files WITH File <- Sector, content <- Content

(* To its callers the disk is Files: every byte is where it was written     *)
(* last, whatever holes, chains, reuse of sectors and reboots lie between. *)
FilesKept == F!FSpec
=============================================================================
