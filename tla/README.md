# Pintos in TLA+

This directory specifies, model-checks and proves properties of the two parts of the
repository in which things happen in more than one order: the student version of the
Pintos kernel in `CS439/Project1` .. `Project4`, and the pipelined Y86-64 processor
of `CS429/Lab4`. The rest (`CS347`, a data modelling course, and the other labs of
`CS429`, stand-alone sequential exercises) is listed as components and left alone.

Every definition is translated from the source, C or HCL; `PROJECT.json` maps each
one to the lines it stands for.

## 1. The system and its parts

Pintos is a uniprocessor kernel. Kernel threads are preempted by the timer; a
function that must not be preempted turns interrupts off. Everything else is built
on semaphores, which are built on turning interrupts off. The four projects are four
copies of the kernel that differ where the course asked for work: Project 1
priorities and alarms, Project 2 user programs, Project 3 virtual memory, Project 4
the file system. Projects 2, 3 and 4 share the thread and semaphore code, except for
one function, `next_thread_to_run`.

| component | state | operations | what is hard | what makes it correct |
|---|---|---|---|---|
| scheduler (`threads/thread.c`) | `status` of each thread, `ready_list`, the running thread | `thread_create`, `thread_block`, `thread_unblock`, `thread_yield`, `thread_exit`, `idle`, `schedule` | every tick is a switch; one list element per thread is shared by all lists | exactly one thread runs; list membership and status agree; whoever is ready runs eventually (or does not: Projects 2 and 3) |
| semaphores (`threads/synch.c`) | `value`, `waiters` | `sema_down`, `sema_try_down`, `sema_up` | a woken thread must compete for the value again; ups come from interrupt handlers | they are counting semaphores: no unit from nowhere, no up lost on a sleeper |
| locks, condition variables (`threads/synch.c`) | `holder`, the semaphore; queue of private semaphores | `lock_acquire`, `lock_release`, `cond_wait`, `cond_signal`, `cond_broadcast` | the lock is released before the wait begins | a signal after the release is not missed |
| processes (`userprog/process.c`, `syscall.c`, `thread_exit`) | a `child_record` per child, shared by parent and child without a lock | `process_execute`, `start_process`, `load`, `exec`, `wait`, `process_wait`, `exit`, `kill` | two threads read and write flags in an order nobody excludes | `exec` tells the truth about the load, `wait` about the death, both return |
| inodes (`filesys/inode.c`) | lock, two condition variables, `readers`, `writers`, `deny_write_cnt`, length, index blocks | `inode_read_at`, `inode_write_at`, `inode_deny_write`, `inode_allow_write`, `inode_create`, `inode_open`, `inode_close` | readers and extending writers; failures in the middle; index block boundaries | extension excludes readers and writers; counts are exact; calls return; bytes are where they were written |
| free map (`filesys/free-map.c`) | a bitmap | `free_map_allocate`, `free_map_release` | scan and flip without a lock | no sector is given out twice |
| directories (`filesys/directory.c`, `filesys.c`) | entries, a lock per open `struct dir` | lookup, add, remove, path walking | two openers have two locks | names stay unique |
| file system calls (`userprog/syscall.c`, `filesys/file.c`) | descriptor lists, `next_fd`, one file lock | open, read, write, close, ... | the descriptor counter is read twice without the lock | descriptors are unique |
| virtual memory (Project 3 `vm/`) | frame table, supplemental tables, swap bitmap | page fault, `obtain_free_frame`, eviction, swap in/out | eviction of a page its owner is writing | no page's contents are lost |
| donation (Project 1 `threads/`) | priorities, donors, held locks | `lock_acquire`, `lock_release`, `thread_set_priority` | nested and multiple donation | a holder runs at least as urgently as its waiters |
| alarm clock (Project 1 `devices/timer.c`) | the sleep list | `timer_sleep`, `thread_tick` | the list is changed while the tick walks it | every sleeper wakes, not too early |
| Y86-64 processors (`CS429/Lab4`) | the program counter, registers, memory, codes; four pipeline registers | one instruction, or one clock cycle | forwarding, stalls and bubbles that combine; exceptions in flight | the pipeline computes what the sequential processor does |

How they interact: processes and inodes call the semaphore operations, which call
`thread_block` and `thread_unblock`, which call `schedule`; interrupt handlers
(timer, disk) call `thread_tick`, `intr_yield_on_return` and `sema_up` or
`thread_unblock` from outside any thread. Parent and child share the `child_record`
directly. The full list, with the parts that are base code or out of reach, is under
`components` in `PROJECT.json`; the places where this code is hard to test are under
`hazards`, each at its line.

## 2. Modules

    Semaphores      abstract: values and askers, nothing else
        ^ refined by
    Kernel  -->  Threads          the scheduler and the semaphores
      |             ^ implemented by
      |---->  Process             exec, wait, load, exit on Projects 2, 3 and 4
      |---->  InodeSync           the monitor of one inode in Project 4
      |
    KernelProofs  -->  ThreadsProofs, ProcessProofs, InodeSyncProofs

    Files           abstract: files as sequences of bytes
        ^ refined by
    FileSystem                    inodes, index blocks and free map of Project 4
      |---->  FileSystemProofs

    Tree            abstract: names, nodes and who holds them
        ^ refined by
    Directory                     the calls of Project 4 that name files

    Memory          abstract: pages that keep what was written
        ^ refined by (one process alone)
    VirtualMemory                 frames, swap and page faults of Project 3
      |---->  VirtualMemoryProofs

    Priority                      scheduler, donation and alarm clock of Project 1
      |---->  PriorityProofs

    Y86  -->  Seq   abstract: the sequential processor
      |        ^ refined by
      |---->  Pipe                the pipelined processor
                |---->  PipeProofs

The modules `MC...` give the constants values for TLC. Several modules have a
constant `Machines`: a set of records that say which calls are made, with which
arguments and by whom. The initial state picks one of them, so that one run covers
several instances that would be too large together.

### Kernel

No variables: a kernel state is one record `k`, and each C function is an operator
from the state before it to the state after. That is what those functions are: all
of them run with interrupts off, so each is one atomic step, and other modules
compose them the way the C code calls them (`ThreadExit(SemaUp(SemaUp(k, s), r))` is
what a dying thread does in Project 4).

* `k.project` picks the version of `next_thread_to_run`: Project 2 pops the ready
  list at the back, where `thread_unblock` and `thread_yield` push; Project 3 pops
  it at the front but pushes the thread named `main` to the back first; Project 4
  pops it at the front.
* `k.wants[t]` is the saved stack of a switched-out thread as far as it matters: the
  semaphore whose `sema_down` loop the thread is in. `SemaDown` is one evaluation of
  the `while` condition and what follows. A thread that is switched in while `wants`
  is set can only evaluate it again, interrupts still off (`SemaResume`), so a woken
  thread may find the value taken and queue again, as in the code.
* `Schedule` chooses, switches and reaps: the thread switched from is freed
  (`"NONE"`) if it is dying and not the initial thread. A freed structure may be
  reused by a later `ThreadCreate`.
* `idle` blocks itself without being on a list, and may be READY without being on
  the ready list, when the timer interrupts it; the invariants say so.

`KernelOK` is the conjunction every kernel state satisfies: the type, one running
thread (`OneRuns`), the ready list (`ReadyIsQueued`), the waiters lists
(`BlockedIsQueued`), and two facts about dying and idle threads (`WantsIsLive`,
`SlotsOK`). `WakeupsCover` is the invariant behind "no lost wakeup".

### Threads, Semaphores

`Threads` lets every thread call every operation at any time interrupts are on; the
timer may preempt whoever runs; `Up`, `TryDown` and `Wake` may also come from an
interrupt handler. It assumes nothing about what the callers are doing, so what
holds here holds for every program on top. `Semaphores` is what a caller may rely
on: a value, and threads that ask for a unit and are granted one. `Threads`
implements it with `value <- k.value` and `asking <- k.wants`.

### Process

One `pc` label per point at which another thread can get between two accesses to the
`child_record`; `rec` is that record; `hist` records what really happened, so that
the answers of `exec` and `wait` can be compared with it. Projects 2 and 3 use one
semaphore for `exec` and `wait` and set `child_loaded` in `start_process` after
`load` has upped it; Project 4 has two semaphores and sets `child_loaded` inside
`load` before the up. `WaitDown`, `ExitUps`, etc. are guarded accordingly. The run
checks `RunsOnThreads`: each step of `Process` is a step of `Threads`, so the
theorems about `Threads` apply to it (`ProcessProofs` proves it for every number of
processes).

### InodeSync

The two monitored calls of one inode, with `lock_acquire`, `lock_release`,
`cond_wait`, `cond_signal` and `cond_broadcast` unfolded to semaphores on `Kernel`.
Of the data only the number of free sectors remains, since running out of them takes
the error path out of the monitor. `lock_acquire`'s assertion that the caller does
not already hold the lock is the label `"panic"`, after which nothing runs.

### FileSystem, Files

The disk of Project 4 as blocks: inodes, index blocks in a chain, data blocks. One
call at a time, so the module is about data and not about the monitor, which
`InodeSync` has. `disk` is what the device holds, `used` the free map, `open` the
list of open inodes with the copy of `inode_disk` that each has. A call's loop is a
recursive function of the number of turns, over the sectors or index blocks in the
code's order, so that running out of sectors halfway leaves what the code leaves.
`up` goes false with a panic;
`Reboot` forgets `open`. `lost` notes that the code has lost sectors in a way it
does not try to avoid: a create that failed after it began (a taken name included),
an extension that failed, a removed file open when the machine stopped.

`Files` is what a caller may rely on. `FileSystem` implements it with `Content`, the
bytes found by following each file's chain as `byte_to_sector` would.

`dir_remove` counts the directory entries in whatever it removes. For a plain file
that reads the file to its end, which fills its holes, and refuses when the bytes
look like more than two entries in use; the model abstracts "look like" to the file
having that many nonzero bytes.

### Directory, Tree

`create`, `remove`, `open`, `close`, `write`, `chdir`, `mkdir`, and the parts of
`load` and `thread_exit` that open and close files, as several processes make them.
A node is its inode's sector; what is behind an inode is `FileSystem`'s. A call is a
walk (`dir_split_name`), then pieces at the points where it waits for the disk or
another process can change what it has read: `free_map_allocate`'s scan and flip are
two steps, so are `inode_open`'s listing of the inode (before its data is read,
`inode.c:214`) and what follows, and `open`'s two readings of the descriptor
counter. `file_lock` (`owner`) is held by the calls that hold it. The lock in a
`struct dir` is left out, because every `struct dir` used for lookups and entries is
private to the call that opened it.

`leaky` records that a call has taken one of the returns that keep an opener or a
sector: a failed walk, `filesys_open` of a name that is missing or removed, `chdir`
to a removed directory, `mkdir` whose `dir_add` fails, an exit with an open
directory or executable. The counts are exact until then (`CountsExact`); the tree
is `Tree` even after, but only `create` and `remove` without a directory on the way
follow (see "Why these are enough").

`Tree` has nodes, entries and holders: a name is made once, only what is empty is
unlinked, only what nobody names or holds is forgotten.

### VirtualMemory, Memory

`page_fault` with its branches, `obtain_free_frame`, the clock, `evict_frame`,
swapping in and out, growth of the stack, `load`'s entries and `thread_exit`, of
several processes, with a step at every point where interrupts are on and another
process can matter. The CPU is not modelled: any process with something to do may do
it, which allows more interleavings than the scheduler of Project 3. `Read` and
`Write` are the user program's; they set the accessed and dirty bits as the hardware
does, also between the moment a page is written to swap and the moment it is
unmapped.

A page is one unit of data and a content names the process and page it was written
to, so that data in a foreign page shows. `Junk` is what a frame or slot held
before: a new stack page begins with it, although a comment in `process.c:514`
speaks of a zeroed page. A process's exit runs with interrupts off and is one step,
unless it has to wait for `frame_table_lock` (`ExitWaits`, `ExitResumes`): then a
page whose `swap` flag it has looked at may be evicted behind its back and the slot
is never freed (`thread.c:333`). With swap full the kernel panics, and the run
reaches that.

`Memory` is an array of pages per process that keeps what was written last.

### Priority

Project 1 from the functions as they are written; the tree at this commit does not
compile (`thread.c:464-466`). A thread makes a call, in pieces where interrupts are
on; interrupts are off from the moment a thread blocks in `sema_down` until it
leaves it, so a woken thread goes on with `sema_down` when it is switched to
(`off`). Times are relative to the present, and every time in the past is -1. A
machine in which slices end only between calls (`disturbed = FALSE`) shows what the
algorithms do, one in which they end anywhere shows what they do under preemption.
`lock_try_acquire`, `thread_create` and `thread_exit` are not in it: the threads
exist from the beginning.

### Pipe, Seq, Y86

The HCL files of the lab, one definition per signal under its own name. `Y86` has
what both share and what the simulator provides (memory, registers, ALU, encoding),
modelled from how the signals use it: addresses count one per byte of opcode and
register and one per constant word; only the zero flag is kept; instructions are in
a memory of their own, so no program modifies itself. The simulator stops when an
instruction whose status is not `SAOK` reaches write-back, and an instruction that
ends so changes nothing. The refinement maps a pipeline to the sequential state in
which everything up to the instruction in its memory stage has been executed and
nothing behind it (`Seen`).

### What the models leave out

* `malloc` does not fail in `InodeSync` and `FileSystem`; a full disk does what its
  failure would do in an extension. The loop of `exec` over the program's name is
  not modelled.
* The machine stops between two calls or in a panic, not between two writes of one
  call.
* Merged or dropped: `tid_lock` and the tid counter, the pages of a thread, tick
  statistics, a lock's `holder` being stored in a step of its own (`Entered`,
  `CondReturn`, `Leaving`), in `Process` the closing of files in `thread_exit`,
  which `Directory` has.
* Disk input and output is a thread that blocks and an interrupt that unblocks it
  (`Sleep`, `DiskInterrupt`).
* `main` powers the machine off when its task has been waited for, which ends every
  behaviour of `Process` (`Halted`); a failed assertion does so in `InodeSync`.
* `exec` of a program for which no thread can be made (`TID_ERROR`) and `wait` for a
  pid that is not a child return -1 at once without any change; they are not
  actions.
* The MC modules give `Process` two processes besides `main`.

## 3. Runs

| run | question | bounds | distinct states |
|---|---|---|---|
| `Threads` | are the lists right, are ups never lost, are the semaphores the abstract ones, how fair is each scheduler | main, idle, two threads; two semaphores; values up to 2; all three projects | 33 288 |
| `Process` | which promises of `exec` and `wait` each project keeps | main and two processes, each may exec and wait for the other; Projects 2, 3, 4 | 26 223 |
| `Process_p4_wait` | the promise of `wait` that Project 4 breaks | the same, Project 4 | until the violation |
| `InodeSync` | exclusion, exact counts, no missed signal, no deadlock | three threads, two calls each (read, write, deny in any mix); one spare sector | 443 156 |
| `FileSystem` | is the disk `Files`, are sectors owned once and given back | 7 sectors of 2 bytes, 2 data blocks to an index block; files created with 1 or 5 bytes, two bytes written or read at 1 or 8; two openers of each file | 194 689 |
| `FileSystem_exact` | the same for files created with 4 bytes, an index block's worth | one opener | until the violation |
| `Directory` | are openers, denials and sectors counted right, are names what `Tree` says | three sectors; names `x`, `y`; one process that walks and makes directories, one with files open, two processes on one directory; two descriptors handed out, one open file each | 305 366 |
| `Directory_open` | does a write to a file just opened write | two processes | until the violation |
| `VirtualMemory` | are tables and slots consistent, is what was written kept | one process with three pages, two frames, one or three slots; two processes with two pages each, three frames, three slots | 1 077 091 |
| `VirtualMemory_parallel` | do two processes keep what they write | two processes | until the violation |
| `Priority` | exclusion, wakeups, donation, who runs, when alarms ring | three threads and idle, priorities 0 to 2; two locks, one condition; naps of 0 to 2 ticks | 948 546 |
| `Pipe` | is the pipeline the sequential processor | every program of three instructions of 23 kinds (two without a base), of four of fewer kinds, chosen ones of five; two registers, four memory cells, words mod 16 | 557 431 |

Why these are enough. Two threads besides `main` and `idle` let one be woken while
another takes the value (the loop in `sema_down`), and give Project 3 a ready list
with main at its head and another behind it. A value of 2 lets two ups be
outstanding; two semaphores let one thread's up meet a sleeper of the other, and let
a dying thread up two. In `Process` a child can have a child and both can be waited
for. In `InodeSync` three threads are the least for a reader, a writer that waits
and a writer that signals; two calls each let every thread meet a monitor it has
left; one spare sector lets an extension succeed before another one fails. In
`FileSystem` 7 sectors hold a file with three index blocks and a hole, or one
created with two index blocks that grows until the disk is full, or two small files
that reuse each other's sectors; offset 1 crosses a sector, offset 8 skips a whole
index block. The theorems of section 5 need none of these bounds.

In `Directory` three sectors hold the root, a directory and a file in it, or are all
in use when one more is asked for; two names let one be a file in the directory that
the other names. More descriptors only differ in number. Three things in that run's
instances exclude what the code gets wrong; each is a fault of the code, met when
the instance had it:

* `mkdir` and `chdir` are made only where one process runs. `mkdir` holds no
  `file_lock`, and against a `create` it can put one name into the root twice.
  Processes share their parent's `struct dir`, and the `dir_close` of `chdir` frees
  it for all (`thread.c:201`).
* A walk does not take a file for a directory, does not remove `.` or `..`, does not
  make a directory elsewhere than in the working directory (its `..` is the maker's
  working directory, not its parent), does not create an empty name, and does not
  follow `..` out of a removed directory.
* After a call that leaks (`leaky`), only `create` and `remove` with no directory on
  the way go on.

In `VirtualMemory` the frames are one fewer than the pages in use, the least at
which the clock has a choice and must evict. Of the two processes neither has as
many pages as there are frames, and neither is loaded again: else the clock may come
round to a page whose read has not ended (`frame-table.c:33`), which loses data in
another way. A fresh block from `malloc`, whose `index` happens to name frame 0
(`supplemental-table.c:14`), is given only to a process alone: with two, an exit may
free frame 0 under its owner. One process alone has neither restriction and is
loaded again and again; it has one slot, which is soon used up, or three.

In `Priority` three threads are a holder, a waiter and one in the middle, which is
where priority inversion is. Every assignment of priorities is tried where one lock
is used and with alarms. In `Pipe` an instruction is five stages long, but all
forwarding and every hazard is over within three instructions behind; the fourth and
the fifth give the combinations of two hazards.

What is shown:

* `ListsAgree`: a thread is on the ready list, on one waiters list, or running,
  never two of these; `thread.h:80` calls the two uses of the element mutually
  exclusive.
* `NoLostWakeup`: while threads sleep on a semaphore, every unit of its value has an
  already woken thread that will take it.
* `SemaphoresKept`, `AskersAreGranted`: the refinement of `Semaphores`, its safety
  in all projects, its liveness in Project 4. In Project 2 a woken thread may never
  run again, so there is nothing to say.
* `ReadyRuns`: Project 4 is round-robin. In Project 3 every ready thread other than
  main runs; main runs only when nothing else is ready. Project 2 is not in it: see
  the other facts below.
* `ExecHonestIn2And4`, `WaitHonestIn4`, `NeverWaitsForDeadIn2`, `ExecReturns`: what
  `exec` and `wait` do promise. Project 2 owes the first and the third to a fault of
  its scheduler: nothing is preempted there.
* `ExtendsAlone`, `CountsExact`, `WaitersAreOwed`, `SomebodyMoves`: the inode
  monitor. A write that extends the file has the lock, and nobody is reading or
  extending then. That does not keep out a write that has released the lock and is
  putting its data on the disk (`inode.c:456` on): it may overlap an extension.
  The last three are stated up to the moment a write has found the disk full
  (`Leaked`): that call keeps the lock (below), and nothing after it returns.
* `FilesKept`: every byte of a file is the one written last or zero, through holes,
  growth, reuse of sectors and reboots. `OwnedOnce`: no sector is in two files or in
  one twice, and each is marked in the free map. `NothingLost`: nothing else is
  marked, but for what `lost` excepts. The run leaves out one kind of length:
  `inode_create` for a number of sectors that is a multiple of 126 (of 2 in the
  model) initialises its last index block twice and forgets that block's sectors, so
  `NothingLost` is false there.
* `CountsExact`, `TreeKept` (`Directory`): openers and write denials are what the
  processes hold, a sector is marked while it is named or held, and the tree changes
  only as `Tree` does.
* `FramesAgree`, `SlotsOwned`: frame table, page tables and supplemental tables
  agree, two live pages never share a slot. `KernelMoves`: no lock's holder ever
  waits for what its own lock prevents. There is no liveness here: other processes
  may touch the pages under the clock hand for ever.
* `MemoryKeptAlone`: one process has the abstract `Memory`. `PagesKept`: of several,
  each page changes by its process's writes, or by another process's eviction of it,
  which takes it back to something the process wrote there before or to how the page
  began, and never brings in another page's data.
* `LocksExclude`, `NoLostWakeup` (`Priority`): in every machine, preempted anywhere.
  `DonationPlain`: a holder has the priority of its most urgent waiter, and its own
  again after release, as long as locks are not nested, priorities are not set and
  interrupts come between calls. `HighestRuns`: where no lock is used nobody ready
  outranks who runs, between two calls. `AlarmsOnTime`: where ticks spare
  `thread_sleep`, who sleeps for one tick or more leaves the list in the step in
  which its time comes, and in no other. That is the bounded form of "every sleeper
  wakes"; with fairness it is too slow to check. `timer_sleep(0)`, which is in the
  run, is not so: see below.
* `Sequential`: whatever the pipeline has retired is what `Seq` computes, exceptions
  included, for any program. Excepted are the steps of `Strays`, in which an
  instruction that names no register has been forwarded something (below).
  `AtMostOne`: no pipeline register is told to stall and to bubble in one
  cycle, which `pipe-full.hcl:341` rules out. `KeepsRetiring`: under `WF(Cycle)`
  instructions are retired until one stops the machine.

Findings, each with its run:

1. Project 4, `process_wait` (`process.c:116`): `child_exited` is read, then
   `parent_waiting` stored, then the semaphore downed, all with interrupts on. A
   child that exits between the first two wakes nobody. (`NeverWaitsForDead`)
2. Project 4, `inode_write_at` (`inode.c:410`): a file created with a multiple of
   126 * 512 bytes has one index block less than growth counts on, and bytes written
   at its end alias earlier ones. (`FilesKept`)
3. Project 3, `evict_frame` (`frame-table.c:106`): a page is copied to swap and
   unmapped afterwards; what its owner writes in between is lost. (`MemoryKept`)
4. Project 4, `open` (`syscall.c:225`): it reads the descriptor counter again after
   it has waited for the disk, and may return the descriptor of another process's
   file. (`WritesSucceed`)

Other facts met while modelling. The models contain them; the properties above are
stated so as to leave them out:

* Project 2, `next_thread_to_run` (`thread.c:550`): the ready list is popped at the
  end where `thread_yield` pushes, so the thread that yields at the end of its time
  slice runs on and all others starve until it blocks or exits. The file promises
  the opposite: "If false (default), use round-robin scheduler" (line 58), "# of
  timer ticks to give each thread" (55), "Starts preemptive thread scheduling"
  (105), "Enforce preemption" (139). The theorem `Project2NeverPreempts` shows that
  it is so for any number of threads.
* Project 2, `load` (`process.c:364`): the up meant for `exec` is taken by main's
  `process_wait`, which returns while its task is running (`WaitHonest`,
  unrestricted).
* Project 3, `load` (`process.c:391`): the parent is woken before `child_loaded` is
  stored, and `exec` returns -1 for a process that runs (`ExecHonest`,
  unrestricted).
* Project 4, `inode_write_at` (`inode.c:428`): the return on a full disk keeps the
  lock and the writer's count; later calls never return. `byte_to_sector`
  (`inode.c:460`): on a full disk a hole becomes sector -1 and the kernel panics,
  for a read too.
* Project 4, directories: a path that ends in `/` names the root; `load` calls
  `filesys_open` without `file_lock`; `dir_add` returns with its lock held for an
  empty name (`directory.c:299`); `seek` and `tell` do not check for a missing
  record.
* Project 3, `bring_page_from_swap` (`exception.c:230`): it clears the entry's slot
  and sets the dirty bit with no lock held, after the data have come. A page evicted
  again in between has a new slot by then, which is forgotten; it takes more
  processes than one and very few frames. So `SlotsOwned` is proved for a process
  alone, and the run of two processes has frames enough.
* Y86, `pipe-full.hcl`, `d_valA` and `d_valB`: forwarding compares register numbers,
  `RNONE` included, so an instruction that names no register, a load without a base
  for one, takes the value of an instruction in front that has no destination;
  `seq-full.hcl` takes 0. Such programs are in the model and the run meets the
  difference (`SEQ!Spec` is violated there); `Sequential` excepts the step
  (`Strays`).
* Project 1, `timer_sleep` (`timer.c:90`): a sleep of 0 ticks is put on the list as
  any other and ends at the next tick, although `tests/threads/alarm-zero.c:1` says
  that it "should return immediately". The test only wants it to return.
* Project 1: `donate` follows a woken thread's `waiting_lock`, whose holder may be
  `NULL`, and the kernel panics (nested locks, `synch.c:420`). A donation does not
  move a ready thread in `ready_list` (`thread.c:590`); `old_priority` may itself be
  donated (`synch.c:230`); `thread_set_priority` does not touch the donation, and a
  thread may end below its base; it does not yield on a release. `timer_sleep` links
  into `sleep_list` with interrupts on: a tick between its search and its link can
  corrupt the list, and the model ends there (`broken`). `thread_yield` sorts
  `ready_list` with interrupts on too (`thread.c:362`); the model makes the sort one
  step.

Each property of a passing run has a mutant in `PROJECT.json`: an operator next to
the original, changed as a plausible bug would change the code, under which TLC
finds the property violated.

### Fairness

* `WF(Yield)` / `WF(Tick)`: the timer ticks for ever, and no code runs with
  interrupts off for ever.
* `WF(Resume)`: a thread switched in inside `sema_down` goes on.
* Strong fairness of a thread's kernel steps (`ParentStep`, `ChildStep`): a time
  slice is four ticks, and a thread that gets the CPU again and again executes at
  least an instruction each time.
* Strong fairness of `DiskInterrupt`: a disk that was asked answers.
* `WF(Cycle)` in `Pipe`: the clock ticks.
* No fairness in the other modules, which have no liveness property.
* No fairness on what a process or thread chooses to do (`UserStep`, `Begin`,
  `Exit`).

## 4. Proof structure

`KernelProofs` has one lemma per operator of `Kernel`, in the order of the calls:

* `AppendQueue`, `TailQueue`, `FrontQueue`: queues without repetition; `NextIsReady`
  from these: whichever way a project picks, the pick is on the ready list and the
  rest is what remains.
* `ScheduleOK`: from any state in which nobody runs and all else is in order
  (`NobodyRuns`), `Schedule` leads to one with `KernelOK`, and disturbs no semaphore
  (`SameSemaphores`).
* `BlockOK`, `YieldOK`, `ExitOK`: entering `Schedule` from each caller. `UnblockOK`,
  `CreateOK`: no switch. `YieldKeepsCPU`: Project 2.
* `WaitOK`, `TakeOK`, `DownOK`, `TryDownOK`, `UpOK`: `KernelOK` again, and `Covered`
  (`WakeupsCover` of every semaphore). The argument is about counting: an up adds
  one to the value and, if anybody sleeps, one thread to those woken; a take removes
  one unit and at most one woken thread; a thread waits only when the value is zero.

`ThreadsProofs` takes `IInv == KernelOK(k) /\ Covered(k)`. `NoLostWakeup` alone is
not inductive: `SemaUp` adds a thread to the woken ones only if the head of the
waiters is blocked, on this semaphore and on no other list, which `KernelOK` says.
`NextKeeps` has one step per action of `Next` and shows at once that `IInv` is kept,
that Project 2 does not preempt, and that the step is one of `Semaphores` or a
stutter.

`ProcessProofs` adds to the kernel's two invariants what the labels say of the
record (`Places`, `Records`), which semaphore a thread inside `sema_down` is in
(`Asks`), that a parent there has set `parent_waiting` (`Flagged`), how often each
semaphore may have been upped by now (`Values`: that is what tells "the child is
loaded" from "it has exited"), and what the answers rest on (`Loads`, `ExecTold`,
`Statuses`, `WaitTold`). `Unpreempted` is Project 2's: a thread that is not running
is asleep for the disk or inside `sema_down`, so nothing comes between a parent's
look at the record and its down. Steps that only move a thread are proved together
(`Creates`, `Downs`), and `RunsOnThreads` falls out of the same cases.

`InodeSyncProofs`: a thread owns the lock from the moment its `sema_down` takes the
unit, before `holder` says so (`Owns`); the lock's semaphore is 0 exactly while
somebody owns it (`LockOK`). A thread is in a condition's queue until signalled and
its own semaphore is 1 from then until it has taken it (`QueuesOK`). What a thread
has tested stays true while it has the lock (`Tested`). The counters are
cardinalities (`Counted`), whence `CountsExact`; `WaitersAreOwed` is part of the
invariant. That the calls do not deadlock follows from all of it: if every thread
waited, nobody would own the lock, so the lock's waiters would be covered by a woken
one, and those on conditions owed a signal by a thread that is not there.

`PipeProofs`: while no exception has reached the memory stage, decode and execute
hold bubbles or the instructions of the program in order, fetch goes on after the
last of them as predicted, unless a jump or `ret` in front corrects it, behind which
there are only bubbles (`InDecode`, `InExecute`, `InOrder`); and the operands in
execute are those of the registers after write-back and memory have written
(`HoldsOperands`), which is the correctness of forwarding. `Harmless`: an
instruction with an exception writes no memory. The step that retires an instruction
is then the sequential processor's, signal by signal.

`PriorityProofs` begins with lists: a list of a set has each element once, and
sorted insertion, sorting, popping and removal (recursive functions and folds in the
model) do to that set what they should. Induction over the length is made first
order there: a set of natural numbers that is not empty has a least element
(`NatMin`, `NatInd`), so the library's induction theorems with operator parameters
are not needed. The invariant is that every thread is in one list (`OnePlace`, in
`TypeOK`), a lock has one owner (`OneOwner`: the first and the last steps of
acquiring and releasing, where `holder` is not yet or no longer told, are why it is
said by program counter), what a call under way works on (`Calls`, `Donations`), who
may be in which semaphore's list (`Waits`, `Sleeps`, `Signals`), and `NoLostWakeup`.
The priorities do not matter to any of it, which is the point: no donation, restore
or sort can break exclusion or lose a wakeup.

Then the priorities, in the machines in which they do what they are for. Two
predicates carry the order of lists through sorted insertion, sorting and popping:
`Ahead`, who is of `P` has nobody less urgent in front, and `Top`, the running
thread comes before all of `P`. Three more invariants stand on the first one:

* `InOrder`: `sleep_list` is in the order of the wake-up times, and what a search of
  `list_insert_ordered` has found still holds when it links; so the loop of
  `thread_tick` stops at the right sleeper (`AlarmsOnTime`).
* `Urgent`: without locks `ready_list` is in order and the running thread on top of
  it, but in `thread_set_priority` before it has compared (`HighestRuns`).
* `Donated`, for `DonationPlain`. `OneAtATime`: other threads than the running one
  are between calls or where they sleep, each has one lock, and a lock names nobody
  that does not have it, so no NULL holder is followed. `Given`: a priority is a
  thread's own or that of somebody who wants its lock. `Reaching`: who has a lock
  is as urgent as all that want it. `FirstComes`: if a lock is up, somebody as
  urgent as any who waits is on the way to take it. `InLine`: threads that want a
  lock are in `ready_list` by urgency and the running thread comes before them, but
  for the moment in which it has given its priority back and not yet put up the
  lock that a more urgent thread waits for. The last three need each other: who
  takes a lock out of turn would have it with a more urgent thread waiting, and
  donation happens only on the way in.

The proof shows a little more than the property: `DonationReaches` holds at every
moment there, not only between calls (`Reaching`).

`VirtualMemoryProofs` has three layers. `Base`, for any number of processes: types,
who holds the two locks (`Hands`, `Transfers`), that an entry asked for is there and
unmapped (`Asked`), and that the page a frame names is mapped to it (`Named`).
`Mapped` is the converse, which needs that an exit frees only frames of its own:
that is so if an entry with an index has its page mapped, and fails only for the
index of a fresh block (`IndexesKnown`). Together they are `FramesAgree`. `Steady`,
for a process alone, says where the data of each page are at each step of a fault:
in its frame, in its slot, in its file, or on the way between two of them
(`Evicting`, `Fetches`, `Clean`), and that slots and the bits of `slot_map` are in
one-to-one correspondence (`Swaps`). Each step then leaves every page as it was or
does what `Memory` allows (`Moved`). `Steady` is false of two processes, as finding
3 shows.

`FileSystemProofs` starts with what recursion over the natural numbers needs: that a
function given turn by turn exists (`Loop`, `Links`), and that what every turn keeps
the loop keeps (`LoopIn`, `ReadIn`, `WriteIn`). Chains come next. A chain cannot be
longer than the disk has sectors (`ChainClosed`, by the pigeonhole principle), and
it is the same on two disks that agree on its `next`s (`ChainSame`). A file is in
order (`FileOK`) when its inode, each block of its chain and what their slots name
have the shape they are read with, its end is in its chain, and no sector is in it
twice. An image is a set of such files with disjoint, marked sectors. Then what each
piece of a call does to an image: a slot filled (`Fill`), bytes overwritten
(`Overwrite`), a block linked to the end (`AddsBlock`), an inode written anew
(`Relabel`), an inode and a block that were free (`NewFile`), a whole turn of
`inode_create` (`CreateTurn`), a file given back (`Release`). `Kept` and `Extends`
say what a call leaves of the files; both are closed under composition, which takes
them through the loops.

`OwnedOnce` is not inductive alone: that a free sector is in no file does not say
that what is *read* as an index block was written as one. The invariant adds the
shapes, that an open inode's copy agrees with the disk (`CopyOK`; a failed extension
moves the copy's end, under its lock), and for `NothingLost` that the end of each
file is the last block of its chain (`Exact`), or growing it would cut off what
follows.

## 5. What is proved, what is checked

Proved by TLAPS, for every value of the constants that satisfies the named
assumptions; a theorem stands for the property in its last column, which a run also
checks on a small instance:

| module | from | theorem | property |
|---|---|---|---|
| `ThreadsProofs` | `KernelAssumption`, `MaxValueAssumption`: a finite set of threads with main and idle | `TypeCorrect` | `TypeOK` |
| | | `ListsAlwaysAgree` | `ListsAgree` |
| | | `NoWakeupIsLost` | `NoLostWakeup` |
| | | `Project2NeverPreempts`: Project 2 is not round-robin | none, a fact |
| | | `ImplementsSemaphores` | `SemaphoresKept` |
| `ProcessProofs` | `KernelAssumption`, `ProcessAssumption`: every child has its semaphores | `TypeCorrect` | `TypeOK` |
| | | `ExecTellsTheTruth` | `ExecHonestIn2And4` |
| | | `WaitTellsTheTruth` | `WaitHonestIn4` |
| | | `DeadAreNotWaitedFor` | `NeverWaitsForDeadIn2` |
| | | `ProcessesRunOnThreads` | `RunsOnThreads` |
| `InodeSyncProofs` | `KernelAssumption`, `InodeSyncAssumption`: the lock and the waiters have their semaphores; any numbers of calls and free sectors | `TypeCorrect` | `TypeOK` |
| | | `ExtendingExcludes` (readers and other extensions, not the data of other writes) | `ExtendsAlone` |
| | | `CountsAlwaysExact` | `CountsExact` |
| | | `WaitersAlwaysOwed` | `WaitersAreOwed` |
| | | `CallsDoNotDeadlock` | `SomebodyMoves` |
| `PriorityProofs` | `PriorityAssumption`: a finite set of threads, locks, priorities that are numbers | `TypeCorrect` | `TypeOK` |
| | | `LocksAlwaysExclude` | `LocksExclude` |
| | | `NoWakeupIsLost` | `NoLostWakeup` |
| | | `DonationWorks` (one lock at a time, own priorities kept, interrupts between calls) | `DonationPlain` |
| | | `MostUrgentRuns` (no locks) | `HighestRuns` |
| | | `AlarmsAreOnTime` (interrupts spare `thread_sleep`, sleeps of one tick or more) | `AlarmsOnTime` |
| `VirtualMemoryProofs` | `VirtualMemoryAssumption`: at least one frame; a program's pages and the first stack page are among those used | `TypeCorrect` | `TypeOK` |
| | | `FramesAlwaysAgree` (one process, or no fresh block) | `FramesAgree` |
| | | `SlotsAlwaysOwned` (one process) | `SlotsOwned` |
| | | `MemoryIsKept` (one process) | `MemoryKeptAlone` |
| `FileSystemProofs` | `FileSystemAssumption`: sectors and index blocks of at least one byte and slot | `TypeCorrect` | `TypeOK` |
| | | `SectorsOwnedOnce` | `OwnedOnce` |
| | | `NothingIsLost` (no file created with a whole number of index blocks) | `NothingLost` |
| `PipeProofs` | `Y86Assumption`, `PipeAssumption`: any registers, word size and programs | `PipelineIsSequential` | `Sequential` |
| | | `NamedProgramsAreSequential`: `SEQ!Spec`, if every instruction names the registers it reads | |
| | | `StallsOrBubbles` | `AtMostOne` |

Only model-checked:

* `FileSystem`: `FilesKept`. `Directory`: `TypeOK`, `CountsExact`, `TreeKept`.
* `VirtualMemory`: `SlotsOwned` and `PagesKept` for several processes, where they
  hold with the bounds of the run and not without (section 3); `KernelMoves`, which
  is about `ENABLED`.
* `InodeSync` on `Threads`: only the operators of `Kernel` are shared, and no run
  checks the refinement.
* Liveness (`ReadyRuns`, `AskersAreGranted`, `ExecReturns`, `KeepsRetiring`): it
  involves fairness and `ENABLED`, which are out of the prover's reach.

Not modelled: see the notes of `PROJECT.json`'s components. Loading, argument
passing and ELF are sequential code over user memory. palloc, malloc, devices and
the C library are unmodified base code, four times over; they are most of the
repository's lines, and the models use only what they promise. Holes filled by two
calls at once (`inode.c:72`) need the sectors of one call as steps of their own,
which `FileSystem` has no room for.

## 6. Plan

Theorems, most important first:

1. `FilesKept` of `FileSystem`, for files that are not created with a whole number
   of index blocks: that block `n` of a chain is where byte `n * 126 * 512` is.
2. `CountsExact` of `Directory` up to the first leak, as cardinalities of what the
   processes hold; `TreeKept` from it.
3. The absence of foreign data (the safe part of `PagesKept`) for several processes
   whose frames are enough.
4. `InodeSync` implements `Threads`.

Models: `SparseAlloc`, holes filled by concurrent calls, composed with `InodeSync`'s
monitor; the pages of a thread (`palloc`) in `Kernel`; `mkdir` against `create`.
