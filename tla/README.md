# xv6 with containers: a TLA+ development

The repository is xv6 for the x86 with four additions: mutexes and condition
variables in the kernel, shared memory pages, two scheduling policies, and
containers (namespaces, a process limit, a root directory of their own).  The
modules here model the parts whose correctness depends on the order in which
processes, interrupts and crashes come, and the sequential parts in which the
boundary cases are many.

## The system

| Part | State | Operations | What makes it hard |
|---|---|---|---|
| mutexes, condition variables (`proc.c`) | `mutex_table`, `proc_mutexes`, wait sequences | create, delete, lock, unlock, `cv_wait`, `cv_signal`, `mutex_init`, clean-up after a fault | three kinds of spinlock, fields read under the wrong one, kills and faults in the middle |
| process table, scheduler (`proc.c`) | `ptable`, priority rings | fork, exit, wait, kill, sleep, wakeup, yield, `prio_set`, scheduler loop | stale and duplicate ring entries, lost wakeups, slots that are used again |
| log (`log.c`) | disk, log, header, buffers | `begin_op`, `log_write`, `end_op`, commit, recovery | a crash between any two block writes |
| buffer cache, disk drivers (`bio.c`, `ide.c`, `memide.c`) | buffers, their order, request queue | bread, bwrite, brelse, sleep locks, interrupt | recycling against lookup, sleepers against wakeups |
| inodes, directories (`fs.c`, `sysfile.c`) | inode cache, link counts, directories | open, create, link, unlink, chdir, path lookup | reference counts with unlink, locks taken one at a time |
| containers (`proc.c`, `fs.c`) | `newroot_inode`, `namespace` | create and enter, setroot, fork, exit | references to inodes, paths that must stay below a root |
| file contents (`fs.c`, `file.c`, `mkfs.c`) | bitmap, blocks, addresses, offsets | mkfs, read, write, truncate | direct and indirect blocks, blocks used again, shared offsets |
| pipes, descriptors (`pipe.c`, `file.c`, `sysfile.c`) | `ftable`, `ofile`, pipes | pipe, dup, close, read, write, fork, exit, kill | both ends at once, sleeping and closing, wrapping counters |
| shared memory (`vm.c`) | `shared_memory`, page tables, `shm` of a process | `shm_get`, `shm_rem`, fork, exit, wait, exec, sbrk | a count in the table, mappings in page tables and names in processes, no lock |
| console, keyboard (`console.c`, `kbd.c`) | input ring, cursor, modifiers | interrupt, read, write | readers against interrupts, wrapping indices |
| user level (`umalloc.c`, `jsmn.h`, `cm.h`, `sh.c`) | free list, tokens, command trees, descriptors | malloc, free, parsing, running a command line | exact fits, full tables, text that ends early, ends of pipes left open |

The mutexes, the pipes, the log and the drivers call sleep and wakeup of the
process table; `shm_get` calls `mutex_init` and `mutex_create`; the file system
writes through the log, the log through the buffer cache, the cache through the
driver; exit and fork touch every part.  PROJECT.json lists every part of the
repository, modelled or not.

## Modules

The kernel:

* `Mutex`: the mutexes, with the spinlocks that they use.  The state of a
  process is as much of `struct proc` as matters, and `pc` says where in the
  kernel it is.  `Smp` chooses several CPUs or, the default of the Makefile,
  one.  What wakeup and `cv_signal` do to the priority rings is left to
  `Process`.  A process that left a call with a spinlock held makes no further
  call before sched panics.  `Wseq` is `wseq_remove`.
* `Process`: the process table, the rings and the scheduler loop of each CPU.
  A section under `ptable.lock` is a step; fork is two sections.
* `Log`: the log over the buffer cache, a step per block written.  It
  implements `Transactions`, in which a commit is one step and a crash loses
  what is not committed.  The mapping takes for the durable state what a
  recovery would make of the disk.
* `Buffers`: the cache with its reference counts, sleep locks and order of
  recycling, over the request queue of `ide.c` or the disk in memory of
  `memide.c`.  A user is the stretch from a bread to its brelse: a process that
  holds two buffers, as the log, `bmap` and `itrunc` do (log.c:74 and 181,
  fs.c:382 and 415), is two users.  It implements `Store`: one value per block, in one hand at a time.
  `Log` takes that for granted, and that bwrite returns after the write
  (`BwriteDurable`).
* `Inode`: the inode cache and path lookup; `FileSys`: the system calls on
  names; `Container`: processes, fork, exit and the calls of the containers.
  A call goes from one inode lock to the next in one step (the end of iput, which
  gives up the inode and then counts down, included).  A directory is a
  function from names, with its ".." apart.  Together they implement `Files`:
  what has a name or a holder lives.  Transactions are one at a time per call
  and always fit (`Log`); a panic stops the machine.
* `Blocks`: the contents of files on the blocks of a disk that mkfs made, of a
  few cells each.  It implements `Bytes`, files as sequences.
* `Shm`: shared pages.  A call is split where it reads the table and later acts
  on it.  With `Preempt` other processes run in between; with `Careful`
  programs keep to a discipline (below).
* `Pipe`: files, descriptors and pipes.  Each page, as a pipe, implements
  `Channel`, a bounded queue of bytes, with the ring as the queue.  `unheard` is
  a history variable: the pages that a killed writer left full without a wakeup.
  The test of killed and the sleep after it are one step, as on one CPU, where
  the lock of the pipe keeps interrupts off; no property is about a kill that a
  second CPU makes in between.
* `Console`: the input ring, the readers and the cursor.  It implements
  `Terminal`, a line editor in front of a queue.  `Keyboard`: the modifier bits.

User level:

* `Heap`: malloc and free; addresses are counted in units of a header.
* `Json`: jsmn, a character (or a whole string or primitive) per step, and
  `parse_specs`.  A value is written out as text and the tokens are compared
  with the places of its parts in the text.
* `ShellParser`: the parser of the shell as an operator on lines of characters,
  next to a grammar that splits the line at its operators from outside in.
  `Shell`: the processes that a command line becomes, with descriptors and
  pipes; a background command is forked and left in one step.  Commands are external: one reads its input to the end, then exits.

`MC...` are the instances.  The theorems are in `MutexProofs`, `ProcessProofs`,
`LogProofs`, `BuffersProofs` and `ContainerProofs`, and those about the pipes in
`PipeSteps` (the invariant and what the steps do to its parts), `PipeProofs` (that
it is inductive) and `PipeChannel` (the refinement).

An operator named `...Wrong` is the one that follows it with a plausible
mistake in it, to see that a property notices.  No specification uses it.  A
panic stops the machine where the model has one; `Process` and `Pipe` leave
out the calls that end in one (such as the exit of init).

## Runs

| Run | Shows | Instance |
|---|---|---|
| `mutex_lock` | one owner at a time, no lost wakeup, no mutex left by a fault, every sleeper woken unless the owner died with the mutex | 3 processes on 3 CPUs, 1 of 2 mutexes used |
| `mutex_all` | wait sequences fit, and keep whoever blocks, behind stale entries too, until it is woken or `mutex_init` resets them | 3 processes, 1 CPU, 1 of 2 mutexes used and the number beyond the table; a sequence of 2 that fills up and is shifted; processes end only when killed |
| `mutex_cv_exclusion` | a violation: `cv_wait` takes a locked mutex | 2 processes |
| `process_life` | nothing runs twice, no parent sleeps past a zombie, every process has a live parent | 4 slots, 2 CPUs, rings of 2 |
| `process_live` | orphans are reaped, a kill gets a parent out of wait, the RUNNABLE run | 3 slots, 1 CPU |
| `log_atomic` | `Log` implements `Transactions`; an empty log after a commit; sleepers are woken | 3 calls, 2 blocks, a log of 2 |
| `log_file_write` | a violation: calls that write more than they reserved | 2 calls, 5 blocks |
| `kernel_all` | the cache implements `Store`, a bwrite that returned is on the disk, counts are users and bget panics only if all buffers are taken, no sleeper is forgotten; the console implements `Terminal`; no modifier stays set; a shared page is counted once per mapping, is not freed early or lost, and is not mapped over another | 2 users, 2 buffers, 3 blocks of which the log keeps 1, both drivers; 2 readers, a ring of 2 with indices modulo 4 and a screen of 2 by 2; 2 processes, 2 names, 2 shared pages, calls not interrupted |
| `container_all` | references are pointers, the cache agrees with the disk, names are counted, nothing in use is freed, containers stay below their root, namespaces are fresh, `Files` | 2 processes, 4 inodes, 2 names, 3 calls from each of three directory trees |
| `parts_all` | `Blocks` implements `Bytes` with an exact bitmap; the heap is partitioned and its free list joined; tokens, specifications and command trees are those of the text; a command line leaves no descriptor and no child behind | in the cfg: blocks of 2 cells, a heap of a few units, all texts of up to 4 and lines of up to 5 characters |
| `shm_race` | a violation: two first calls of `shm_get` with one name make two pages | 2 processes, the timer inside of calls |
| `pipe_all` | counts are descriptors, ends stay open as long as needed, sleepers have a reason, readers see the end, and a pipe is a channel | 2 processes, 2 descriptors each, a pipe of 2 bytes, a message of 3, counters modulo 4 |

`kernel_all` and `parts_all` each check several parts that share nothing: a
behaviour is one of one part, and the other parts stay where they are.

The bounds are the least at which the cases meet: tables that fill up (rings,
wait sequences, log, pipe, `shared_memory`, tokens, argv, the disk), slots, pids,
inodes, blocks and buffers used again, counters
that wrap (`UINT` is a multiple of `PIPESIZE`, as 2^32 is of 512, and `UIntMod` of
`INPUT_BUF`), and a third
process where two meet on behalf of another.  `MaxPid`, `OpBlocks`, `MaxCalls`,
`MaxIo`, `MaxReads` and the lower
end of `sz` in `Shm` bound what the code does not.  Three calls of two processes
are what the conflicts between lookup, create, link and unlink need; they are
interleaved at each lock.

In `kernel_all` the log keeps one block less than there are buffers, as with
`param.h` (`NBUF` is 30 and `log.size - 1` is 29), so that bget does panic.
`mutex_all` has no exits and faults of its own accord: such a process is in no
wait sequence (`MutexCvStaysQueued`), and `mutex_lock` has them.

For the shared pages `kernel_all` assumes programs that call `shm_get` once for a name, remove only the
last page of their address space, move the break by whole pages and not below a
shared page, and exec with nothing mapped.  Each is needed: with any one of them
dropped from `Shm`, TLC finds `PagesAccounted` violated.
Calls run to their end there, which the code does not ensure: the timer yields in the
kernel too, and nothing locks `shared_memory`.  `shm_race` lifts it and shows what
happens.

`StaysInside` and `NothingDangles` (as to panics) leave out behaviours in which a directory was removed
while it was in use (`gone`): its ".." may then lead anywhere, see Disagreements.

Deadlock is not checked in the runs of `Mutex`, where every process may have
ended or the kernel stopped, nor in `pipe_all`, where a lone process may read
from a pipe of which it is the only writer, nor in `container_all`, `parts_all`
and `kernel_all`, which end when the calls, the text or the lines do.
Everywhere else it is.

## Fairness

* `Process`: CPUs take steps and the clock interrupts.  init, which runs again and
  again, completes its fork and gets on with its loop around wait (strong fairness,
  since it may be preempted each time), and what it sleeps for apart from wait
  happens, as it does disk I/O only.  Of other processes nothing is assumed: a
  pipe or the console may never wake its reader, and a process that was killed may sleep on
  (`mutex_lock` tests no killed).  `KilledLeavesWait` rests on the CPUs and the
  clock alone: wait tests killed under the lock that kill takes.
* `Mutex`: a process in the kernel goes on, because the scheduler runs it (that
  is `RunnableRuns` of `Process`).  A program that holds a mutex unlocks it in
  the end, which is an assumption about programs.  The clock interrupt makes a
  process that was killed exit.
* `Log`: the disk answers, and a call that began ends.  Nothing is fair to a
  process that tries to begin.
* `Pipe`: a process in the kernel goes on.  Nothing is assumed of programs.

## Proofs

For any number of processes and mutexes.  `WseqRemoveType` assumes nothing of the
constants, the others `MutexAssumption`:

* `WseqRemoveType`: `wseq_remove` never lengthens a wait sequence nor puts a
  stranger into it.
* `TypeCorrect`: `[]TypeOK` of `Mutex`.  It is inductive with `SlotOK`, which
  says that the loop of the clean-up is inside its array when it calls
  `wseq_remove`.
* `MutexExclusive`, `MutexNoLostWakeup`: for programs with `SafeCalls`, those
  that neither wait on conditions nor reset the table and, on several CPUs, do
  not delete.  The inductive invariant `SafeInv` adds to `NoLostWakeup` that an
  owner is recorded in its mutex, which is locked (`OwnerRecorded`), that what is
  being deleted is free (`DeletesFree`), that whoever is about to sleep holds
  the spinlock of a mutex that is locked (`SleepsLocked`), and that nobody is in
  `cv_wait` (`NotInCv`).  Without `OwnerRecorded` an unlock could free the mutex
  of another; without `SleepsLocked` a sleep could follow the wakeup.
* `MutexCvStaysQueued`: `CvStaysQueued`, for all programs.  The inductive invariant
  `CvInv` says that nobody is in a wait sequence twice, and that whoever is in one
  sleeps there or was killed and will not be in user mode again.  It is what makes
  the clean-up harmless: a process that faults is in no sequence, and then
  `wseq_remove` changes nothing (`WseqRemoveNothing`).
* `MutexFaultUnlocksAll`: `[]FaultUnlocksAll` for programs with `RecordCalls`, those
  of `SafeCalls` that do not delete, were started by exec and do not call it again
  (a program that deletes or calls exec can break it).  The inductive invariant `RecordInv` says
  that a mutex with an owner is locked and in use (`OwnedInUse`), that
  `proc_mutexes` names the mutexes a process owns, each once (`RecordsOwned`), that
  it names all of them, and none in a slot the clean-up has passed (`OwnedRecorded`),
  and where the clean-up is (`SlotEmptied`).  `mutex_lock` always finds a free slot
  by counting (`PigeonHole`, `FreeSlot`).

* `ProcessInductive`, `ProcessRunsOnce`, `ProcessAwaited`: `[]RunsOnce` and
  `[]ChildrenAwaited` from `ProcessAssumption`, for any number of slots, CPUs, priorities
  and places in a ring, provided that `prio_set` is never given `PRIO_MAX`, for which
  there is no ring (`RingForEach`).  The inductive invariant `IInv` adds that every
  priority that is stored has a ring (`RingInv`), that a fork has a slot to itself
  (`ForkInv`), and that init is alive and nobody is its own parent (`InitInv`).
  Without `ForkInv` the end of a fork could make a slot RUNNABLE that runs already;
  without `InitInv` exit could give children to a parent that is gone.  The loops of
  `wakeup1` and of exit are recursive functions; `LoopKeeps` is the induction that
  shows what their rounds keep.

* `LogInductive`, `LogQuiet`, `LogWaker`, `LogAtomic`: for finitely many
  processes and any number of blocks, buffers and places in the log, provided
  that no call writes more blocks than `begin_op` reserves (`Reserved`).  The
  inductive invariant `IInv` says which stage of a commit goes with which content
  of the log and its header (`HeadInv`, `LoggedInv`), that what is logged and not
  yet installed is in the cache and dirty (`CacheInv`), that a call is counted in
  `outstanding` exactly while it runs (`CallsInv`), and that the space reserved
  covers what the calls may still write (`SpaceInv`).  Without `CacheInv` a
  recycled buffer would lose an update; without `HeadInv` a crash during the
  installation could redo half a transaction.  `LogAtomic` is the refinement:
  under the invariant the write of a header with a count is the commit
  (`WriteHeadCommits`), each install and the erasure of the header leave what a
  recovery would make of the disk unchanged (`InstallStutters`,
  `EraseStutters`), and so does recovery itself.
* `LogNeverFull`: `log_write` never panics if each call writes at most so many
  blocks that `Roomy` holds.  With xv6's numbers, a log of 30 blocks with its
  header, that is two blocks less than `MAXOPBLOCKS`; `log_file_write` shows
  what happens to calls that write more.

* `BuffersInductive`, `BwriteReachesDisk`, `BuffersRunOutWhenTaken`,
  `BuffersAwaited`, `CacheRefinesStore`: from `BuffersAssumption`, for finitely many
  users, any blocks, any number of buffers, too few of them included, and either
  driver.  The inductive invariant
  `IInv` says that a call in progress has the buffer of its block
  and a block one buffer at most (`CallInv`, `ListInv`), that a sleep lock has one
  holder and no sleeper when it is free (`LockInv`), that a buffer which is
  valid and not dirty is a copy of its block (`FlagInv`), what the holder of a
  buffer knows of its flags at each point of bread and bwrite (`PhaseInv`), that
  the queue has exactly the buffers of those that wait for the disk, which works on
  the first (`QueueInv`), that `refcnt` counts the users of a buffer
  (`CountInv`), that at most `MaxPinned` buffers are kept dirty (`KeptInv`), and
  that after a panic there are no more buffers than blocks kept and users at work
  (`PanicInv`).  Without `CountInv` bget could recycle a buffer in use; without
  `KeptInv` it could panic with a buffer to spare (`AllInUse` counts the buffers
  that are in use or kept when bget finds none).
  `CacheRefinesStore` is the refinement: the value of a block is that of its
  valid buffer or else that of the disk (`Shows`), and each step of
  the cache keeps all of these (`Keeps`) but for the use of a buffer by its
  holder, which changes one (`Changes`).

* `PipeDescriptors`, `PipeSleepers`: `[]DescriptorsKeepEnds` and `[]SleepersWait`
  from `PipeAssumption`, for finitely many processes (`NPROC` of them in the code),
  any numbers of descriptors, files and pages, any size of the pipe of which the
  modulus of the counters is a multiple, and any messages.
  The inductive invariant `IInv` (`PipeSteps`) adds to these two properties that a
  page holds at most `PIPESIZE` bytes (`Bounded`), that one thing at most stands for
  an end of a pipe, be it a file or a process on its way to pipeclose (`Ends`), that
  a file in use is an end of a pipe (`InUse`), and what a process in the kernel has
  (`Control`): the end it reads or writes is one of its descriptors, a write has
  bytes left, and who is a zombie or unused has no descriptor.  Without `Ends` the close of one file
  could shut an end that another still stands for; without `Control` the pipe
  could be freed under a process that sleeps on it.  `RefIsDescriptors` is a count
  of pairs, and dup, fork, close and exit each add or take away some of them.
* `PipeRefinesChannel`: `PipeIsChannel`, from the same invariant.  Each page is
  treated apart: a step is a step of the channel of its page, or leaves the channel
  as it is (`ChannelCalm`, `WritesElsewhere`).  That the ring is the queue is arithmetic
  modulo `UINT` and `PIPESIZE`: a byte that is written goes to the end of the contents
  and one that is read comes from the front, also when a counter wraps.

* `ContainerNamespaceFresh`: `NamespaceFresh` from the assumptions of `Inode` and
  `Container`, for finitely many processes, any inodes and any directory trees: whoever
  creates a container is alone in its namespace.  The invariant `NamespaceInv` says that
  an unused slot has namespace 0 and that `namespace_id` is positive.  The search of
  `do_ce` ends since of more numbers than there are processes one is not in use
  (`NamespaceLeft`); every other step leaves namespaces alone, or copies that of a parent
  (fork) or clears it (wait), and puts nobody into a container it was not in.

Only model-checked:

* liveness, which is out of the prover's reach;
* `Blocks`, `Json`, `Heap` and the parser of the shell with what is built on it, whose
  definitions are RECURSIVE operators, about which nothing can be proved here;
* the other properties of `Container` (references, link counts, `StaysInside`,
  `Files`), `Shm`, `Console` and `Keyboard`.

## Disagreements

Those with a run: `mutex_cv_exclusion`, `log_file_write` and `shm_race`
(PROJECT.json, findings).  In the last, vm.c:522 searches the table for the name
and 551 claims a block with nothing in between that keeps others out, while
vm.c:495 says "it will map in the same page".  Four more configurations show a trace each when they are run by hand:

* `ProcessKill.cfg` (`MCProcess`): a fork that runs out of memory leaves its slot
  with its pid; kill (proc.c:578) marks it, allocproc does not clear the mark, and
  the next process in the slot dies though nobody named it.
* `BuffersOut.cfg` (`Buffers`): the log keeps all buffers but one, and of two
  users at once the second makes bget panic (bio.c:92).
* `ShmRemap.cfg` (`MCShm`): `shm_rem` lowers sz whichever page it removed
  (vm.c:648), and the next `shm_get` or sbrk panics; vm.c:490 says "should still
  work".
* `ContainerLocks.cfg` (`MCContainer`): create holds the lock of the new inode
  when it puts the parent (sysfile.c:257), unlink holds the parent and waits for
  the inode: a deadlock.

The models follow the code in the following as well, and where that makes a
property fail the property is not stated or the instance leaves the case out.

Mutexes
* `wseq_remove` (proc.c:1025) shifts the wrong entries; `mutex.h` says that the
  pid is removed.  Its one caller cleans up after a fault in user mode, where a
  process is in no sequence any more (proved: `MutexCvStaysQueued`).
* A child that has not called exec has no -1 in
  `proc_mutexes` (`Forked` in `Mutex`; a slot used before may still hold some), so that
  `mutex_lock` (862) records nothing and a fault (trap.c:92) does not unlock.
* `cv_signal` (981) may be spent on a waiter that was killed.
* `mutex_delete` (819) and `cv_wait` (935) return with a spinlock held; the next
  sched panics (454).
* With several CPUs, `cv_wait` (944) waits for the lock of a mutex under
  `ptable.lock`, and sleep takes the two in the other order: a deadlock.
* `mutex_delete` frees a mutex that others still refer to (`mutex.h`, "if we are
  the last process referencing").  `shm_get` of a new name resets all mutexes
  (vm.c:550).
* Range checks admit `MUX_MAXNUM` itself (805, 832, 874, 910, 964).
* exit and kill release no mutex.

Scheduling
* The scan of the table (419) runs processes whatever their priority, while
  REPORT.md:114 expects "the order of their priority".
* `fp_dequeue` (1118) takes entries that are not RUNNABLE (REPORT.md:121), and no
  tick demotes a process (468; REPORT.md:122).
* `prio_set` admits `PRIO_MAX` (1042), and changes the policy before it fails.

Log
* mkfs makes a log of `LOGSIZE` blocks (mkfs.c:25) that include the header, and
  `log_write` (log.c:216) so has room for one block less than `begin_op` counts
  on; it also tests before it looks whether the block is listed already.

Shared memory
* A second `shm_rem` of a name succeeds and unmaps the page at address 0, since
  the name is not cleared (vm.c:644, the arguments of memset); vm.c:608 says -1.
* `shm_num` stays too high after `mutex_delete` fails (663), and one entry of the
  table is never used (537).
* The entry records sz and not the address that is mapped (584).
* exec, sbrk downwards, a failed fork and a failed mappages free shared pages
  that others map.
* The test for a failed kalloc comes after `V2P` (543) and never succeeds.

Pipes
* A writer that is killed when the pipe is full returns (pipe.c:81) without the
  wakeup of readers; one that slept before the pipe filled stays asleep until
  another write or close.  `SleepersWait` allows for it through `unheard`: the reader
  may sleep from the time such a writer returns until the next wakeup.

Names and containers
* Two processes that drop an unlinked inode at once both see two references in
  iput (fs.c:334), and neither frees it; fs.c:322 says that the last one does.
* A name created in a directory that is being removed is lost with it, and the
  link counts of its parents stay too high.  The ".." of a removed working
  directory may name an inode that has been freed ("ilock: no type") or used again.
* link with the name "." or ".." makes `dirlink` (fs.c:542) wait for a lock it holds.
* `test_newroot` calls iput outside a transaction (sysproc.c:142; fs.c:324 says
  "All calls to iput() must be inside a transaction").
* The reference to a container's root is lost by exit, by a fork that fails
  (proc.c:222) and by setroot on a file (681): `lost` in `Container`.
* `cm_maxproc` stores a limit that nothing reads (proc.h:83 calls it the maximum
  number of processes), and proc.c:649 follows parents without `ptable.lock`.

Files and buffers
* mkfs (mkfs.c:158) adds a block to the size of the root directory also if it is
  a multiple of a block; reading that block allocates it, and outside a
  transaction, as for a read of "/", this panics.
* filewrite returns -1 when a chunk fails though earlier ones are written.
  balloc panics when the disk is full.
* `NBUF` and `LOGSIZE` are both 30: the log may keep 29 buffers, and one is left for
  the commit, whose `write_log` holds two at once (log.c:181), for the next block
  of a call and for readers outside of transactions.
* A read error (ide.c:115) leaves the old data and marks the buffer valid.

Console and user level
* A reader that is killed loses the characters it has taken (console.c:238), and
  two readers may share a line that is longer than the ring.
* `parse_specs` goes by the order of the keys, not by their names: `containerstart`
  takes the first value for init whatever its key is.  With fewer than three keys
  the rest of `specs` is not initialised, a key without a value reads a token that
  was never parsed, and `cm_maxproc((int) specs[2])` (cm.h:111) passes a pointer.
* ulib.c:114 says that `safe_strcpy` "ensures the destination string is
  null-terminated"; if the source is as long as n it is not.
* In the shell a pipe whose second fork fails leaves the left command without a
  parent that waits; the constructors use malloc's result without a test.

## Not modelled

* Boot code, device registers, interrupt controllers and assembly: they run once
  or drive hardware.
* exec's loader, argument fetching, `cprintf`, the copying and formatting
  functions of the library, fstat: they move data and keep no state.
* `cm_maxproc`, whose result nothing uses, and the order of the calls in
  `containerstart`.
* Small programs and tests.  Tests were read for what they expect.
* Together: the kernel's parts meet at their abstract specifications (`Store`
  under `Log`, `Transactions` under the file system), not in one module; the
  product of their states is out of TLC's reach.
