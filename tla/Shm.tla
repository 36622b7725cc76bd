-------------------------------- MODULE Shm --------------------------------
(***************************************************************************)
(* The shared pages of vm.c (shm_get, shm_rem) with what meets them: the   *)
(* copy of an address space by fork, the removal of its mappings by exit,  *)
(* its release by wait and exec, sbrk, and the mutex that shm_get makes.   *)
(*                                                                         *)
(* Nothing protects shared_memory.  A call is split where it reads the     *)
(* table and later acts on what it read; with Preempt a timer interrupt or *)
(* a second CPU lets other processes run in between, without a call runs   *)
(* to its end.  Addresses count halves of a page, so that a size need not  *)
(* be a multiple of one.  Pages that are not shared are all alike ("own"). *)
(* fork copies the address space in one step.  sbrk down to size 0, which  *)
(* leaves the process no memory to run in, is left out, and other memory   *)
(* than shared pages runs out only in an instance with the call "nomem".   *)
(*                                                                         *)
(* An operator named ...Wrong is the operator that follows it with a       *)
(* mistake in it, to see that a property notices.                          *)
(***************************************************************************)
EXTENDS Integers, FiniteSetsExt

CONSTANTS
  Procs, First,    \* the slots of the process table; the one that runs at first
  Names, NoName,   \* names of shared pages; the empty name
  Frames, Null,    \* physical pages that kalloc hands to shm_get; no page
  SHM_MAXNUM,      \* entries of shared_memory and of the table of a process
  MUX_MAXNUM,      \* mutexes
  KERNBASE,        \* the end of the user's addresses
  ImageSize,       \* the size of a program that exec has just loaded
  SbrkArgs,        \* what processes pass to sbrk
  Preempt,         \* a call may be interrupted between its steps
  Careful,         \* processes map a name once and unmap the last page only
  Calls            \* the calls and failures that happen in an instance

PGSIZE == 2

ASSUME ShmAssumption ==
  /\ First \in Procs
  /\ NoName \notin Names /\ Null \notin Frames
  /\ SHM_MAXNUM \in Nat \ {0} /\ MUX_MAXNUM \in Nat \ {0}
  /\ KERNBASE \in Nat /\ ImageSize \in 1 .. KERNBASE - 1
  /\ SbrkArgs \subseteq Int
  /\ Preempt \in BOOLEAN /\ Careful \in BOOLEAN

VARIABLES
  shm_mems, shm_num,     \* shared_memory
  mutexes,               \* the muxids in use
  free,                  \* the free list, what kalloc may return
  state, sz, pgdir, shm, \* of struct proc
  pc, name, index, mem, slot,  \* where a process is, and its locals
  panic                  \* "no", or why the kernel has stopped

tableVars == <<shm_mems, shm_num, mutexes>>
procVars  == <<state, sz, pgdir, shm>>
ctlVars   == <<pc, name, index, mem, slot>>
shmVars   == <<tableVars, free, procVars, ctlVars, panic>>

Block == 0 .. SHM_MAXNUM - 1
Mux   == 0 .. MUX_MAXNUM - 1

\* PGROUNDUP(a) / PGSIZE and the page that holds address a.
PageUp(a) == (a + PGSIZE - 1) \div PGSIZE
PageOf(a) == a \div PGSIZE

Pages == 0 .. PageUp(KERNBASE)
\* The pages of a program that exec has just loaded.
Image == [g \in Pages |-> IF g < PageUp(ImageSize) THEN "own" ELSE Null]

ShmTypeOK ==
  /\ shm_mems \in [Block -> [name : Names \cup {NoName}, pa : Frames \cup {Null},
                             ref : Nat, shm_mutex_index : Mux]]
  /\ shm_num \in Nat
  /\ mutexes \subseteq Mux
  /\ free \subseteq Frames
  /\ state \in [Procs -> {"UNUSED", "RUNNING", "EXITING", "ZOMBIE"}]
  /\ sz \in [Procs -> 0 .. KERNBASE]
  /\ pgdir \in [Procs -> [Pages -> Frames \cup {"own", Null}]]
  /\ shm \in [Procs -> [Block -> [name : Names \cup {NoName}, va : 0 .. KERNBASE]]]
  /\ pc \in [Procs -> {"user", "take", "alloc", "claim", "map", "drop", "free", "exit"}]
  /\ name \in [Procs -> Names \cup {NoName}]
  /\ index \in [Procs -> Block]
  /\ mem \in [Procs -> Frames \cup {Null}]
  /\ slot \in [Procs -> 0 .. SHM_MAXNUM]
  /\ panic \in {"no", "remap", "kfree", "memory"}

ShmInit ==
  /\ shm_mems = [i \in Block |-> [name |-> NoName, pa |-> Null, ref |-> 0, shm_mutex_index |-> 0]]
  /\ shm_num = 0
  /\ mutexes = {}
  /\ free = Frames
  /\ state = [p \in Procs |-> IF p = First THEN "RUNNING" ELSE "UNUSED"]
  /\ sz = [p \in Procs |-> IF p = First THEN ImageSize ELSE 0]
  /\ pgdir = [p \in Procs |-> IF p = First THEN Image ELSE [g \in Pages |-> Null]]
  /\ shm = [p \in Procs |-> [i \in Block |-> [name |-> NoName, va |-> 0]]]
  /\ pc = [p \in Procs |-> "user"]
  /\ name = [p \in Procs |-> NoName]
  /\ index = [p \in Procs |-> 0]
  /\ mem = [p \in Procs |-> Null]
  /\ slot = [p \in Procs |-> 0]
  /\ panic = "no"
-----------------------------------------------------------------------------
(* Control *)

InUser(q) == pc[q] = "user"

Quiet == \A q \in Procs : InUser(q)

At(p, label) == pc[p] = label

Enter(p, call) == call \in Calls /\ state[p] = "RUNNING" /\ At(p, "user")

Goto(p, label) == pc' = [pc EXCEPT ![p] = label] /\ UNCHANGED <<name, index, mem, slot>>

\* Back to the loop of exit, or to the user.
GoBack(p) ==
  /\ pc' = [pc EXCEPT ![p] = IF state[p] = "EXITING" THEN "exit" ELSE "user"]
  /\ name' = [name EXCEPT ![p] = NoName]
  /\ index' = [index EXCEPT ![p] = 0]
  /\ mem' = [mem EXCEPT ![p] = Null]
  /\ UNCHANGED slot

Panic(why) == panic' = why /\ UNCHANGED <<tableVars, free, procVars, ctlVars>>

\* The pages that kfree gets when the pages G of a page table are released.
FramesOf(pt, G) == {pt[g] : g \in G} \cap Frames

Kfree(F) == free' = free \cup F

\* The blocks of that name that are in use; the loops take the first.
Named(n) == {i \in Block : shm_mems[i].ref > 0 /\ shm_mems[i].name = n}
-----------------------------------------------------------------------------
(* shm_get *)

\* The entries of a process that stand for a mapping.
Mapped(p) == {i \in Block : shm[p][i].va # 0}

MayMap(p, n) == Careful => \A i \in Mapped(p) : shm[p][i].name # n

Fits(p) == sz[p] + PGSIZE < KERNBASE

ShmGet(p, n) ==
  /\ Enter(p, "shm_get") /\ MayMap(p, n) /\ Fits(p)
  /\ name' = [name EXCEPT ![p] = n]
  /\ IF Named(n) # {}
       THEN pc' = [pc EXCEPT ![p] = "take"] /\ index' = [index EXCEPT ![p] = Min(Named(n))]
       ELSE pc' = [pc EXCEPT ![p] = "alloc"] /\ UNCHANGED index
  /\ UNCHANGED <<tableVars, free, procVars, mem, slot, panic>>

Page(i) == shm_mems[i].pa

\* A block without a page counts as not found, once counted.
GetTake(p) ==
  /\ At(p, "take")
  /\ mem' = [mem EXCEPT ![p] = Page(index[p])]
  /\ shm_mems' = [shm_mems EXCEPT ![index[p]].ref = @ + 1]
  /\ pc' = [pc EXCEPT ![p] = IF Page(index[p]) = Null THEN "alloc" ELSE "map"]
  /\ UNCHANGED <<shm_num, mutexes, free, procVars, name, index, slot, panic>>

TableFull == shm_num + 1 >= SHM_MAXNUM

GetFull(p) ==
  /\ At(p, "alloc") /\ TableFull
  /\ GoBack(p)
  /\ UNCHANGED <<tableVars, free, procVars, panic>>

\* mutex_init forgets every mutex.
GetAlloc(p) ==
  /\ At(p, "alloc") /\ ~TableFull
  /\ \E f \in free : mem' = [mem EXCEPT ![p] = f] /\ free' = free \ {f}
  /\ mutexes' = {}
  /\ pc' = [pc EXCEPT ![p] = "claim"]
  /\ UNCHANGED <<shm_mems, shm_num, procVars, name, index, slot, panic>>

\* kalloc fails. The test comes after V2P, which does not yield 0 for 0: the
\* page is cleared through address 0, and the kernel goes on with garbage.
GetNoMemory(p) ==
  /\ At(p, "alloc") /\ ~TableFull /\ free = {}
  /\ Panic("memory")

UnusedBlocks == {i \in Block : shm_mems[i].ref = 0}

GetClaim(p) ==
  /\ At(p, "claim")
  /\ LET ids == Mux \ mutexes
         i   == Min(UnusedBlocks)
     IN  IF UnusedBlocks = {} THEN UNCHANGED <<shm_mems, mutexes>>
         ELSE /\ shm_mems' = [shm_mems EXCEPT ![i] =
                   [name |-> name[p], pa |-> mem[p], ref |-> 1,
                    shm_mutex_index |-> IF ids = {} THEN @.shm_mutex_index ELSE Min(ids)]]
              /\ mutexes' = IF ids = {} THEN mutexes ELSE mutexes \cup {Min(ids)}
  /\ shm_num' = shm_num + 1
  /\ Goto(p, "map")
  /\ UNCHANGED <<free, procVars, panic>>

\* mappages at PGROUNDUP(sz), then the entry in the table of the process, which
\* records sz. A page that is present already makes mappages panic.
GetMap(p) ==
  /\ At(p, "map") /\ pgdir[p][PageUp(sz[p])] = Null
  /\ pgdir' = [pgdir EXCEPT ![p][PageUp(sz[p])] = mem[p]]
  /\ LET unset == Block \ Mapped(p)
     IN  shm' = IF unset = {} THEN shm
                ELSE [shm EXCEPT ![p][Min(unset)] = [name |-> name[p], va |-> sz[p]]]
  /\ sz' = [sz EXCEPT ![p] = @ + PGSIZE]
  /\ GoBack(p)
  /\ UNCHANGED <<tableVars, free, state, panic>>

GetRemap(p) ==
  /\ At(p, "map") /\ pgdir[p][PageUp(sz[p])] # Null
  /\ Panic("remap")

\* No memory for a page of the page table: the shared page is freed whoever maps it.
GetMapFail(p) ==
  /\ At(p, "map") /\ "nomem" \in Calls
  /\ Kfree({mem[p]})
  /\ GoBack(p)
  /\ UNCHANGED <<tableVars, procVars, panic>>
-----------------------------------------------------------------------------
(* shm_rem *)

\* Unmap and forget; the name stays in the entry (memset of no bytes). Bound:
\* sz does not fall below 0.
Unmap(p, n) ==
  LET named == {i \in Block : shm[p][i].name = n}
      i     == Min(named)
  IN  /\ named # {} /\ sz[p] >= PGSIZE
      /\ pgdir' = [pgdir EXCEPT ![p][PageOf(shm[p][i].va)] = Null]
      /\ shm' = [shm EXCEPT ![p][i].va = 0]
      /\ sz' = [sz EXCEPT ![p] = @ - PGSIZE]
      /\ pc' = [pc EXCEPT ![p] = "drop"]
      /\ name' = [name EXCEPT ![p] = n]
      /\ UNCHANGED <<index, mem, state>>

MayRemove(p, n) ==
  Careful => \E i \in Mapped(p) : shm[p][i].name = n /\ shm[p][i].va + PGSIZE = sz[p]

ShmRem(p, n) ==
  /\ Enter(p, "shm_rem") /\ MayRemove(p, n)
  /\ Unmap(p, n)
  /\ UNCHANGED <<tableVars, free, slot, panic>>

RemDrop(p) ==
  /\ At(p, "drop")
  /\ IF Named(name[p]) = {} THEN GoBack(p) /\ UNCHANGED shm_mems
     ELSE /\ shm_mems' = [shm_mems EXCEPT ![Min(Named(name[p]))].ref = @ - 1]
          /\ index' = [index EXCEPT ![p] = Min(Named(name[p]))]
          /\ pc' = [pc EXCEPT ![p] = "free"]
          /\ UNCHANGED <<name, mem, slot>>
  /\ UNCHANGED <<shm_num, mutexes, free, procVars, panic>>

LastRefWrong(b) == b.ref <= 1

LastRef(b) == b.ref = 0

\* What mutex_delete may answer: it refuses a mutex that is not in use, one that
\* is locked and one with waiters, of which programs have their own idea.
Deletes(m) == IF m \in mutexes THEN BOOLEAN ELSE {FALSE}

\* The last reference: kfree, mutex_delete, and if that succeeds shm_num--.
RemFree(p) ==
  /\ At(p, "free")
  /\ LET b == shm_mems[index[p]]
     IN  IF ~LastRef(b) THEN UNCHANGED <<tableVars, free>>
         ELSE /\ b.pa # Null
              /\ Kfree({b.pa})
              /\ shm_mems' = [shm_mems EXCEPT ![index[p]].pa = Null, ![index[p]].name = NoName]
              /\ \E deleted \in Deletes(b.shm_mutex_index) :
                   /\ mutexes' = IF deleted THEN mutexes \ {b.shm_mutex_index} ELSE mutexes
                   /\ shm_num' = IF deleted THEN shm_num - 1 ELSE shm_num
  /\ GoBack(p)
  /\ UNCHANGED <<procVars, panic>>

\* kfree of physical address 0 panics.
RemFreeNull(p) ==
  /\ At(p, "free") /\ shm_mems[index[p]].ref = 0 /\ shm_mems[index[p]].pa = Null
  /\ Panic("kfree")
-----------------------------------------------------------------------------
(* fork, exit, wait, exec, sbrk *)

Shared(f) == {i \in Block : f # Null /\ shm_mems[i].pa = f}

\* copyuvm of the pages G: a shared page is mapped again and counted, any
\* other present one is copied.
Copied(pt, G) ==
  [g \in Pages |-> IF g \notin G \/ pt[g] = Null THEN Null
                   ELSE IF Shared(pt[g]) # {} THEN pt[g] ELSE "own"]

CountedWrong(pt, G) == shm_mems

Counted(pt, G) ==
  [i \in Block |-> [shm_mems[i] EXCEPT !.ref =
     @ + Cardinality({g \in G : i \in Shared(pt[g]) /\ i = Min(Shared(pt[g]))})]]

Below(a) == {g \in Pages : g < PageUp(a)}

Fork(p, q) ==
  /\ Enter(p, "fork") /\ state[q] = "UNUSED"
  /\ pgdir' = [pgdir EXCEPT ![q] = Copied(pgdir[p], Below(sz[p]))]
  /\ shm_mems' = Counted(pgdir[p], Below(sz[p]))
  /\ sz' = [sz EXCEPT ![q] = sz[p]]
  /\ shm' = [shm EXCEPT ![q] = shm[p]]
  /\ state' = [state EXCEPT ![q] = "RUNNING"]
  /\ UNCHANGED <<shm_num, mutexes, free, ctlVars, panic>>

\* kalloc fails in copyuvm after k pages: freevm frees what was mapped so far.
ForkFail(p) ==
  /\ Enter(p, "fork") /\ "nomem" \in Calls
  /\ \E k \in 0 .. PageUp(sz[p]) - 1 :
       /\ shm_mems' = Counted(pgdir[p], 0 .. k - 1)
       /\ Kfree(FramesOf(Copied(pgdir[p], 0 .. k - 1), Pages))
  /\ UNCHANGED <<shm_num, mutexes, procVars, ctlVars, panic>>

Exit(p) ==
  /\ Enter(p, "exit") /\ p # First
  /\ state' = [state EXCEPT ![p] = "EXITING"]
  /\ pc' = [pc EXCEPT ![p] = "exit"]
  /\ UNCHANGED <<tableVars, free, sz, pgdir, shm, name, index, mem, slot, panic>>

\* The entries still to be visited by the loop of exit that are mapped.
ToRemove(p) == {i \in Mapped(p) : i >= slot[p]}

ExitRem(p) ==
  /\ At(p, "exit") /\ ToRemove(p) # {}
  /\ Unmap(p, shm[p][Min(ToRemove(p))].name)
  /\ slot' = [slot EXCEPT ![p] = Min(ToRemove(p)) + 1]
  /\ UNCHANGED <<tableVars, free, panic>>

ExitZombie(p) ==
  /\ At(p, "exit") /\ ToRemove(p) = {}
  /\ state' = [state EXCEPT ![p] = "ZOMBIE"]
  /\ pc' = [pc EXCEPT ![p] = "user"]
  /\ slot' = [slot EXCEPT ![p] = 0]
  /\ UNCHANGED <<tableVars, free, sz, pgdir, shm, name, index, mem, panic>>

\* wait, in whoever is the parent: freevm of the child.
WaitChild(p, q) ==
  /\ Enter(p, "wait") /\ state[q] = "ZOMBIE"
  /\ Kfree(FramesOf(pgdir[q], Pages))
  /\ pgdir' = [pgdir EXCEPT ![q] = [g \in Pages |-> Null]]
  /\ state' = [state EXCEPT ![q] = "UNUSED"]
  /\ UNCHANGED <<tableVars, sz, shm, ctlVars, panic>>

\* exec frees the old image and keeps the table of mappings.
Exec(p) ==
  /\ Enter(p, "exec") /\ (Careful => Mapped(p) = {})
  /\ Kfree(FramesOf(pgdir[p], Pages))
  /\ pgdir' = [pgdir EXCEPT ![p] = Image]
  /\ sz' = [sz EXCEPT ![p] = ImageSize]
  /\ UNCHANGED <<tableVars, state, shm, ctlVars, panic>>

\* growproc: allocuvm panics in mappages if a page is present, deallocuvm
\* frees shared pages like any other.
Sbrk(p, n) ==
  /\ Enter(p, "sbrk") /\ sz[p] + n \in 1 .. KERNBASE - 1
  /\ Careful => n % PGSIZE = 0 /\ \A i \in Mapped(p) : shm[p][i].va + PGSIZE <= sz[p] + n
  /\ LET grown  == Below(sz[p] + n) \ Below(sz[p])
         shrunk == Below(sz[p]) \ Below(sz[p] + n)
     IN  IF \E g \in grown : pgdir[p][g] # Null THEN Panic("remap")
         ELSE /\ Kfree(FramesOf(pgdir[p], shrunk))
              /\ pgdir' = [pgdir EXCEPT ![p] = [g \in Pages |->
                   IF g \in grown THEN "own" ELSE IF g \in shrunk THEN Null ELSE @[g]]]
              /\ sz' = [sz EXCEPT ![p] = @ + n]
              /\ UNCHANGED <<tableVars, state, shm, ctlVars, panic>>
-----------------------------------------------------------------------------
Step(p) ==
  \/ \E n \in Names : ShmGet(p, n) \/ ShmRem(p, n)
  \/ GetTake(p) \/ GetFull(p) \/ GetAlloc(p) \/ GetNoMemory(p) \/ GetClaim(p)
  \/ GetMap(p) \/ GetRemap(p) \/ GetMapFail(p)
  \/ RemDrop(p) \/ RemFree(p) \/ RemFreeNull(p)
  \/ \E q \in Procs : Fork(p, q) \/ WaitChild(p, q)
  \/ ForkFail(p) \/ Exit(p) \/ ExitRem(p) \/ ExitZombie(p) \/ Exec(p)
  \/ \E n \in SbrkArgs : Sbrk(p, n)

\* A call is not interrupted, unless with Preempt.
MayRun(p) == Preempt \/ \A q \in Procs \ {p} : InUser(q)

ShmNext == panic = "no" /\ \E p \in Procs : MayRun(p) /\ Step(p)

ShmSpec == ShmInit /\ [][ShmNext]_shmVars
-----------------------------------------------------------------------------
(* Properties *)

\* The pages of a process at which the shared page f is mapped.
MappedAt(f) == {<<q, g>> \in Procs \X Pages : pgdir[q][g] = f}

\* Between calls, the reference count of a block is the number of mappings of
\* its page in all address spaces (shm_get, shm_rem, copyuvm, exit and wait
\* together keep it).
RefIsMappings ==
  Quiet => \A i \in Block : shm_mems[i].ref > 0 =>
             shm_mems[i].ref = Cardinality(MappedAt(shm_mems[i].pa))

\* A page that some address space maps is not on the free list.
MappedNotFree == \A q \in Procs : FramesOf(pgdir[q], Pages) \cap free = {}

\* Two processes that have mapped the same name see the same page, as the
\* comment of shm_get promises. It holds only if calls are not interrupted.
SameNameSamePage ==
  \A p, q \in Procs, i, j \in Block :
    /\ {state[p], state[q]} = {"RUNNING"}
    /\ shm[p][i].va # 0 /\ shm[q][j].va # 0 /\ shm[p][i].name = shm[q][j].name
    => pgdir[p][PageOf(shm[p][i].va)] = pgdir[q][PageOf(shm[q][j].va)]

\* Between calls no page is lost: it is free or a block in use has it.
NoPageLost ==
  Quiet => \A f \in Frames : f \in free \/ \E i \in Block : shm_mems[i].ref > 0 /\ shm_mems[i].pa = f

\* mappages never finds a page where shm_get or sbrk wants to put one.
NoRemap == panic # "remap"

\* A page is free or in use, never both and never neither, never mapped over
\* another one, and counted once per mapping: the calls, one after the other,
\* take and give back as much as they should.
PagesAccounted == ShmTypeOK /\ MappedNotFree /\ NoPageLost /\ NoRemap /\ RefIsMappings
=============================================================================
