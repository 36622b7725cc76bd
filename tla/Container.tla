----------------------------- MODULE Container -----------------------------
(***************************************************************************)
(* Processes as the file system sees them, and containers: fork, exit and  *)
(* wait with their inodes, cm_setroot, cm_create_and_enter and test_newroot*)
(* (proc.c, sysproc.c), over the system calls of FileSys.                  *)
(*                                                                         *)
(* fork takes its references from a parent that holds them, so that it is  *)
(* one step; so is what runs under ptable.lock.  init is Nobody: it reaps  *)
(* the orphans.                                                            *)
(***************************************************************************)
EXTENDS FileSys

CONSTANTS
  Starts,        \* file systems and processes to start from
  MaxCalls       \* bound: how many system calls are made

ASSUME ContainerAssumption == MaxCalls \in Nat

VARIABLES
  left,          \* bound: the system calls that may still be made
  namespace_id,  \* the next namespace to try
  lost           \* history: pointers to an inode that were dropped without iput

vars == <<fsVars, left, namespace_id, lost>>

NoProc == [state |-> "UNUSED", parent |-> Nobody, cwd |-> 0, ofile |-> [fd \in Fd |-> 0],
           in_newroot |-> FALSE, newroot |-> 0, in_container |-> FALSE, namespace |-> 0]

\* A start s has the inodes on disk, s.cwd for each process and s.open, the
\* inodes of the open files; a process has descriptors of all of them.
Init ==
  \E s \in Starts :
    LET file0 == [f \in 1 .. NFILE |-> IF f \in DOMAIN s.open
                    THEN [ref |-> Cardinality(Procs), ip |-> s.open[f]] ELSE NoFile]
    IN  /\ dinode = s.dinode
        /\ file = file0
        /\ proc = [p \in Procs |-> [NoProc EXCEPT !.state = "RUNNING", !.cwd = s.cwd[p],
                     !.ofile = [fd \in Fd |-> IF fd \in DOMAIN s.open THEN fd ELSE 0]]]
        /\ icache = [i \in Inum |->
             LET r == Cardinality({p \in Procs : s.cwd[p] = i}) + Cardinality({f \in DOMAIN s.open : s.open[f] = i})
             IN  [Uncached EXCEPT !.ref = r]]
        /\ lock = [i \in Inum |-> Nobody]
        /\ th = [p \in Procs |-> User]
        /\ panic = "none" /\ gone = FALSE
        /\ left = MaxCalls
        /\ namespace_id = 1
        /\ lost = [i \in Inum |-> 0]
-----------------------------------------------------------------------------
(* fork, exit, wait *)

\* The child has its own references to the files and directories of the parent.
ForkCounts(p) ==
  LET me == proc[p]
      c  == Idup(icache, me.cwd)
  IN  /\ icache' = IF me.in_newroot THEN Idup(c, me.newroot) ELSE c
      /\ file' = [f \in 1 .. NFILE |->
           [file[f] EXCEPT !.ref = @ + Cardinality({fd \in Fd : me.ofile[fd] = f})]]

Fork(p) ==
  \E q \in Procs :
    /\ Enter(p) /\ proc[q].state = "UNUSED"
    /\ ForkCounts(p)
    /\ proc' = [proc EXCEPT ![q] = [proc[p] EXCEPT !.parent = p]]
    /\ UNCHANGED <<dinode, lock, th, panic, gone, namespace_id, lost>>

\* copyuvm fails: the reference to the root of the container stays counted.
ForkFails(p) ==
  LET i == proc[p].newroot
  IN  /\ Enter(p) /\ proc[p].in_newroot /\ lost[i] = 0
      /\ \E q \in Procs : proc[q].state = "UNUSED"
      /\ icache' = Idup(icache, i)
      /\ lost' = [lost EXCEPT ![i] = @ + 1]
      /\ UNCHANGED <<dinode, lock, proc, th, panic, file, gone, namespace_id>>

\* exit: close the files one by one, put cwd; the rest is under ptable.lock.
Exit(p) ==
  /\ Enter(p)
  /\ Step(p, [User EXCEPT !.pc = "exit"])
  /\ UNCHANGED <<dinode, icache, lock, proc, panic, file, gone, namespace_id, lost>>

ExitClose(p) ==
  LET open == {fd \in Fd : proc[p].ofile[fd] # 0}
  IN  /\ At(p, "exit")
      /\ IF open # {}
         THEN /\ proc' = [proc EXCEPT ![p].ofile[Min(open)] = 0]
              /\ FileClose(p, proc[p].ofile[Min(open)], "exit")
         ELSE /\ proc' = [proc EXCEPT ![p].cwd = 0]
              /\ Step(p, PutThen([th[p] EXCEPT !.op = TRUE], proc[p].cwd, "zombie"))
              /\ UNCHANGED file
      /\ UNCHANGED <<dinode, icache, lock, panic, gone, namespace_id, lost>>

\* Nobody puts newroot_inode.
Zombie(p) ==
  /\ At(p, "zombie")
  /\ proc' = [q \in Procs |->
       IF q = p THEN [proc[p] EXCEPT !.state = "ZOMBIE", !.newroot = 0]
       ELSE IF proc[q].parent = p THEN [proc[q] EXCEPT !.parent = Nobody]
       ELSE proc[q]]
  /\ lost' = [i \in Inum |-> IF i = proc[p].newroot THEN lost[i] + 1 ELSE lost[i]]
  /\ Step(p, User)
  /\ UNCHANGED <<dinode, icache, lock, panic, file, gone, namespace_id>>

\* The parent, or init, reaps a zombie.
Wait(p) ==
  \E q \in Procs :
    /\ proc[q].state = "ZOMBIE" /\ panic = "none"
    /\ \/ proc[q].parent = Nobody /\ p = q
       \/ proc[q].parent = p /\ Enter(p)
    /\ proc' = [proc EXCEPT ![q] = NoProc]
    /\ UNCHANGED <<dinode, icache, lock, th, panic, file, gone, namespace_id, lost>>
-----------------------------------------------------------------------------
(* Containers *)

\* cm_setroot needs an absolute path, and only once.
SysSetroot(p) ==
  \E path \in Paths :
    /\ Enter(p) /\ ~proc[p].in_newroot /\ path.abs
    /\ Begin(p, path, "setroot", "T_FILE")
    /\ UNCHANGED <<namespace_id, lost>>

\* is_inode_directory, after the transaction ended; if it is none, the
\* reference is not put.
Setroot(p) ==
  LET i == th[p].cur
      c == Ilock(icache, i)
  IN  /\ At(p, "setroot") /\ Unlocked(i)
      /\ IF NoType(c, i) THEN Panic("ilock") /\ UNCHANGED lost
         ELSE /\ icache' = c
              /\ IF NotDir(c, i)
                 THEN lost' = [lost EXCEPT ![i] = @ + 1] /\ UNCHANGED proc
                 ELSE /\ proc' = [proc EXCEPT ![p].newroot = i, ![p].in_newroot = TRUE]
                      /\ UNCHANGED lost
              /\ Step(p, User)
              /\ UNCHANGED <<dinode, lock, panic>>
      /\ UNCHANGED <<file, gone, namespace_id>>

\* test_newroot puts the inode it looked up outside a transaction.
SysTestNewroot(p) ==
  \E path \in Paths :
    /\ Enter(p)
    /\ Begin(p, path, "test_newroot", "T_FILE")
    /\ UNCHANGED <<namespace_id, lost>>

TestNewroot(p) ==
  /\ At(p, "test_newroot")
  /\ Step(p, PutThen([th[p] EXCEPT !.cur = 0, !.op = FALSE], th[p].cur, "user"))
  /\ UNCHANGED <<dinode, icache, lock, proc, panic, file, gone, namespace_id, lost>>

\* The namespaces that do_ce skips.
Taken == {proc[q].namespace : q \in {r \in Procs : proc[r].state # "UNUSED"}}

DoCeWrong(p) ==
  /\ Enter(p) /\ ~proc[p].in_container
  /\ proc' = [proc EXCEPT ![p].in_container = TRUE, ![p].namespace = namespace_id]
  /\ namespace_id' = IF namespace_id \in Taken THEN namespace_id + 1 ELSE namespace_id
  /\ UNCHANGED <<dinode, icache, lock, th, panic, file, gone, lost>>

\* cm_create_and_enter: the first namespace that no process is in.
DoCe(p) ==
  /\ Enter(p) /\ ~proc[p].in_container
  /\ LET n == Min({m \in namespace_id .. namespace_id + Cardinality(Procs) : m \notin Taken})
     IN  /\ proc' = [proc EXCEPT ![p].in_container = TRUE, ![p].namespace = n]
         /\ namespace_id' = n + 1
  /\ UNCHANGED <<dinode, icache, lock, th, panic, file, gone, lost>>

Calls(p) ==
  \/ FileSysCalls(p) /\ UNCHANGED <<namespace_id, lost>>
  \/ Fork(p) \/ ForkFails(p) \/ Exit(p)
  \/ SysSetroot(p) \/ SysTestNewroot(p) \/ DoCe(p)

Steps(p) ==
  \/ FileSysSteps(p) /\ UNCHANGED <<namespace_id, lost>>
  \/ ExitClose(p) \/ Zombie(p) \/ Wait(p) \/ Setroot(p) \/ TestNewroot(p)

Next ==
  \/ \E p \in Procs : left > 0 /\ left' = left - 1 /\ Calls(p)
  \/ \E p \in Procs : UNCHANGED left /\ Steps(p)

Spec == Init /\ [][Next]_vars
-----------------------------------------------------------------------------
TypeOK ==
  /\ dinode \in [Inum -> [type : Types \cup {"none"}, nlink : Nat, ent : [Names -> Inum \cup {0}],
                          up : Inum \cup {0}]]
  /\ icache \in [Inum -> [ref : Nat, valid : BOOLEAN, type : Types \cup {"none"}, nlink : Nat]]
  /\ lock \in [Inum -> Procs \cup {Nobody}]
  /\ \A p \in Procs : {proc[p].cwd, proc[p].newroot, th[p].cur, th[p].ip, th[p].dp, th[p].rel}
                        \subseteq Inum \cup {0}
  /\ file \in [1 .. NFILE -> [ref : Nat, ip : Inum \cup {0}]]

\* The pointers to inode i: current directories and roots of processes, open
\* files, locals of system calls.
Pointers(i) ==
  LET mine(p) == <<proc[p].cwd, proc[p].newroot, th[p].cur, th[p].ip, th[p].dp, th[p].rel>>
  IN  Cardinality({f \in 1 .. NFILE : file[f].ref > 0 /\ file[f].ip = i})
      + Cardinality({h \in Procs \X (1 .. 6) : mine(h[1])[h[2]] = i})

\* ip->ref "tracks the number of in-memory pointers to the entry": it is never
\* less, and it exceeds them by the references that setroot on a file, a fork
\* that fails and an exit inside a container forget.
RefIsPointers == \A i \in Inum : icache[i].ref = Pointers(i) + lost[i]

\* "The information in an inode cache entry is only correct when ip->valid is
\* 1", and then it is what is on disk.
ValidIsDisk ==
  \A i \in Inum : icache[i].valid =>
    icache[i].type = dinode[i].type /\ icache[i].nlink = dinode[i].nlink

\* The names of inode i, and the directories below it that count as links.
NamesOf(i)   == {e \in Inum \X Names : dinode[e[1]].ent[e[2]] = i}
SubdirsOf(i) == {j \in Inum : dinode[j].type = "T_DIR" /\ dinode[j].up = i /\ NamesOf(j) # {}} \ {ROOTINO}

\* At no moment, be it between two steps of a system call, are there fewer
\* links counted than names: what has a name is never freed.
LinksCoverNames ==
  \A i \in Inum : dinode[i].nlink >= Cardinality(NamesOf(i)) + Cardinality(SubdirsOf(i))

\* What the cache and the disk say of an inode agrees, and covers its names.
LinksCounted == TypeOK /\ ValidIsDisk /\ LinksCoverNames

\* What a process or an open file holds is allocated on disk, whatever others
\* unlink meanwhile.
HeldIsAllocated ==
  /\ \A p \in Procs : {proc[p].cwd, proc[p].newroot} \ {0} \subseteq {i \in Inum : dinode[i].type = "T_DIR"}
  /\ \A f \in 1 .. NFILE : file[f].ref > 0 => dinode[file[f].ip].type # "none"

\* Unless a directory was removed while it was in use, the only panics are for
\* want of inodes, and for want of a transaction when test_newroot drops the
\* last pointer to a file that was removed.
NoPanic == ~gone => panic \in {"none", "ialloc", "log_write"}

\* Nothing that is in use is freed, and nobody trips over an inode that was.
NothingDangles == HeldIsAllocated /\ NoPanic

\* The process that p waits for in acquiresleep, or Nobody.
WaitsFor(p) ==
  LET t == th[p]
  IN  CASE t.pc = "iput" -> lock[t.rel]
        [] t.pc = "walk" /\ t.path # << >> -> lock[t.cur]
        [] t.pc \in {"open", "create", "link", "link2", "unlink", "chdir", "setroot"} -> lock[t.cur]
        [] t.pc \in {"createOld", "createNew", "linkBad", "unlink2"} -> lock[t.ip]
        [] OTHER -> Nobody

\* Processes do not wait for each other's inode locks in a circle, nor a
\* process for its own.
NoLockCycle ==
  \A p \in Procs : WaitsFor(p) # Nobody => WaitsFor(p) # p /\ WaitsFor(WaitsFor(p)) # p

\* Going up from directory i by ".." leads to r.
Below(i, r) ==
  LET up[n \in 0 .. Cardinality(Inum)] ==
        IF n = 0 THEN i ELSE IF up[n - 1] = 0 THEN 0 ELSE dinode[up[n - 1]].up
  IN  \E n \in DOMAIN up : up[n] = r

InsideRoot(p) == proc[p].in_newroot /\ Below(proc[p].cwd, proc[p].newroot)

\* A process of a container that is below the root of its container stays
\* below it, whatever paths it uses and whatever others do to the directories,
\* unless a directory in use was removed.
StaysInside ==
  [][\A p \in Procs : InsideRoot(p) /\ ~gone' => InsideRoot(p)' \/ proc'[p].cwd = 0]_vars

\* Whoever creates a container is alone in its namespace.
NamespaceFresh ==
  [][\A p \in Procs : proc[p].state = "RUNNING" /\ ~proc[p].in_container /\ proc'[p].in_container =>
       \A q \in Procs \ {p} : proc'[q].namespace # proc'[p].namespace]_vars

F == INSTANCE Files WITH
  Root  <- ROOTINO,
  alive <- {i \in Inum : dinode[i].type # "none"},
  ent   <- [d \in Inum |-> dinode[d].ent],
  held  <- ({proc[p].cwd : p \in Procs} \cup {proc[p].newroot : p \in Procs}
            \cup {file[f].ip : f \in 1 .. NFILE}) \ {0}

\* The system calls of concurrent processes implement Files: no name ever
\* leads to an inode that is not allocated, and an inode is freed only when it
\* has no name and nobody holds it.
FilesLive == F!Spec
=============================================================================
