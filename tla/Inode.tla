------------------------------- MODULE Inode -------------------------------
(***************************************************************************)
(* Inodes on disk, the inode cache with its reference counts and sleep     *)
(* locks, and the walk along a path (fs.c, sleeplock.c).                   *)
(*                                                                         *)
(* An entry of the cache is named by the inode it holds: iget never makes  *)
(* a second entry for an inode, and NINODE exceeds the inodes of a model.  *)
(* The content of a directory is a function from names, with ".." apart.   *)
(* A process runs in one step from an acquiresleep to the releasesleep     *)
(* that pairs with it if it touches a reference count at most once in      *)
(* between; where it waits for a second lock, the first one is held in     *)
(* lock.  iput drops the lock before it counts, which is two steps where   *)
(* it has looked at the count.                                             *)
(*                                                                         *)
(* An operator named ...Wrong is the operator that follows it with a       *)
(* mistake in it, to see that a property notices.                          *)
(***************************************************************************)
EXTENDS Integers, Sequences, FiniteSetsExt

CONSTANTS
  Procs,         \* slots of the process table
  Nobody,        \* no process
  Inum,          \* numbers of inodes on disk; 0 is none
  Names          \* names that a directory can hold, besides "." and ".."

ROOTINO == 1

ASSUME InodeAssumption ==
  /\ ROOTINO \in Inum /\ Inum \subseteq Nat \ {0}
  /\ IsFiniteSet(Procs) /\ Nobody \notin Procs
  /\ Names \cap {".", ".."} = {}

Types == {"T_DIR", "T_FILE", "T_DEV"}

VARIABLES
  dinode,        \* inodes on disk, with the content of directories
  icache,        \* entries of the inode cache
  lock,          \* who holds the sleep lock of an inode
  proc,          \* struct proc: directories, container, descriptors
  th,            \* where a process is, and the locals of its system call
  panic          \* what the kernel died of, or "none"

NoEntries == [n \in Names |-> 0]
Free      == [type |-> "none", nlink |-> 0, ent |-> NoEntries, up |-> 0]
Uncached  == [ref |-> 0, valid |-> FALSE, type |-> "none", nlink |-> 0]

\* The locals of a process that is in no system call: cur, ip and dp are
\* pointers to inodes, rel one that iput is about to drop, k where to go then.
User == [pc |-> "user", goal |-> "user", cur |-> 0, ip |-> 0, dp |-> 0, rel |-> 0, k |-> "user",
         path |-> << >>, name |-> ".", type |-> "T_FILE", op |-> FALSE]

At(p, label) == th[p].pc = label /\ panic = "none"
-----------------------------------------------------------------------------
(* The inode cache, as functions of the cache c *)

\* iget: a recycled entry is not valid.
Iget(c, i) ==
  [c EXCEPT ![i] = IF c[i].ref > 0 THEN [c[i] EXCEPT !.ref = @ + 1] ELSE [Uncached EXCEPT !.ref = 1]]

IdupWrong(c, i) == c

Idup(c, i) == [c EXCEPT ![i].ref = @ + 1]

\* ilock, once the lock is free: read the inode from disk unless it is valid.
Ilock(c, i) ==
  IF c[i].valid THEN c
  ELSE [c EXCEPT ![i].valid = TRUE, ![i].type = dinode[i].type, ![i].nlink = dinode[i].nlink]

\* ilock panics on a free inode, dirlookup on what is no directory.
NoType(c, i) == c[i].type = "none"
NotDir(c, i) == c[i].type # "T_DIR"

NlinkWrong(c, i, n) == IF n > 0 THEN c ELSE [c EXCEPT ![i].nlink = @ + n]

\* A change of nlink, in memory and by iupdate on disk.
Nlink(c, i, n) == [c EXCEPT ![i].nlink = @ + n]

Iupdate(d, c, i) == [d EXCEPT ![i].type = c[i].type, ![i].nlink = c[i].nlink]

\* dirlookup: the inode number that directory i has under a name, or 0.
Dirlookup(i, n) ==
  CASE n = "."  -> i
    [] n = ".." -> dinode[i].up
    [] OTHER    -> dinode[i].ent[n]

Unlocked(i) == lock[i] = Nobody

Panic(cause) == panic' = cause /\ UNCHANGED <<dinode, icache, lock, proc, th>>
-----------------------------------------------------------------------------
(* iput *)

\* Drop the pointer to i, then go on at k.
PutThen(t, i, k) == [t EXCEPT !.pc = "iput", !.rel = i, !.k = k]

\* These labels are outside a transaction.
NoOp == {"setroot", "test_newroot", "exit", "zombie"}

\* Control goes to label k.
Go(t, k) == IF k = "user" THEN User ELSE [t EXCEPT !.pc = k, !.op = @ /\ k \notin NoOp]

\* The count goes down; an entry that nobody refers to is free.
Iput2(p) ==
  LET i == th[p].rel
  IN  /\ icache' = [icache EXCEPT ![i] = IF @.ref = 1 THEN Uncached ELSE [@ EXCEPT !.ref = icache[i].ref - 1]]
      /\ th' = [th EXCEPT ![p] = Go([@ EXCEPT !.rel = 0], th[p].k)]
      /\ UNCHANGED <<dinode, lock, proc, panic>>

\* The last reference to an inode without links.
MustFreeWrong(c) == c.valid /\ c.nlink = 0

MustFree(c) == c.valid /\ c.nlink = 0 /\ c.ref = 1

\* iput of an inode with links, or not valid.
IputLinked(p) ==
  /\ At(p, "iput") /\ Unlocked(th[p].rel)
  /\ ~(icache[th[p].rel].valid /\ icache[th[p].rel].nlink = 0)
  /\ Iput2(p)

\* iput of an inode without links: it is freed if this is the last reference.
\* The lock is released before the count goes down, in the next step.
\* log_write panics if there is no transaction at all.
IputUnlinked(p) ==
  LET i == th[p].rel
  IN  /\ At(p, "iput") /\ Unlocked(i)
      /\ icache[i].valid /\ icache[i].nlink = 0
      /\ IF MustFree(icache[i])
         THEN /\ dinode' = [dinode EXCEPT ![i] = Free]
              /\ icache' = [icache EXCEPT ![i].valid = FALSE, ![i].type = "none"]
              /\ panic' = IF \E q \in Procs : th[q].op THEN panic ELSE "log_write"
         ELSE UNCHANGED <<dinode, icache, panic>>
      /\ th' = [th EXCEPT ![p].pc = "iput2"]
      /\ UNCHANGED <<lock, proc>>

Iput(p) ==
  \/ IputLinked(p)
  \/ IputUnlinked(p)
  \/ At(p, "iput2") /\ Iput2(p)
-----------------------------------------------------------------------------
(* Paths *)

\* A path is a sequence of elements; it is absolute or it is not.
NamexStart(p, abs) ==
  IF abs /\ ~proc[p].in_newroot THEN ROOTINO ELSE proc[p].cwd

\* nameiparent stops one element early.
Parent(t) == t.goal \in {"create", "unlink", "link2"}

\* namex returns 0.
NotFound(t) == IF t.goal = "link2" THEN "linkBad" ELSE "user"

\* The loop of namex with i as the inode reached: no element may be left.
Loop(t, i) ==
  IF t.path # << >> THEN [t EXCEPT !.pc = "walk", !.cur = i]
  ELSE IF Parent(t) THEN PutThen(t, i, NotFound(t))
  ELSE Go([t EXCEPT !.cur = i], t.goal)

\* Start to walk; goal is where the system call goes on with the inode it finds.
Namex(p, t, path, goal) ==
  LET i == NamexStart(p, path.abs)
  IN  /\ icache' = Iget(icache, i)
      /\ th' = [th EXCEPT ![p] = Loop([t EXCEPT !.path = path.elem, !.goal = goal, !.op = TRUE], i)]

\* At the root of its container ".." leads a process nowhere.
AtNewroot(p, i, n) == proc[p].in_newroot /\ i = proc[p].newroot /\ n = ".."

ElementWrong(p, i, n) == Dirlookup(i, n)

\* Where an element of the path leads from directory i.
Element(p, i, n) == IF AtNewroot(p, i, n) THEN i ELSE Dirlookup(i, n)

\* namex looks up nothing in what is no directory.
Refused(c, i) == NotDir(c, i)

\* One turn of the loop of namex, up to the iput of the inode left behind.
Walk(p) ==
  LET t == th[p]
      i == t.cur
      n == Head(t.path)
      c == Ilock(icache, i)
      j == Element(p, i, n)
  IN  /\ At(p, "walk") /\ t.path # << >> /\ Unlocked(i)
      /\ IF NoType(c, i) THEN Panic("ilock") ELSE
         /\ \/ /\ Refused(c, i) \/ (~(Parent(t) /\ Len(t.path) = 1) /\ j = 0)
               /\ icache' = c
               /\ th' = [th EXCEPT ![p] = PutThen([t EXCEPT !.cur = 0], i, NotFound(t))]
            \/ /\ ~Refused(c, i) /\ Parent(t) /\ Len(t.path) = 1
               /\ icache' = c
               /\ th' = [th EXCEPT ![p] = [t EXCEPT !.pc = t.goal, !.name = n, !.path = << >>]]
            \/ /\ ~Refused(c, i) /\ ~(Parent(t) /\ Len(t.path) = 1) /\ j # 0
               /\ icache' = Iget(c, j)
               /\ th' = [th EXCEPT ![p] = PutThen([t EXCEPT !.cur = j, !.path = Tail(@)], i,
                                               IF Len(t.path) = 1 THEN t.goal ELSE "walk")]
         /\ UNCHANGED <<dinode, lock, proc, panic>>

InodeNext(p) == Iput(p) \/ Walk(p)
=============================================================================
