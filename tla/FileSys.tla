------------------------------ MODULE FileSys ------------------------------
(***************************************************************************)
(* The system calls on names and open files (sysfile.c, file.c), run by    *)
(* several processes at once over the inode cache of Inode.                *)
(*                                                                         *)
(* What a call does between two labels is one step, as in Inode.  The      *)
(* arguments that a call uses late are chosen when it uses them.           *)
(***************************************************************************)
EXTENDS Inode

CONSTANTS
  NOFILE, NFILE, \* descriptors of a process, entries of ftable
  Paths,         \* the paths that processes use
  NewNames       \* the paths that become a second name of a file

VARIABLES
  file,          \* ftable.file: reference count and inode
  gone           \* history: a directory was removed while it was in use

fsVars == <<dinode, icache, lock, proc, th, panic, file, gone>>

Fd     == 1 .. NOFILE
NoFile == [ref |-> 0, ip |-> 0]

\* A system call is made.
Enter(p) == At(p, "user") /\ proc[p].state = "RUNNING"

Step(p, t) == th' = [th EXCEPT ![p] = t]

\* A directory stays locked while the process locks an inode in it.
LockParent(p, d) == lock' = [lock EXCEPT ![d] = p]

\* Start a call that looks up a path.
Begin(p, path, goal, type) ==
  /\ Namex(p, [User EXCEPT !.type = type], path, goal)
  /\ UNCHANGED <<dinode, lock, proc, panic, file, gone>>
-----------------------------------------------------------------------------
(* open, mkdir, mknod *)

SysOpen(p)   == \E path \in Paths : Enter(p) /\ Begin(p, path, "open", "T_FILE")
SysCreate(p) == \E path \in Paths : Enter(p) /\ Begin(p, path, "create", "T_FILE")
SysMkdir(p)  == \E path \in Paths : Enter(p) /\ Begin(p, path, "create", "T_DIR")
SysMknod(p)  == \E path \in Paths : Enter(p) /\ Begin(p, path, "create", "T_DEV")

FreeFiles  == {f \in 1 .. NFILE : file[f].ref = 0}
FreeFds(p) == {fd \in Fd : proc[p].ofile[fd] = 0}

\* The end of sys_open, with inode i locked by this process; c is the cache.
OpenFile(p, c, i) ==
  /\ icache' = c
  /\ lock' = [lock EXCEPT ![i] = Nobody]
  /\ IF FreeFiles # {} /\ FreeFds(p) # {}
     THEN LET f == Min(FreeFiles)
          IN  /\ file' = [file EXCEPT ![f] = [ref |-> 1, ip |-> i]]
              /\ proc' = [proc EXCEPT ![p].ofile[Min(FreeFds(p))] = f]
              /\ Step(p, User)
     ELSE /\ Step(p, PutThen([th[p] EXCEPT !.cur = 0, !.ip = 0], i, "user"))
          /\ UNCHANGED <<file, proc>>
  /\ UNCHANGED <<dinode, panic, gone>>

\* open without O_CREATE; a directory can only be read.
Open(p) ==
  LET i == th[p].cur
      c == Ilock(icache, i)
  IN  /\ At(p, "open") /\ Unlocked(i)
      /\ IF NoType(c, i) THEN Panic("ilock") /\ UNCHANGED <<file, gone>>
         ELSE \/ OpenFile(p, c, i)
              \/ /\ c[i].type = "T_DIR"
                 /\ icache' = c
                 /\ Step(p, PutThen([th[p] EXCEPT !.cur = 0], i, "user"))
                 /\ UNCHANGED <<dinode, lock, proc, panic, file, gone>>

\* ialloc takes the first inode that is free on disk.
FreeInodes == {i \in Inum : dinode[i].type = "none"}

\* create with the parent locked: the name exists, or a new inode is allocated
\* and the parent stays locked.
Create(p) ==
  LET t == th[p]
      d == t.cur
      c == Ilock(icache, d)
      i == Dirlookup(d, t.name)
      j == Min(FreeInodes)
  IN  /\ At(p, "create") /\ Unlocked(d)
      /\ IF NotDir(c, d) THEN Panic("dirlookup") /\ UNCHANGED <<file, gone>>
         ELSE IF i # 0
         THEN /\ icache' = Iget(c, i)
              /\ Step(p, PutThen([t EXCEPT !.cur = 0, !.ip = i], d, "createOld"))
              /\ UNCHANGED <<dinode, lock, proc, panic, file, gone>>
         ELSE IF FreeInodes = {} THEN Panic("ialloc") /\ UNCHANGED <<file, gone>>
         ELSE /\ dinode' = [dinode EXCEPT ![j] = [Free EXCEPT !.type = t.type]]
              /\ icache' = Iget(c, j)
              /\ LockParent(p, d)
              /\ Step(p, [t EXCEPT !.pc = "createNew", !.cur = 0, !.dp = d, !.ip = j])
              /\ UNCHANGED <<proc, panic, file, gone>>

\* create of a name that exists: open goes on with it if it is a file.
CreateOld(p) ==
  LET t == th[p]
      c == Ilock(icache, t.ip)
  IN  /\ At(p, "createOld") /\ Unlocked(t.ip)
      /\ IF NoType(c, t.ip) THEN Panic("ilock") /\ UNCHANGED <<file, gone>>
         ELSE IF t.type = "T_FILE" /\ c[t.ip].type = "T_FILE" THEN OpenFile(p, c, t.ip)
         ELSE /\ icache' = c
              /\ Step(p, PutThen([t EXCEPT !.ip = 0], t.ip, "user"))
              /\ UNCHANGED <<dinode, lock, proc, panic, file, gone>>

\* The new inode gets its link, "." and "..", and its name; the parent is
\* unlocked and put while the new inode stays locked.
CreateNew(p) ==
  LET t  == th[p]
      c  == Nlink(Ilock(icache, t.ip), t.ip, 1)
      cd == IF t.type = "T_DIR" THEN Nlink(c, t.dp, 1) ELSE c
      d  == Iupdate(Iupdate(dinode, cd, t.ip), cd, t.dp)
  IN  /\ At(p, "createNew") /\ Unlocked(t.ip)
      /\ icache' = cd
      /\ dinode' = [d EXCEPT ![t.ip].up = IF t.type = "T_DIR" THEN t.dp ELSE 0,
                             ![t.dp].ent[t.name] = t.ip]
      /\ lock' = [lock EXCEPT ![t.dp] = Nobody, ![t.ip] = p]
      /\ Step(p, PutThen([t EXCEPT !.dp = 0], t.dp, "created"))
      /\ UNCHANGED <<proc, panic, file, gone>>

\* create returns the locked inode to sys_open, or to sys_mkdir and sys_mknod,
\* which unlock and put it.
Created(p) ==
  LET t == th[p]
  IN  /\ At(p, "created")
      /\ IF t.type = "T_FILE" THEN OpenFile(p, icache, t.ip)
         ELSE /\ lock' = [lock EXCEPT ![t.ip] = Nobody]
              /\ Step(p, PutThen([t EXCEPT !.ip = 0], t.ip, "user"))
              /\ UNCHANGED <<dinode, icache, proc, panic, file, gone>>
-----------------------------------------------------------------------------
(* link *)

SysLink(p) == \E path \in Paths : Enter(p) /\ Begin(p, path, "link", "T_FILE")

\* A directory is refused; else the link is counted before the second walk.
Link(p) ==
  LET i == th[p].cur
      c == Ilock(icache, i)
      n == Nlink(c, i, 1)
  IN  /\ At(p, "link") /\ Unlocked(i)
      /\ IF NoType(c, i) THEN Panic("ilock")
         ELSE IF c[i].type = "T_DIR"
         THEN /\ icache' = c
              /\ Step(p, PutThen([th[p] EXCEPT !.cur = 0], i, "user"))
              /\ UNCHANGED <<dinode, lock, proc, panic>>
         ELSE \E path \in NewNames :
              LET j == NamexStart(p, path.abs)
              IN  /\ icache' = Iget(n, j)
                  /\ dinode' = Iupdate(dinode, n, i)
                  /\ Step(p, Loop([th[p] EXCEPT !.ip = i, !.cur = 0, !.path = path.elem, !.goal = "link2"], j))
                  /\ UNCHANGED <<lock, proc, panic>>
      /\ UNCHANGED <<file, gone>>

PresentWrong(i) == FALSE

\* dirlink finds inode i under the name it is to write.
Present(i) == i # 0

\* dirlink in the new parent; if the name exists its inode is put with the
\* parent still locked.
Link2(p) ==
  LET t == th[p]
      d == t.cur
      c == Ilock(icache, d)
      j == Dirlookup(d, t.name)
  IN  /\ At(p, "link2") /\ Unlocked(d)
      /\ IF NotDir(c, d) THEN Panic("dirlookup")
         ELSE IF Present(j)
         THEN /\ icache' = Iget(c, j)
              /\ LockParent(p, d)
              /\ Step(p, PutThen([t EXCEPT !.cur = 0, !.dp = d], j, "linkTaken"))
              /\ UNCHANGED <<dinode, proc, panic>>
         ELSE /\ icache' = c
              /\ dinode' = [dinode EXCEPT ![d].ent[t.name] = t.ip]
              /\ Step(p, PutThen([t EXCEPT !.cur = 0], d, "linked"))
              /\ UNCHANGED <<lock, proc, panic>>
      /\ UNCHANGED <<file, gone>>

LinkTaken(p) ==
  LET t == th[p]
  IN  /\ At(p, "linkTaken")
      /\ lock' = [lock EXCEPT ![t.dp] = Nobody]
      /\ Step(p, PutThen([t EXCEPT !.dp = 0], t.dp, "linkBad"))
      /\ UNCHANGED <<dinode, icache, proc, panic, file, gone>>

Linked(p) ==
  /\ At(p, "linked")
  /\ Step(p, PutThen([th[p] EXCEPT !.ip = 0], th[p].ip, "user"))
  /\ UNCHANGED <<dinode, icache, lock, proc, panic, file, gone>>

\* The label bad: the link is not made after all.
LinkBad(p) ==
  LET i == th[p].ip
      c == Nlink(Ilock(icache, i), i, -1)
  IN  /\ At(p, "linkBad") /\ Unlocked(i)
      /\ icache' = c
      /\ dinode' = Iupdate(dinode, c, i)
      /\ Step(p, PutThen([th[p] EXCEPT !.ip = 0], i, "user"))
      /\ UNCHANGED <<lock, proc, panic, file, gone>>
-----------------------------------------------------------------------------
(* unlink *)

SysUnlink(p) == \E path \in Paths : Enter(p) /\ Begin(p, path, "unlink", "T_FILE")

\* The parent is locked, then the inode under the name.
Unlink(p) ==
  LET t == th[p]
      d == t.cur
      c == Ilock(icache, d)
      i == Dirlookup(d, t.name)
  IN  /\ At(p, "unlink") /\ Unlocked(d)
      /\ IF t.name \in {".", ".."} \/ i = 0
         THEN /\ icache' = c
              /\ Step(p, PutThen([t EXCEPT !.cur = 0], d, "user"))
              /\ UNCHANGED lock
         ELSE /\ icache' = Iget(c, i)
              /\ LockParent(p, d)
              /\ Step(p, [t EXCEPT !.pc = "unlink2", !.cur = 0, !.dp = d, !.ip = i])
      /\ UNCHANGED <<dinode, proc, panic, file, gone>>

IsDirEmpty(i) == dinode[i].ent = NoEntries

\* Remove the name, unlock and put the parent; the inode stays locked.
Unlink2(p) ==
  LET t  == th[p]
      c  == Ilock(icache, t.ip)
      cd == IF c[t.ip].type = "T_DIR" THEN Nlink(c, t.dp, -1) ELSE c
  IN  /\ At(p, "unlink2") /\ Unlocked(t.ip)
      /\ IF NoType(c, t.ip) \/ c[t.ip].nlink < 1 THEN Panic("unlink") /\ UNCHANGED gone
         ELSE IF c[t.ip].type = "T_DIR" /\ ~IsDirEmpty(t.ip)
         THEN /\ icache' = c
              /\ Step(p, PutThen([t EXCEPT !.ip = 0], t.ip, "unlinkBad"))
              /\ UNCHANGED <<dinode, lock, proc, panic, gone>>
         ELSE /\ icache' = cd
              /\ dinode' = [Iupdate(dinode, cd, t.dp) EXCEPT ![t.dp].ent[t.name] = 0]
              /\ lock' = [lock EXCEPT ![t.dp] = Nobody, ![t.ip] = p]
              /\ Step(p, PutThen([t EXCEPT !.dp = 0], t.dp, "unlinked"))
              /\ gone' = (gone \/ (c[t.ip].type = "T_DIR" /\ c[t.ip].ref > 1))
              /\ UNCHANGED <<proc, panic>>
      /\ UNCHANGED file

UnlinkBad(p) ==
  LET t == th[p]
  IN  /\ At(p, "unlinkBad")
      /\ lock' = [lock EXCEPT ![t.dp] = Nobody]
      /\ Step(p, PutThen([t EXCEPT !.dp = 0], t.dp, "user"))
      /\ UNCHANGED <<dinode, icache, proc, panic, file, gone>>

\* The link is taken off the count.
Unlinked(p) ==
  LET i == th[p].ip
      c == Nlink(icache, i, -1)
  IN  /\ At(p, "unlinked")
      /\ icache' = c
      /\ dinode' = Iupdate(dinode, c, i)
      /\ lock' = [lock EXCEPT ![i] = Nobody]
      /\ Step(p, PutThen([th[p] EXCEPT !.ip = 0], i, "user"))
      /\ UNCHANGED <<proc, panic, file, gone>>
-----------------------------------------------------------------------------
(* close, chdir *)

\* fileclose of file f, then to label k: the last reference puts the inode.
FileClose(p, f, k) ==
  IF file[f].ref > 1
  THEN /\ file' = [file EXCEPT ![f].ref = @ - 1]
       /\ Step(p, Go(th[p], k))
  ELSE /\ file' = [file EXCEPT ![f] = NoFile]
       /\ Step(p, PutThen([th[p] EXCEPT !.op = TRUE], file[f].ip, k))

SysClose(p) ==
  \E fd \in Fd :
    /\ Enter(p) /\ proc[p].ofile[fd] # 0
    /\ proc' = [proc EXCEPT ![p].ofile[fd] = 0]
    /\ FileClose(p, proc[p].ofile[fd], "user")
    /\ UNCHANGED <<dinode, icache, lock, panic, gone>>

SysChdir(p) == \E path \in Paths : Enter(p) /\ Begin(p, path, "chdir", "T_FILE")

\* cwd is assigned after the iput, but only this process reads it.
Chdir(p) ==
  LET i == th[p].cur
      c == Ilock(icache, i)
  IN  /\ At(p, "chdir") /\ Unlocked(i)
      /\ IF NoType(c, i) THEN Panic("ilock")
         ELSE /\ icache' = c
              /\ IF NotDir(c, i)
                 THEN Step(p, PutThen([th[p] EXCEPT !.cur = 0], i, "user")) /\ UNCHANGED proc
                 ELSE /\ proc' = [proc EXCEPT ![p].cwd = i]
                      /\ Step(p, PutThen([th[p] EXCEPT !.cur = 0], proc[p].cwd, "user"))
              /\ UNCHANGED <<dinode, lock, panic>>
      /\ UNCHANGED <<file, gone>>

FileSysCalls(p) ==
  \/ SysOpen(p) \/ SysCreate(p) \/ SysMkdir(p) \/ SysMknod(p)
  \/ SysLink(p) \/ SysUnlink(p) \/ SysClose(p) \/ SysChdir(p)

FileSysSteps(p) ==
  \/ Open(p) \/ Create(p) \/ CreateOld(p) \/ CreateNew(p) \/ Created(p)
  \/ Link(p) \/ Link2(p) \/ LinkTaken(p) \/ Linked(p) \/ LinkBad(p)
  \/ Unlink(p) \/ Unlink2(p) \/ UnlinkBad(p) \/ Unlinked(p) \/ Chdir(p)
  \/ InodeNext(p) /\ UNCHANGED <<file, gone>>
=============================================================================
