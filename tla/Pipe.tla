-------------------------------- MODULE Pipe -------------------------------
(***************************************************************************)
(* The table of open files (file.c), the descriptors of processes (sysfile *)
(* .c, fork and exit in proc.c) and pipes (pipe.c).                        *)
(*                                                                         *)
(* The locks are not variables: what runs under ftable.lock or under the   *)
(* lock of a pipe, up to the sleep that gives it up, is one step.  fork    *)
(* counts its files one by one, but the parent holds a reference to each,  *)
(* so that it is one step too.  A sys_pipe that fails undoes what it did.  *)
(* A kill does not fall between a test of killed and the sleep after it,   *)
(* as on one CPU, where the lock of the pipe keeps interrupts off.         *)
(* RUNNABLE stands for RUNNING as well.  Files that are not pipes are not  *)
(* modelled.                                                               *)
(*                                                                         *)
(* An operator named ...Wrong is the operator that follows it with a       *)
(* mistake in it, to see that a property notices.                          *)
(***************************************************************************)
EXTENDS Integers, Sequences, FiniteSetsExt

CONSTANTS
  Procs, First,  \* slots of the process table; the one that runs at first
  NOFILE, NFILE, \* descriptors of a process, entries of ftable
  Pages, Null,   \* pages that kalloc gives to pipes; no page, no file
  PIPESIZE,      \* bytes of a pipe
  UINT,          \* nread and nwrite count modulo UINT (2^32)
  Messages,      \* what processes write
  ReadArgs,      \* the numbers of bytes that processes want to read
  Calls          \* the system calls that happen in an instance

ASSUME PipeAssumption ==
  /\ IsFiniteSet(Procs) /\ First \in Procs
  /\ {NOFILE, NFILE, PIPESIZE} \subseteq Nat \ {0}
  /\ Null \notin Pages
  /\ UINT \in Nat /\ UINT > PIPESIZE /\ UINT % PIPESIZE = 0
  /\ << >> \notin Messages /\ \A m \in Messages : m \in Seq(Range(m))
  /\ ReadArgs \subseteq Nat \ {0}

Fd   == 0 .. NOFILE - 1
File == 1 .. NFILE

VARIABLES
  file,                  \* ftable.file; an entry is free if ref is 0
  pipe,                  \* the pages as struct pipe
  free,                  \* the free list
  ofile, state, killed,  \* of struct proc; descriptor 0 in ofile is no file
  pc, ff, todo, want,    \* where a process is; the file it works on, the bytes
                         \* still to write, the number it wants to read
  got,                   \* history: the bytes the last step handed to a reader, per page,
  unheard                \* and the pages that a writer gave up, with no wakeup since

procVars == <<ofile, state, killed>>
ctlVars  == <<pc, ff, todo, want>>
pageVars == <<free, unheard>>
vars     == <<file, pipe, pageVars, procVars, ctlVars, got>>

Nothing == [x \in Pages |-> << >>]

NoFile == [ref |-> 0, type |-> "FD_NONE", writable |-> FALSE, pipe |-> Null]

\* A page that is not a pipe: kfree fills it with junk.
Junk == [nread |-> 0, nwrite |-> 0, readopen |-> FALSE, writeopen |-> FALSE,
         data |-> [i \in 0 .. PIPESIZE - 1 |-> Null]]

\* nwrite - nread, in unsigned arithmetic.
Count(x) == (pipe[x].nwrite - pipe[x].nread) % UINT

TypeOK ==
  /\ file \in [File -> [ref : Nat, type : {"FD_NONE", "FD_PIPE"}, writable : BOOLEAN,
                        pipe : Pages \cup {Null}]]
  /\ \A x \in Pages : {pipe[x].nread, pipe[x].nwrite} \subseteq 0 .. UINT - 1 /\ Count(x) <= PIPESIZE
  /\ free \subseteq Pages /\ unheard \subseteq Pages
  /\ ofile \in [Procs -> [Fd -> File \cup {0}]]
  /\ state \in [Procs -> {"UNUSED", "RUNNABLE", "SLEEPING", "EXITING", "ZOMBIE"}]
  /\ killed \in [Procs -> BOOLEAN]
  /\ pc \in [Procs -> {"user", "read", "write", "pipeclose", "exit"}]
  /\ want \in [Procs -> ReadArgs \cup {0}]

Init ==
  /\ file = [f \in File |-> NoFile]
  /\ pipe = [x \in Pages |-> Junk]
  /\ free = Pages
  /\ ofile = [p \in Procs |-> [fd \in Fd |-> 0]]
  /\ state = [p \in Procs |-> IF p = First THEN "RUNNABLE" ELSE "UNUSED"]
  /\ killed = [p \in Procs |-> FALSE]
  /\ pc = [p \in Procs |-> "user"]
  /\ ff = [p \in Procs |-> NoFile]
  /\ todo = [p \in Procs |-> << >>]
  /\ want = [p \in Procs |-> 0]
  /\ got = Nothing /\ unheard = {}
-----------------------------------------------------------------------------
(* Control *)

At(p, label) == pc[p] = label /\ state[p] \in {"RUNNABLE", "EXITING"}

\* A killed process exits instead of entering a system call.
Enter(p, call) == call \in Calls /\ At(p, "user") /\ ~killed[p]

\* Back to the user, or to the loop of exit.
Return(p) ==
  /\ pc' = [pc EXCEPT ![p] = IF state[p] = "EXITING" THEN "exit" ELSE "user"]
  /\ todo' = [todo EXCEPT ![p] = << >>]
  /\ want' = [want EXCEPT ![p] = 0]
  /\ ff' = [ff EXCEPT ![p] = NoFile]

\* The channels &p->nread and &p->nwrite.
SleepsOn(q, call, x) == state[q] = "SLEEPING" /\ pc[q] = call /\ ff[q].pipe = x

WakeupWrong(call, x) == UNCHANGED state

Wakeup(call, x) ==
  state' = [q \in Procs |-> IF SleepsOn(q, call, x) THEN "RUNNABLE" ELSE state[q]]
-----------------------------------------------------------------------------
(* Descriptors *)

FreeFds(p) == {fd \in Fd : ofile[p][fd] = 0}
FreeFiles  == {f \in File : file[f].ref = 0}

\* The page x becomes a pipe, the files f0 and f1 its ends.
PipeAlloc(x, f0, f1) ==
  /\ free' = free \ {x} /\ unheard' = unheard \ {x}
  /\ pipe' = [pipe EXCEPT ![x].readopen = TRUE, ![x].writeopen = TRUE,
                          ![x].nread = 0, ![x].nwrite = 0]
  /\ file' = [file EXCEPT
       ![f0] = [ref |-> 1, type |-> "FD_PIPE", writable |-> FALSE, pipe |-> x],
       ![f1] = [ref |-> 1, type |-> "FD_PIPE", writable |-> TRUE, pipe |-> x]]

\* The first two free files and descriptors.
SysPipe(p) ==
  /\ Enter(p, "pipe")
  /\ Cardinality(FreeFiles) >= 2 /\ Cardinality(FreeFds(p)) >= 2
  /\ LET f0  == Min(FreeFiles)
         f1  == Min(FreeFiles \ {f0})
         fd0 == Min(FreeFds(p))
         fd1 == Min(FreeFds(p) \ {fd0})
     IN  /\ \E x \in free : PipeAlloc(x, f0, f1)
         /\ ofile' = [ofile EXCEPT ![p][fd0] = f0, ![p][fd1] = f1]
  /\ UNCHANGED <<state, killed, ctlVars>>

SysDup(p, fd) ==
  /\ Enter(p, "dup") /\ ofile[p][fd] # 0 /\ FreeFds(p) # {}
  /\ ofile' = [ofile EXCEPT ![p][Min(FreeFds(p))] = ofile[p][fd]]
  /\ file' = [file EXCEPT ![ofile[p][fd]].ref = @ + 1]
  /\ UNCHANGED <<pipe, pageVars, state, killed, ctlVars>>

\* The descriptors of the child are copies; each counts.
Duplicated(p) ==
  [f \in File |-> [file[f] EXCEPT !.ref = @ + Cardinality({fd \in Fd : ofile[p][fd] = f})]]

Fork(p, q) ==
  /\ Enter(p, "fork") /\ state[q] = "UNUSED"
  /\ ofile' = [ofile EXCEPT ![q] = ofile[p]]
  /\ file' = Duplicated(p)
  /\ state' = [state EXCEPT ![q] = "RUNNABLE"]
  /\ UNCHANGED <<pipe, pageVars, killed, ctlVars>>

\* fileclose under ftable.lock: the last one copies the file and goes on to
\* pipeclose without the lock.
FileClose(p, f) ==
  /\ file' = [file EXCEPT ![f].ref = @ - 1,
                          ![f].type = IF file[f].ref > 1 THEN @ ELSE "FD_NONE"]
  /\ IF file[f].ref > 1
       THEN UNCHANGED <<pc, ff>>
       ELSE pc' = [pc EXCEPT ![p] = "pipeclose"] /\ ff' = [ff EXCEPT ![p] = file[f]]
  /\ UNCHANGED <<todo, want>>

SysClose(p, fd) ==
  /\ Enter(p, "close") /\ ofile[p][fd] # 0
  /\ FileClose(p, ofile[p][fd])
  /\ ofile' = [ofile EXCEPT ![p][fd] = 0]
  /\ UNCHANGED <<pipe, pageVars, state, killed>>

GoneWrong(f) == TRUE

\* The other end is closed already: the page is freed.
Gone(f) == IF f.writable THEN ~pipe[f.pipe].readopen ELSE ~pipe[f.pipe].writeopen

PipeClose(p) ==
  /\ At(p, "pipeclose")
  /\ LET x == ff[p].pipe
     IN  /\ pipe' = IF Gone(ff[p]) THEN [pipe EXCEPT ![x] = Junk]
                    ELSE IF ff[p].writable THEN [pipe EXCEPT ![x].writeopen = FALSE]
                                           ELSE [pipe EXCEPT ![x].readopen = FALSE]
         /\ Wakeup(IF ff[p].writable THEN "read" ELSE "write", x)
         /\ free' = IF Gone(ff[p]) THEN free \cup {x} ELSE free
  /\ Return(p)
  /\ UNCHANGED <<file, unheard, ofile, killed>>

\* exit, asked for or because the process was killed.
Exit(p) ==
  /\ At(p, "user") /\ p # First /\ (killed[p] \/ "exit" \in Calls)
  /\ state' = [state EXCEPT ![p] = "EXITING"]
  /\ pc' = [pc EXCEPT ![p] = "exit"]
  /\ UNCHANGED <<file, pipe, pageVars, ofile, killed, ff, todo, want>>

ExitClose(p) ==
  /\ At(p, "exit") /\ FreeFds(p) # Fd
  /\ LET fd == Min(Fd \ FreeFds(p))
     IN  FileClose(p, ofile[p][fd]) /\ ofile' = [ofile EXCEPT ![p][fd] = 0]
  /\ UNCHANGED <<pipe, pageVars, state, killed>>

ExitZombie(p) ==
  /\ At(p, "exit") /\ FreeFds(p) = Fd
  /\ state' = [state EXCEPT ![p] = "ZOMBIE"]
  /\ pc' = [pc EXCEPT ![p] = "user"]
  /\ UNCHANGED <<file, pipe, pageVars, ofile, killed, ff, todo, want>>

\* The parent's wait.
Reap(p) ==
  /\ state[p] = "ZOMBIE"
  /\ state' = [state EXCEPT ![p] = "UNUSED"]
  /\ killed' = [killed EXCEPT ![p] = FALSE]
  /\ UNCHANGED <<file, pipe, pageVars, ofile, ctlVars>>

Kill(q) ==
  /\ "kill" \in Calls /\ state[q] \in {"RUNNABLE", "SLEEPING"} /\ q # First
  /\ killed' = [killed EXCEPT ![q] = TRUE]
  /\ state' = [state EXCEPT ![q] = "RUNNABLE"]
  /\ UNCHANGED <<file, pipe, pageVars, ofile, ctlVars>>
-----------------------------------------------------------------------------
(* Reading and writing *)

\* What fileread and filewrite demand of a file.
Readable(f) == file[f].type = "FD_PIPE" /\ ~file[f].writable
Writable(f) == file[f].type = "FD_PIPE" /\ file[f].writable

SysRead(p, fd, n) ==
  /\ Enter(p, "read") /\ ofile[p][fd] # 0 /\ Readable(ofile[p][fd])
  /\ pc' = [pc EXCEPT ![p] = "read"]
  /\ ff' = [ff EXCEPT ![p] = file[ofile[p][fd]]]
  /\ want' = [want EXCEPT ![p] = n]
  /\ UNCHANGED <<file, pipe, pageVars, procVars, todo>>

SysWrite(p, fd, m) ==
  /\ Enter(p, "write") /\ ofile[p][fd] # 0 /\ Writable(ofile[p][fd])
  /\ pc' = [pc EXCEPT ![p] = "write"]
  /\ ff' = [ff EXCEPT ![p] = file[ofile[p][fd]]]
  /\ todo' = [todo EXCEPT ![p] = m]
  /\ UNCHANGED <<file, pipe, pageVars, procVars, want>>

Contents(x) == [i \in 1 .. Count(x) |-> pipe[x].data[(pipe[x].nread + i - 1) % PIPESIZE]]

Sleep(p) == state' = [state EXCEPT ![p] = "SLEEPING"]

\* piperead, from acquire to the return or to the sleep.
PipeReadBlock(p) ==
  LET x == ff[p].pipe
  IN  /\ At(p, "read") /\ Count(x) = 0 /\ pipe[x].writeopen
      /\ IF killed[p] THEN Return(p) /\ UNCHANGED state
                      ELSE Sleep(p) /\ UNCHANGED ctlVars
      /\ UNCHANGED <<file, pipe, pageVars, ofile, killed>>

\* The end of the file is not noticed.
ReadyWrong(x) == Count(x) # 0

Ready(x) == Count(x) # 0 \/ ~pipe[x].writeopen

PipeRead(p) ==
  LET x == ff[p].pipe
      n == Min({want[p], Count(x)})
  IN  /\ At(p, "read") /\ Ready(x)
      /\ got' = [Nothing EXCEPT ![x] = SubSeq(Contents(x), 1, n)]
      /\ pipe' = [pipe EXCEPT ![x].nread = (@ + n) % UINT]
      /\ Wakeup("write", x)
      /\ Return(p)
      /\ UNCHANGED <<file, pageVars, ofile, killed>>

Room(x) == PIPESIZE - Count(x)

SlotWrong(x, k) == (pipe[x].nread + k - 1) % PIPESIZE

\* Where the k-th byte of a write goes.
Slot(x, k) == (pipe[x].nwrite + k - 1) % PIPESIZE

Filled(x, m) ==
  [pipe EXCEPT
     ![x].data = [i \in 0 .. PIPESIZE - 1 |->
        LET k == CHOOSE k \in 1 .. PIPESIZE : Slot(x, k) = i
        IN  IF k <= Len(m) THEN m[k] ELSE @[i]],
     ![x].nwrite = (@ + Len(m)) % UINT]

\* pipewrite, from acquire or the end of a sleep to the return or the next sleep.
PipeWrite(p) ==
  LET x == ff[p].pipe
  IN  /\ At(p, "write") /\ Len(todo[p]) <= Room(x)
      /\ pipe' = Filled(x, todo[p])
      /\ Wakeup("read", x)
      /\ Return(p)
      /\ unheard' = unheard \ {x}
      /\ UNCHANGED <<file, free, ofile, killed>>

PipeWriteBlock(p) ==
  LET x == ff[p].pipe
      n == Room(x)
  IN  /\ At(p, "write") /\ Len(todo[p]) > n
      /\ pipe' = Filled(x, SubSeq(todo[p], 1, n))
      /\ IF ~pipe[x].readopen \/ killed[p]
           THEN Return(p) /\ unheard' = unheard \cup {x} /\ UNCHANGED state
           ELSE /\ state' = [q \in Procs |-> IF q = p THEN "SLEEPING"
                                             ELSE IF SleepsOn(q, "read", x) THEN "RUNNABLE" ELSE state[q]]
                /\ todo' = [todo EXCEPT ![p] = SubSeq(@, n + 1, Len(@))]
                /\ unheard' = unheard \ {x}
                /\ UNCHANGED <<pc, want, ff>>
      /\ UNCHANGED <<file, free, ofile, killed>>
-----------------------------------------------------------------------------
\* A read that returns bytes; every other step hands none out.
Kernel(p) ==
  \/ PipeRead(p)
  \/ /\ \/ PipeReadBlock(p) \/ PipeWrite(p) \/ PipeWriteBlock(p)
        \/ PipeClose(p) \/ ExitClose(p) \/ ExitZombie(p)
     /\ got' = Nothing

User(p) ==
  /\ \/ SysPipe(p) \/ Exit(p) \/ Reap(p) \/ Kill(p)
     \/ \E q \in Procs : Fork(p, q)
     \/ \E fd \in Fd : \/ SysDup(p, fd) \/ SysClose(p, fd)
                       \/ \E n \in ReadArgs : SysRead(p, fd, n)
                       \/ \E m \in Messages : SysWrite(p, fd, m)
  /\ got' = Nothing

Next == \E p \in Procs : Kernel(p) \/ User(p)

Spec == Init /\ [][Next]_vars

\* The scheduler runs every runnable process in the end.
FairSpec == Spec /\ \A p \in Procs : WF_vars(Kernel(p))
-----------------------------------------------------------------------------
(* Properties *)

\* The reference count of a file is the number of descriptors that name it.
RefIsDescriptors ==
  \A f \in File : file[f].ref = Cardinality({d \in Procs \X Fd : ofile[d[1]][d[2]] = f})

\* An end of a pipe is open as long as a file in use, or one that is being
\* closed, stands for it, and a pipe with an open end is not free.
EndsOpen ==
  \A x \in Pages, w \in BOOLEAN :
    LET holders == {f \in File : file[f].ref > 0 /\ file[f].pipe = x /\ file[f].writable = w}
        closing == {q \in Procs : pc[q] = "pipeclose" /\ ff[q].pipe = x /\ ff[q].writable = w}
        open    == IF w THEN pipe[x].writeopen ELSE pipe[x].readopen
    IN  /\ open <=> holders \cup closing # {}
        /\ open => x \notin free

\* Descriptors keep their files, and files their end of the pipe: nothing is
\* closed too early or kept open for nobody.
DescriptorsKeepEnds == TypeOK /\ RefIsDescriptors /\ EndsOpen

\* Nobody sleeps who could go on: a reader sleeps while a writer is left and
\* the pipe is empty, or a writer that was killed filled it and no wakeup has
\* come since; a writer sleeps while a reader is left and the pipe is full.
SleepersWait ==
  \A q \in Procs : LET x == ff[q].pipe IN
    /\ state[q] = "SLEEPING" /\ pc[q] = "read" => pipe[x].writeopen /\ (Count(x) = 0 \/ x \in unheard)
    /\ state[q] = "SLEEPING" /\ pc[q] = "write" => pipe[x].readopen /\ Count(x) = PIPESIZE

\* When the last writer has closed its end, every read that waits returns.
EofSeen ==
  \A q \in Procs :
    (pc[q] = "read" /\ ~pipe[ff[q].pipe].writeopen) ~> (pc[q] # "read")

\* Every page, as a pipe, is a bounded channel that keeps the order of bytes,
\* loses none and repeats none: C(x)!Spec for each page x.
C(x) == INSTANCE Channel WITH
  Size     <- PIPESIZE,
  todo     <- [p \in Procs |-> IF pc[p] = "write" /\ ff[p].pipe = x THEN todo[p] ELSE << >>],
  got      <- got[x],
  queue    <- IF x \in free THEN << >> ELSE Contents(x),
  readable <- pipe[x].readopen

PipeIsChannel ==
  /\ \A x \in Pages : C(x)!Init
  /\ [][\A x \in Pages : [C(x)!Next]_(C(x)!vars)]_vars
=============================================================================
