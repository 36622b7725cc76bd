-------------------------------- MODULE Shell ------------------------------
(***************************************************************************)
(* The shell at work (main and runcmd of sh.c): the processes that it forks*)
(* for a command line, their file descriptors, and who waits for whom.     *)
(*                                                                         *)
(* Descriptors belong to one process, so that a step goes from one fork,   *)
(* wait, exec or exit to the next.  A command that was started reads its   *)
(* standard input to the end, if that is a pipe; otherwise it ends when it *)
(* likes to.                                                               *)
(***************************************************************************)
EXTENDS ShellParser

CONSTANTS
  NPid,          \* number of processes; process 1 is the shell
  NFd,           \* descriptors of a process
  TypedLines,    \* lines that are typed
  MaxLines       \* how many

VARIABLES
  ps,            \* the processes
  npipes,        \* pipes that have been made
  toType         \* lines that are still to be typed

shellVars == <<line, ps, npipes, toType>>

Closed == [end |-> "closed", pipe |-> 0]
Tty    == [end |-> "tty", pipe |-> 0]
File   == [end |-> "file", pipe |-> 0]
In(n)  == [end |-> "read", pipe |-> n]
Out(n) == [end |-> "write", pipe |-> n]
Nothing == Execcmd(<< >>)

FdSet   == 0 .. NFd - 1
NoFds   == [d \in FdSet |-> Closed]
NoProcess == [st |-> "unused", cmd |-> Nothing, fds |-> NoFds, parent |-> 0]

\* open, dup and pipe take the lowest descriptor that is closed.
Lowest(fds)   == Min({d \in FdSet : fds[d] = Closed})
OpenAs(fds, o) == [fds EXCEPT ![Lowest(fds)] = o]
Close(fds, d) == [fds EXCEPT ![d] = Closed]

\* main opens the console until it gets a descriptor above 2, which it closes.
RECURSIVE OpenThree(_)
OpenThree(fds) == IF Lowest(fds) >= 3 THEN fds ELSE OpenThree(OpenAs(fds, Tty))

Children(p) == {q \in DOMAIN ps : ps[q].st # "unused" /\ ps[q].parent = p}
FreePids    == {q \in DOMAIN ps : ps[q].st = "unused"}

\* Process p exits; init takes over its children, and waits for them.
ExitOf(p) ==
  [q \in DOMAIN ps |->
    IF q = p THEN (IF ps[p].parent = 0 THEN NoProcess ELSE [NoProcess EXCEPT !.st = "zombie", !.parent = ps[p].parent])
    ELSE IF ps[q].parent # p THEN ps[q]
    ELSE IF ps[q].st = "zombie" THEN NoProcess
    ELSE [ps[q] EXCEPT !.parent = 0]]

\* fork1: process p becomes me, its child runs cmd with descriptors fds.  Without
\* a free process, panic ends p.
Fork1(p, cmd, fds, me) ==
  ps' = IF FreePids = {} THEN ExitOf(p)
        ELSE LET q == Min(FreePids)
             IN  [ps EXCEPT ![p] = me, ![q] = [st |-> "run", cmd |-> cmd, fds |-> fds, parent |-> p]]

Line == [type |-> "line"]      \* a command that is still to be parsed

Runs(p, type) == ps[p].st = "run" /\ ps[p].cmd.type = type
Unmoved == UNCHANGED <<line, npipes, toType>>
Become(p, st, cmd) == [ps[p] EXCEPT !.st = st, !.cmd = cmd]
-----------------------------------------------------------------------------
(* main *)

IsCd(l) == Len(l) >= 3 /\ SubSeq(l, 1, 3) = <<"c", "d", "w">>

\* A line is typed; cd is run by the shell, everything else by a child.
Getcmd ==
  /\ ps[1].st = "prompt" /\ toType > 0
  /\ toType' = toType - 1
  /\ UNCHANGED npipes
  /\ \E l \in TypedLines :
       /\ line' = l
       /\ IF IsCd(l) THEN UNCHANGED ps ELSE Fork1(1, Line, ps[1].fds, Become(1, "wait", Nothing))

\* The child parses the line, or exits if it cannot.
ParseLine(p) ==
  /\ Runs(p, "line") /\ Unmoved
  /\ ps' = LET c == Parsecmd IN IF c.ok THEN [ps EXCEPT ![p].cmd = c.cmd] ELSE ExitOf(p)

\* wait: a child that has exited. (A process that waits always has one.)
WaitChild(p) ==
  /\ ps[p].st \in {"wait", "wait2", "wait1"} /\ Unmoved
  /\ LET next == IF p = 1 THEN Become(p, "prompt", Nothing)
                 ELSE IF ps[p].st = "wait2" THEN Become(p, "wait1", Nothing)
                 ELSE IF ps[p].st = "wait1" THEN Become(p, "done", Nothing)
                 ELSE Become(p, "run", ps[p].cmd)
     IN  \E q \in Children(p) : ps[q].st = "zombie" /\ ps' = [ps EXCEPT ![q] = NoProcess, ![p] = next]
-----------------------------------------------------------------------------
(* runcmd *)

RunExec(p) ==
  /\ Runs(p, "exec") /\ Unmoved
  /\ \/ ps' = ExitOf(p)
     \/ ps[p].cmd.argv # << >> /\ ps' = [ps EXCEPT ![p].st = "command"]

RunRedir(p) ==
  /\ Runs(p, "redir") /\ Unmoved
  /\ \/ ps' = ExitOf(p)
     \/ ps' = [ps EXCEPT ![p].fds = OpenAs(Close(@, ps[p].cmd.fd), File), ![p].cmd = ps[p].cmd.cmd]

\* The process that ran the left part is waited for, then the right part is run.
RunList(p) ==
  /\ Runs(p, "list") /\ Unmoved
  /\ Fork1(p, ps[p].cmd.left, ps[p].fds, Become(p, "wait", ps[p].cmd.right))

RunBack(p) ==
  /\ Runs(p, "back") /\ Unmoved
  /\ ps' = LET q == Min(FreePids)
           IN  IF FreePids = {} THEN ExitOf(p)
               ELSE [ExitOf(p) EXCEPT ![q] = [st |-> "run", cmd |-> ps[p].cmd.cmd, fds |-> ps[p].fds, parent |-> 0]]

\* close(d); dup(end); close(p[0]); close(p[1]) in a child
Attach(fds, d, end, p0, p1) == Close(Close(OpenAs(Close(fds, d), fds[end]), p0), p1)

\* pipe, and the child for the left part; the process then is in "pipe".
RunPipe(p) ==
  LET n   == npipes + 1
      fds == OpenAs(OpenAs(ps[p].fds, In(n)), Out(n))
  IN  /\ Runs(p, "pipe")
      /\ UNCHANGED <<line, toType>>
      /\ \/ npipes' = n /\ Fork1(p, ps[p].cmd.left, Attach(fds, 1, 4, 3, 4), [ps[p] EXCEPT !.st = "pipe", !.fds = fds])
         \/ ps' = ExitOf(p) /\ UNCHANGED npipes      \* panic("pipe")

\* Two waits are to come before the exit.
ForBoth == "wait2"

HangUpWrong(fds) == Close(fds, 3)

HangUp(fds) == Close(Close(fds, 3), 4)

\* The child for the right part; then the process closes the pipe and waits for
\* both children.
RunPipeRight(p) ==
  /\ ps[p].st = "pipe" /\ Unmoved
  /\ Fork1(p, ps[p].cmd.right, Attach(ps[p].fds, 0, 3, 3, 4),
           [Become(p, ForBoth, Nothing) EXCEPT !.fds = HangUp(@)])

\* A command that reads from a pipe ends when nobody can write to it any more.
InputEnds(p) ==
  \/ ps[p].fds[0].end # "read"
  \/ \A q \in DOMAIN ps : \A d \in FdSet : ps[q].fds[d] # Out(ps[p].fds[0].pipe)

CommandEnds(p) == ps[p].st = "command" /\ InputEnds(p) /\ Unmoved /\ ps' = ExitOf(p)

\* The exit at the end of runcmd.
Done(p) == ps[p].st = "done" /\ Unmoved /\ ps' = ExitOf(p)

RunStep(p) ==
  \/ WaitChild(p) \/ Done(p) \/ ParseLine(p) \/ RunExec(p) \/ RunRedir(p) \/ RunList(p) \/ RunBack(p)
  \/ RunPipe(p) \/ RunPipeRight(p) \/ CommandEnds(p)

ShellOff == ps = [p \in 1 .. NPid |-> NoProcess] /\ npipes = 0 /\ toType = 0

\* The shell is started with some of its first three descriptors open.
ShellInit ==
  /\ line = << >> /\ npipes = 0 /\ toType = MaxLines
  /\ \E open \in SUBSET (0 .. 2) :
       ps = [p \in 1 .. NPid |-> IF p > 1 THEN NoProcess
               ELSE [NoProcess EXCEPT !.st = "prompt", !.fds = OpenThree([d \in FdSet |-> IF d \in open THEN Tty ELSE Closed])]]

ShellNext == Getcmd \/ \E p \in DOMAIN ps : RunStep(p)
-----------------------------------------------------------------------------
(* Properties *)

\* Whoever runs a command or prompts has its three standard descriptors and no
\* other: no end of a pipe stays behind in a process that does not use it.
StdioOnly ==
  \A p \in DOMAIN ps :
    ps[p].st \in {"run", "command", "prompt"} => {d \in FdSet : ps[p].fds[d] # Closed} = 0 .. 2

\* A wait takes the child it is meant for: a process that goes on to run a
\* command or has run its pipe, and the shell at its prompt, have no child left,
\* running or not.
ChildrenReaped == \A p \in DOMAIN ps : ps[p].st \in {"run", "command", "done", "prompt"} => Children(p) = {}

\* The prompt comes back: as long as the shell waits for a command, some process
\* can go on (every step of a command line is taken once, so that they come to an
\* end).  A reader of a pipe, above all, gets to the end of its input.
PromptReturns ==
  ps[1].st = "wait" =>
    \E p \in DOMAIN ps :
      \/ ps[p].st \in {"run", "pipe", "done"}
      \/ ps[p].st = "command" /\ InputEnds(p)
      \/ /\ ps[p].st \in {"wait", "wait2", "wait1"}
         /\ Children(p) # {} => \E q \in Children(p) : ps[q].st = "zombie"

\* A command line leaves nothing behind: no descriptor, no child, no wait without end.
LineRunsClean == StdioOnly /\ ChildrenReaped /\ PromptReturns
=============================================================================
