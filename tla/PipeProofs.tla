----------------------------- MODULE PipeProofs -----------------------------
(***************************************************************************)
(* Descriptors, files and pipes, for any number of processes, descriptors, *)
(* files and pages, any size of a pipe and any messages: the counts and    *)
(* the open ends agree, and nobody sleeps who could go on.                 *)
(***************************************************************************)
EXTENDS PipeSteps
-----------------------------------------------------------------------------
(* What the steps do to control *)

\* The steps of one process that leave files and pages alone.
LEMMA ControlCalm ==
  ASSUME Types, Control, SleepersWait, NEW p \in Procs,
         PipeReadBlock(p) \/ Exit(p) \/ ExitZombie(p) \/ Reap(p) \/ Kill(p)
  PROVE  Control' /\ SleepersWait'
<1>1. UNCHANGED <<file, pipe, unheard, ofile>>
  BY DEF PipeReadBlock, Exit, ExitZombie, Reap, Kill, pageVars
<1>2. Others(p) /\ \A q \in Procs : q # p => state'[q] = state[q]
  <2>1. CASE PipeReadBlock(p)
    <3>1. CASE killed[p]
      BY ZenonT(60), <2>1, <3>1, ReturnEffect DEF PipeReadBlock, Others
    <3>2. CASE ~killed[p]
      BY SMTT(60), <2>1, <3>2 DEF PipeReadBlock, Sleep, ctlVars, Others, Types
    <3> QED BY Zenon, <3>1, <3>2
  <2>2. CASE Exit(p) \/ ExitZombie(p)
    BY <2>2 DEF Exit, ExitZombie, Others, Types
  <2>3. CASE Reap(p) \/ Kill(p)
    BY <2>3 DEF Reap, Kill, ctlVars, Others, Types
  <2> QED BY Zenon, <2>1, <2>2, <2>3
<1>3. KeepsFiles(p) /\ \A q \in Procs : q # p => Stays(q)
  BY Zenon, <1>1, <1>2, OthersStay
<1>4. \A q \in Procs : q # p => Undisturbed(q)
  BY Zenon, <1>1, <1>2 DEF Others, Undisturbed
<1>5. CASE PipeReadBlock(p)
  <2>1. CASE killed[p]
    <3>1. pc'[p] \in {"user", "exit"} /\ state' = state /\ state[p] \in {"RUNNABLE", "EXITING"}
      BY ZenonT(60), <1>5, <2>1, ReturnEffect DEF PipeReadBlock, At
    <3>2. Rests(p) /\ Undisturbed(p)
      BY <3>1 DEF Rests, Undisturbed
    <3> QED BY Zenon, <1>3, <1>4, <3>2, ControlKept, WaitsKept
  <2>2. CASE ~killed[p]
    <3>1. /\ state'[p] = "SLEEPING" /\ UNCHANGED <<pc, ff, todo>> /\ pc[p] = "read"
          /\ pipe[ff[p].pipe].writeopen /\ CountOf(pipe[ff[p].pipe]) = 0
      BY Zenon, <1>5, <2>2 DEF PipeReadBlock, At, Sleep, ctlVars, Types, Count, CountOf
    <3>2. Stays(p)
      <4>1. "SLEEPING" # "UNUSED" /\ "SLEEPING" # "ZOMBIE" /\ pc[p] \in {"read", "write"}
        BY <3>1
      <4> QED BY Zenon, <1>3, <3>1, <4>1 DEF Stays
    <3>3. Waits(p)'
      BY ZenonT(60), <1>1, <3>1 DEF Waits, CountOf
    <3> QED BY Zenon, <1>3, <1>4, <3>2, <3>3, ControlKept, WaitsKept
  <2> QED BY Zenon, <2>1, <2>2
<1>6. CASE Exit(p)
  <2>1. Rests(p) /\ Undisturbed(p)
    BY <1>6 DEF Exit, Rests, Undisturbed, Types
  <2> QED BY Zenon, <1>3, <1>4, <2>1, ControlKept, WaitsKept
<1>7. CASE ExitZombie(p)
  <2>1. state'[p] = "ZOMBIE" /\ pc'[p] = "user" /\ \A fd \in Fd : ofile'[p][fd] = 0
    BY Zenon, <1>1, <1>7 DEF ExitZombie, FreeFds, Types
  <2>2. Controlled(p)' /\ Undisturbed(p)
    BY <2>1 DEF Controlled, Idles, Undisturbed
  <2> QED BY Zenon, <1>3, <1>4, <2>2, ControlKept, WaitsKept
<1>8. CASE Reap(p)
  <2>1. state[p] = "ZOMBIE" /\ state'[p] = "UNUSED" /\ UNCHANGED <<pc, ff, todo>>
    BY Zenon, <1>8 DEF Reap, Types, ctlVars
  <2>2. Stays(p) /\ Undisturbed(p)
    BY ZenonT(60), <1>1, <1>3, <2>1 DEF Stays, Undisturbed
  <2> QED BY Zenon, <1>3, <1>4, <2>2, ControlKept, WaitsKept
<1>9. CASE Kill(p)
  <2>1. state'[p] = "RUNNABLE" /\ UNCHANGED <<pc, ff, todo>>
    BY Zenon, <1>9 DEF Kill, Types, ctlVars
  <2>2. Stays(p) /\ Undisturbed(p)
    BY Zenon, <1>1, <1>3, <2>1 DEF Stays, Undisturbed
  <2> QED BY Zenon, <1>3, <1>4, <2>2, ControlKept, WaitsKept
<1> QED BY Zenon, <1>5, <1>6, <1>7, <1>8, <1>9

\* A process enters read or write with one of its descriptors.
LEMMA EntersControlled ==
  ASSUME Types, RefIsDescriptors, InUse, NEW p \in Procs, NEW fd \in Fd, NEW c \in {"read", "write"},
         ofile[p][fd] # 0, file[ofile[p][fd]].writable = (c = "write"),
         UNCHANGED <<file, ofile>>, pc'[p] = c, ff'[p] = file[ofile[p][fd]], c = "write" => todo'[p] # << >>,
         state'[p] \in {"RUNNABLE", "EXITING"}
  PROVE  Controlled(p)'
<1>1. ff'[p].pipe \in Pages
  BY Zenon, Named DEF InUse
<1>2. Has(p, ff[p].pipe, pc[p] = "write")'
  BY Zenon DEF Has
<1>3. state'[p] \notin {"UNUSED", "ZOMBIE"} /\ state'[p] # "SLEEPING" /\ pc'[p] # "pipeclose"
  OBVIOUS
<1> QED BY Zenon, <1>1, <1>2, <1>3 DEF Controlled

LEMMA ControlCall ==
  ASSUME Types, RefIsDescriptors, InUse, Control, SleepersWait, NEW p \in Procs, NEW fd \in Fd,
         \/ \E n \in ReadArgs : SysRead(p, fd, n)
         \/ \E m \in Messages : SysWrite(p, fd, m)
  PROVE  Control' /\ SleepersWait'
<1>1. UNCHANGED <<file, pipe, unheard, ofile, state>>
  BY DEF SysRead, SysWrite, pageVars, procVars
<1>2. Others(p) /\ \A q \in Procs : q # p => state'[q] = state[q]
  BY DEF SysRead, SysWrite, procVars, Others, Types
<1>3. \A q \in Procs : q # p => Stays(q)
  BY Zenon, <1>1, <1>2, OthersStay
<1>4. \A q \in Procs : q # p => Undisturbed(q)
  BY Zenon, <1>1, <1>2 DEF Others, Undisturbed
<1>5. state'[p] \in {"RUNNABLE", "EXITING"} /\ ofile[p][fd] # 0 /\ ff'[p] = file[ofile[p][fd]]
  BY Zenon, <1>1 DEF SysRead, SysWrite, Enter, At, Types
<1>6. Undisturbed(p)
  BY <1>5 DEF Undisturbed
<1>7. ASSUME NEW n \in ReadArgs, SysRead(p, fd, n) PROVE Controlled(p)'
  <2>1. file[ofile[p][fd]] \in Files
    BY Zenon, <1>5, Named
  <2>2. file[ofile[p][fd]].writable = FALSE /\ pc'[p] = "read"
    BY Zenon, <1>7, <2>1 DEF SysRead, Readable, Types, Files
  <2>3. "read" \in {"read", "write"} /\ (("read" = "write") = FALSE)
    OBVIOUS
  <2> QED BY Zenon, <1>1, <1>5, <2>2, <2>3, EntersControlled
<1>8. ASSUME NEW m \in Messages, SysWrite(p, fd, m) PROVE Controlled(p)'
  <2>1. file[ofile[p][fd]] \in Files
    BY Zenon, <1>5, Named
  <2>2. file[ofile[p][fd]].writable = TRUE /\ pc'[p] = "write" /\ todo'[p] = m
    BY ZenonT(60), <1>8, <2>1 DEF SysWrite, Writable, Types, Files
  <2>3. m # << >>
    BY PipeAssumption
  <2>4. "write" \in {"read", "write"} /\ (("write" = "write") = TRUE)
    OBVIOUS
  <2> QED BY Zenon, <1>1, <1>5, <2>2, <2>3, <2>4, EntersControlled
<1> QED BY Zenon, <1>3, <1>4, <1>6, <1>7, <1>8, ControlKept, WaitsKept

\* A read wakes the writers; the readers of an empty pipe find it as it was.
LEMMA ControlRead ==
  ASSUME Types, Control, SleepersWait, NEW p \in Procs, PipeRead(p), NEW x \in Pages, ff[p].pipe = x
  PROVE  Control' /\ SleepersWait'
<1>1. Return(p) /\ Wakeup("write", x) /\ UNCHANGED <<file, free, unheard, ofile>> /\ state[p] \in {"RUNNABLE", "EXITING"}
  BY DEF PipeRead, pageVars, At
<1>2. /\ \A q \in Procs : state'[q] = state[q] \/ state'[q] = "RUNNABLE"
      /\ \A q \in Procs : state'[q] = "SLEEPING" => state[q] = "SLEEPING" /\ ~(pc[q] = "write" /\ ff[q].pipe = x)
  BY Zenon, <1>1, WakeupEffect
<1>3. /\ pc'[p] \in {"user", "exit"}
      /\ \A q \in Procs : q # p => pc'[q] = pc[q] /\ ff'[q] = ff[q] /\ todo'[q] = todo[q]
  BY Zenon, <1>1, ReturnEffect
<1>4. Others(p)
  BY Zenon, <1>2, <1>3 DEF Others
<1>5. Rests(p)
  BY Zenon, <1>1, <1>2, <1>3 DEF Rests
<1>6. Control'
  BY Zenon, <1>1, <1>4, <1>5, OthersStay, ControlKept
<1> DEFINE c == CountOf(pipe[x])
           n == Min({want[p], c})
<1>7. c \in Nat /\ n \in 0 .. c /\ OnlyPage(x, c - n)
  BY Zenon, ReadEffect
<1>8. PICK k \in Nat : OnlyPage(x, k) /\ (c = 0 => k = 0)
  BY <1>7
<1>9. ASSUME NEW q \in Procs, q # p PROVE Undisturbed(q) \/ Waits(q)'
  <2>1. CASE state'[q] = "SLEEPING" /\ ff[q].pipe = x
    <3>1. state[q] = "SLEEPING" /\ pc[q] = pc'[q] /\ ff'[q] = ff[q] /\ pc[q] # "write"
      BY ZenonT(60), <1>2, <1>3, <1>9, <2>1
    <3>2. pc[q] = "read"
      BY <3>1 DEF Control, Controlled
    <3>3. pipe[x].writeopen /\ (c = 0 \/ x \in unheard)
      BY Zenon, <2>1, <3>1, <3>2, WaitsAre DEF Waits
    <3>4. pipe'[x].writeopen /\ (CountOf(pipe'[x]) = 0 \/ x \in unheard')
      BY Zenon, <1>1, <1>8, <3>3 DEF OnlyPage, SameOpen
    <3>5. ff'[q].pipe = x /\ pc'[q] = "read" /\ pc'[q] # "write"
      BY Zenon, <2>1, <3>1, <3>2
    <3> QED BY Zenon, <3>4, <3>5 DEF Waits, CountOf
  <2>2. CASE state'[q] = "SLEEPING" /\ ff[q].pipe # x
    <3>1. state[q] = "SLEEPING" /\ pc'[q] = pc[q] /\ ff'[q] = ff[q]
      BY Zenon, <1>2, <1>3, <1>9, <2>2
    <3>2. ff[q].pipe \in Pages
      BY Zenon, <3>1 DEF Control, Controlled
    <3> QED BY Zenon, <1>1, <1>8, <2>2, <3>1, <3>2 DEF Undisturbed, OnlyPage
  <2> QED BY Zenon, <2>1, <2>2 DEF Undisturbed
<1>10. Undisturbed(p)
  BY <1>5 DEF Undisturbed, Rests
<1> QED BY Zenon, <1>6, <1>9, <1>10, WaitsKept

\* Those who sleep elsewhere.
LEMMA ElsewhereUndisturbed ==
  ASSUME Control, NEW x, \A y \in Pages : y # x => pipe'[y] = pipe[y],
         \A y : y # x /\ y \in unheard => y \in unheard',
         NEW q \in Procs, ff[q].pipe # x, state'[q] = "SLEEPING" => state[q] = "SLEEPING",
         pc'[q] = pc[q], ff'[q] = ff[q]
  PROVE  Undisturbed(q)
<1>1. CASE state'[q] # "SLEEPING"
  BY Zenon, <1>1 DEF Undisturbed
<1>2. CASE state'[q] = "SLEEPING"
  <2>1. state[q] = "SLEEPING" /\ ff[q].pipe \in Pages
    BY Zenon, <1>2 DEF Control, Controlled
  <2> QED BY Zenon, <1>2, <2>1 DEF Undisturbed
<1> QED BY Zenon, <1>1, <1>2

\* A write wakes the readers; there is no room where a writer sleeps.
LEMMA ControlWrite ==
  ASSUME Types, Control, SleepersWait, NEW p \in Procs, PipeWrite(p), NEW x \in Pages, ff[p].pipe = x
  PROVE  Control' /\ SleepersWait'
<1>1. /\ Return(p) /\ Wakeup("read", x) /\ UNCHANGED <<file, free, ofile>> /\ unheard' = unheard \ {x}
      /\ pc[p] = "write" /\ state[p] \in {"RUNNABLE", "EXITING"}
  BY DEF PipeWrite, At
<1>2. /\ \A q \in Procs : state'[q] = state[q] \/ state'[q] = "RUNNABLE"
      /\ \A q \in Procs : state'[q] = "SLEEPING" => state[q] = "SLEEPING" /\ ~(pc[q] = "read" /\ ff[q].pipe = x)
  BY Zenon, <1>1, WakeupEffect
<1>3. /\ pc'[p] \in {"user", "exit"}
      /\ \A q \in Procs : q # p => pc'[q] = pc[q] /\ ff'[q] = ff[q] /\ todo'[q] = todo[q]
  BY Zenon, <1>1, ReturnEffect
<1>4. Others(p)
  BY Zenon, <1>2, <1>3 DEF Others
<1>5. Rests(p)
  BY Zenon, <1>1, <1>2, <1>3 DEF Rests
<1>6. Control'
  BY Zenon, <1>1, <1>4, <1>5, OthersStay, ControlKept
<1> DEFINE c == CountOf(pipe[x])
           k == Len(todo[p])
<1>7. c \in Nat /\ k \in Nat /\ c + k <= PIPESIZE /\ OnlyPage(x, c + k)
  BY Zenon, WriteEffect
<1>8. k # 0
  <2>1. todo[p] # << >> /\ todo[p] \in Seq(Bytes)
    BY Zenon, <1>1 DEF Types, Control, Controlled
  <2> QED BY <2>1
<1> HIDE DEF c, k
<1>9. c # PIPESIZE
  BY SMTT(60), <1>7, <1>8, Sizes
<1>10. \A y : y # x /\ y \in unheard => y \in unheard'
  BY <1>1
<1>11. ASSUME NEW q \in Procs, q # p PROVE Undisturbed(q)
  <2>1. CASE ff[q].pipe = x
    <3>1. ASSUME state'[q] = "SLEEPING" PROVE FALSE
      <4>1. state[q] = "SLEEPING" /\ pc[q] # "read"
        BY Zenon, <1>2, <2>1, <3>1
      <4>2. pc[q] = "write"
        BY <4>1 DEF Control, Controlled
      <4>3. CountOf(pipe[x]) = PIPESIZE
        BY Zenon, <2>1, <4>1, <4>2, WaitsAre DEF Waits
      <4> QED BY Zenon, <1>9, <4>3 DEF c
    <3> QED BY Zenon, <3>1 DEF Undisturbed
  <2>2. CASE ff[q].pipe # x
    BY Zenon, <1>2, <1>3, <1>7, <1>10, <1>11, <2>2, ElsewhereUndisturbed DEF OnlyPage
  <2> QED BY Zenon, <2>1, <2>2
<1>12. Undisturbed(p)
  BY <1>5 DEF Undisturbed, Rests
<1> QED BY Zenon, <1>6, <1>11, <1>12, WaitsKept

\* A write that fills the pipe.
LEMMA FullWaits ==
  ASSUME Control, NEW x \in Pages, OnlyPage(x, PIPESIZE), NEW q \in Procs, ff'[q].pipe = x,
         state'[q] = "SLEEPING" => pc'[q] \in {"read", "write"},
         state'[q] = "SLEEPING" /\ pc'[q] = "read" => pipe[x].writeopen /\ x \in unheard',
         state'[q] = "SLEEPING" /\ pc'[q] = "write" => pipe[x].readopen
  PROVE  Waits(q)'
<1>1. CountOf(pipe'[x]) = PIPESIZE /\ pipe'[x].readopen = pipe[x].readopen /\ pipe'[x].writeopen = pipe[x].writeopen
  BY Zenon DEF OnlyPage, SameOpen
<1>2. /\ state'[q] = "SLEEPING" /\ pc'[q] = "read" => pipe'[x].writeopen /\ x \in unheard'
      /\ state'[q] = "SLEEPING" /\ pc'[q] = "write" => pipe'[x].readopen
  BY Zenon, <1>1
<1> QED BY Zenon, <1>1, <1>2 DEF Waits, CountOf

LEMMA ControlGiveUp ==
  ASSUME Types, Bounded, Control, SleepersWait, NEW p \in Procs, PipeWriteBlock(p), NEW x \in Pages, ff[p].pipe = x,
         ~pipe[x].readopen \/ killed[p]
  PROVE  Control' /\ SleepersWait'
<1>1. /\ Return(p) /\ UNCHANGED <<file, free, ofile, state>> /\ unheard' = unheard \cup {x}
      /\ pc[p] = "write" /\ state[p] \in {"RUNNABLE", "EXITING"}
  BY DEF PipeWriteBlock, At
<1>2. /\ pc'[p] \in {"user", "exit"}
      /\ \A q \in Procs : q # p => pc'[q] = pc[q] /\ ff'[q] = ff[q] /\ todo'[q] = todo[q]
  BY Zenon, <1>1, ReturnEffect
<1>3. Others(p) /\ Rests(p)
  BY Zenon, <1>1, <1>2 DEF Others, Rests
<1>4. Control'
  BY Zenon, <1>1, <1>3, OthersStay, ControlKept
<1>5. OnlyPage(x, PIPESIZE)
  BY Zenon, BlockEffect
<1>6. x \in unheard' /\ \A y : y # x /\ y \in unheard => y \in unheard'
  BY <1>1
<1>7. ASSUME NEW q \in Procs, q # p PROVE Undisturbed(q) \/ Waits(q)'
  <2>1. CASE ff[q].pipe = x
    <3>1. ff'[q].pipe = x /\ pc'[q] = pc[q] /\ state'[q] = state[q]
      BY Zenon, <1>1, <1>2, <1>7, <2>1
    <3>2. state[q] = "SLEEPING" => pc[q] \in {"read", "write"}
      BY Zenon DEF Control, Controlled
    <3>3. /\ state[q] = "SLEEPING" /\ pc[q] = "read" => pipe[x].writeopen
          /\ state[q] = "SLEEPING" /\ pc[q] = "write" => pipe[x].readopen
      BY Zenon, <2>1, WaitsAre DEF Waits
    <3> QED BY Zenon, <1>5, <1>6, <3>1, <3>2, <3>3, FullWaits
  <2>2. CASE ff[q].pipe # x
    BY Zenon, <1>1, <1>2, <1>5, <1>6, <1>7, <2>2, ElsewhereUndisturbed DEF OnlyPage
  <2> QED BY Zenon, <2>1, <2>2
<1>8. Undisturbed(p)
  BY <1>3 DEF Undisturbed, Rests
<1> QED BY Zenon, <1>4, <1>7, <1>8, WaitsKept

LEMMA ControlSleep ==
  ASSUME Types, Bounded, Control, SleepersWait, NEW p \in Procs, PipeWriteBlock(p), NEW x \in Pages, ff[p].pipe = x,
         pipe[x].readopen, ~killed[p]
  PROVE  Control' /\ SleepersWait'
<1>1. /\ UNCHANGED <<file, free, ofile, pc, ff>> /\ unheard' = unheard \ {x} /\ pc[p] = "write"
      /\ todo' = [todo EXCEPT ![p] = SubSeq(todo[p], Room(x) + 1, Len(todo[p]))]
      /\ state' = [q \in Procs |-> IF q = p THEN "SLEEPING"
                                   ELSE IF SleepsOn(q, "read", x) THEN "RUNNABLE" ELSE state[q]]
  BY Zenon DEF PipeWriteBlock, At
<1>2. /\ state'[p] = "SLEEPING" /\ \A q \in Procs : q # p => state'[q] = state[q] \/ state'[q] = "RUNNABLE"
      /\ \A q \in Procs : q # p /\ state'[q] = "SLEEPING" => state[q] = "SLEEPING" /\ ~(pc[q] = "read" /\ ff[q].pipe = x)
  BY <1>1 DEF SleepsOn
<1>3. todo'[p] # << >> /\ \A q \in Procs : q # p => todo'[q] = todo[q]
  <2> DEFINE n == Room(x)
  <2>1. n \in Nat /\ Len(todo[p]) > n
    BY Zenon, BlockEffect
  <2>2. todo[p] \in Seq(Bytes) /\ DOMAIN todo = Procs
    BY DEF Types
  <2>3. todo' = [todo EXCEPT ![p] = SubSeq(todo[p], n + 1, Len(todo[p]))]
    BY Zenon, <1>1
  <2> HIDE DEF n
  <2>4. Len(SubSeq(todo[p], n + 1, Len(todo[p]))) # 0
    BY <2>1, <2>2
  <2>5. todo'[p] = SubSeq(todo[p], n + 1, Len(todo[p])) /\ \A q \in Procs : q # p => todo'[q] = todo[q]
    BY Zenon, <2>2, <2>3
  <2>6. Len(<< >>) = 0
    OBVIOUS
  <2> QED BY Zenon, <2>4, <2>5, <2>6
<1>4. Others(p)
  BY Zenon, <1>1, <1>2, <1>3 DEF Others
<1>5. KeepsFiles(p) /\ \A q \in Procs : q # p => Stays(q)
  BY Zenon, <1>1, <1>4, OthersStay
<1>6. Stays(p)
  BY ZenonT(60), <1>1, <1>2, <1>3, <1>5 DEF Stays
<1>7. Control'
  BY Zenon, <1>5, <1>6, ControlKept
<1>8. OnlyPage(x, PIPESIZE)
  BY Zenon, BlockEffect
<1>9. \A y : y # x /\ y \in unheard => y \in unheard'
  BY <1>1
<1>10. ASSUME NEW q \in Procs PROVE Undisturbed(q) \/ Waits(q)'
  <2>1. CASE ff[q].pipe = x
    <3>1. ff'[q].pipe = x /\ pc'[q] = pc[q]
      BY Zenon, <1>1, <2>1
    <3>2. state'[q] = "SLEEPING" => pc'[q] = "write"
      BY Zenon, <1>1, <1>2, <2>1, <3>1 DEF Control, Controlled
    <3>3. /\ state'[q] = "SLEEPING" => pc'[q] \in {"read", "write"}
          /\ state'[q] = "SLEEPING" => pc'[q] # "read"
      BY Zenon, <3>2
    <3> QED BY Zenon, <1>8, <3>1, <3>3, FullWaits
  <2>2. CASE ff[q].pipe # x
    <3>1. q # p
      BY Zenon, <2>2
    <3> QED BY ZenonT(60), <1>1, <1>2, <1>8, <1>9, <2>2, <3>1, ElsewhereUndisturbed DEF OnlyPage
  <2> QED BY Zenon, <2>1, <2>2
<1> QED BY Zenon, <1>7, <1>10, WaitsKept

\* Closing an end wakes those who sleep at the other one.
LEMMA ControlClose ==
  ASSUME Types, Control, SleepersWait, NEW p \in Procs, PipeClose(p),
         NEW x \in Pages, NEW w \in BOOLEAN, ff[p].pipe = x, ff[p].writable = w
  PROVE  Control' /\ SleepersWait'
<1>1. /\ Return(p) /\ Wakeup(IF w THEN "read" ELSE "write", x) /\ UNCHANGED <<file, unheard, ofile>>
      /\ state[p] \in {"RUNNABLE", "EXITING"}
  BY DEF PipeClose, At
<1>2. /\ \A q \in Procs : state'[q] = state[q] \/ state'[q] = "RUNNABLE"
      /\ \A q \in Procs : state'[q] = "SLEEPING" =>
           state[q] = "SLEEPING" /\ ~(pc[q] = (IF w THEN "read" ELSE "write") /\ ff[q].pipe = x)
  BY Zenon, <1>1, WakeupEffect
<1>3. /\ pc'[p] \in {"user", "exit"}
      /\ \A q \in Procs : q # p => pc'[q] = pc[q] /\ ff'[q] = ff[q] /\ todo'[q] = todo[q]
  BY Zenon, <1>1, ReturnEffect
<1>4. Others(p) /\ Rests(p)
  <2>1. Rests(p)
    BY ZenonT(60), <1>1, <1>2, <1>3 DEF Rests
  <2> QED BY Zenon, <1>2, <1>3, <2>1 DEF Others
<1>5. Control'
  BY Zenon, <1>1, <1>4, OthersStay, ControlKept
<1>6. /\ \A y \in Pages : y # x => pipe'[y] = pipe[y]
      /\ Open(x, ~w) => /\ CountOf(pipe'[x]) = CountOf(pipe[x])
                        /\ pipe'[x].writeopen = (IF w THEN FALSE ELSE pipe[x].writeopen)
                        /\ pipe'[x].readopen = (IF w THEN pipe[x].readopen ELSE FALSE)
  BY Zenon, CloseEffect
<1>7. ASSUME NEW q \in Procs, q # p PROVE Undisturbed(q) \/ Waits(q)'
  <2>1. CASE ff[q].pipe = x /\ state'[q] = "SLEEPING"
    <3>1. state[q] = "SLEEPING" /\ pc'[q] = pc[q] /\ ff'[q].pipe = x
      BY Zenon, <1>2, <1>3, <1>7, <2>1
    <3>2. CASE w
      <4>1. pc[q] = "write"
        BY ZenonT(60), <1>2, <2>1, <3>2 DEF Control, Controlled
      <4>2. pipe[x].readopen /\ CountOf(pipe[x]) = PIPESIZE
        BY Zenon, <2>1, <3>1, <4>1, WaitsAre DEF Waits
      <4>3. pipe'[x].readopen /\ CountOf(pipe'[x]) = PIPESIZE
        BY ZenonT(60), <1>6, <3>2, <4>2 DEF Open
      <4>4. pc'[q] # "read"
        BY Zenon, <3>1, <4>1
      <4> QED BY Zenon, <3>1, <4>3, <4>4 DEF Waits, CountOf
    <3>3. CASE ~w
      <4>1. pc[q] = "read"
        BY ZenonT(60), <1>2, <2>1, <3>3 DEF Control, Controlled
      <4>2. pipe[x].writeopen /\ (CountOf(pipe[x]) = 0 \/ x \in unheard)
        BY Zenon, <2>1, <3>1, <4>1, WaitsAre DEF Waits
      <4>3. pipe'[x].writeopen /\ (CountOf(pipe'[x]) = 0 \/ x \in unheard')
        BY Zenon, <1>1, <1>6, <3>3, <4>2 DEF Open
      <4>4. pc'[q] # "write"
        BY Zenon, <3>1, <4>1
      <4> QED BY Zenon, <3>1, <4>3, <4>4 DEF Waits, CountOf
    <3> QED BY Zenon, <3>2, <3>3
  <2>2. CASE ff[q].pipe # x
    BY Zenon, <1>1, <1>2, <1>3, <1>6, <1>7, <2>2, ElsewhereUndisturbed
  <2> QED BY Zenon, <2>1, <2>2 DEF Undisturbed
<1>8. Undisturbed(p)
  BY <1>4 DEF Undisturbed, Rests
<1> QED BY Zenon, <1>5, <1>7, <1>8, WaitsKept

\* The steps that change descriptors.
LEMMA ControlAlloc ==
  ASSUME Types, RefIsDescriptors, Ends, Control, SleepersWait, NEW p \in Procs, NEW x \in Pages, SysPipe(p),
         NEW f0 \in File, NEW f1 \in File, NEW fd0 \in Fd, NEW fd1 \in Fd, PipeStep(p, x, f0, f1, fd0, fd1)
  PROVE  Control' /\ SleepersWait'
<1>1. /\ x \in free /\ ofile[p][fd0] = 0 /\ ofile[p][fd1] = 0 /\ ~(file[f0].ref > 0) /\ ~(file[f1].ref > 0)
      /\ UNCHANGED <<state, pc, ff, todo>> /\ unheard' = unheard \ {x}
  BY DEF PipeStep, PipeAlloc, FreeFiles, FreeFds, ctlVars
<1>2. \A f \in File : f # f0 /\ f # f1 => file'[f] = file[f]
  BY DEF PipeStep, PipeAlloc, Types
<1>3. \A q \in Procs, e \in Fd : ~(q = p /\ e \in {fd0, fd1}) => ofile'[q][e] = ofile[q][e]
  BY DEF PipeStep, Types
<1>4. ASSUME NEW q \in Procs, NEW e \in Fd, ofile[q][e] # 0
      PROVE  ofile'[q][e] = ofile[q][e] /\ file'[ofile[q][e]] = file[ofile[q][e]]
  <2>1. ofile[q][e] \in File /\ file[ofile[q][e]].ref > 0
    BY Zenon, <1>4, Named
  <2>2. file'[ofile[q][e]] = file[ofile[q][e]]
    BY ZenonT(60), <1>1, <1>2, <2>1
  <2>3. ~(q = p /\ e \in {fd0, fd1})
    BY Zenon, <1>1, <1>4
  <2> QED BY Zenon, <1>3, <2>2, <2>3
<1>5. \A q \in Procs : KeepsFiles(q)
  BY Zenon, <1>4 DEF KeepsFiles
<1>6. state[p] \in {"RUNNABLE", "EXITING"}
  BY Zenon DEF SysPipe, Enter, At
<1>7. ASSUME NEW q \in Procs PROVE Stays(q)
  <2>1. state'[q] \in {"UNUSED", "ZOMBIE"} => \A fd \in Fd : ofile'[q][fd] = ofile[q][fd]
    BY ZenonT(60), <1>1, <1>3, <1>6
  <2> QED BY ZenonT(60), <1>1, <1>5, <2>1 DEF Stays
<1>8. Control'
  BY Zenon, <1>7, ControlKept
<1>9. \A y \in Pages : y # x => pipe'[y] = pipe[y]
  BY Zenon, AllocEffect
<1>10. \A y : y # x /\ y \in unheard => y \in unheard'
  BY Zenon, <1>1
<1>11. ~pipe[x].readopen /\ ~pipe[x].writeopen
  <2>1. EndKept(x, TRUE) /\ EndKept(x, FALSE)
    BY Zenon DEF Ends
  <2> QED BY Zenon, <1>1, <2>1 DEF EndKept, Open
<1>12. ASSUME NEW q \in Procs PROVE Undisturbed(q)
  <2>1. CASE ff[q].pipe = x
    <3>1. state[q] # "SLEEPING"
      <4>1. state[q] = "SLEEPING" => pc[q] = "read" \/ pc[q] = "write"
        BY Zenon DEF Control, Controlled
      <4> QED BY Zenon, <1>11, <2>1, <4>1, WaitsAre DEF Waits
    <3> QED BY Zenon, <1>1, <3>1 DEF Undisturbed
  <2>2. CASE ff[q].pipe # x
    BY Zenon, <1>1, <1>9, <1>10, <2>2, ElsewhereUndisturbed
  <2> QED BY Zenon, <2>1, <2>2
<1> QED BY ZenonT(60), <1>8, <1>12, WaitsKept

LEMMA ControlDup ==
  ASSUME Types, RefIsDescriptors, Control, SleepersWait, NEW p \in Procs, NEW fd \in Fd, SysDup(p, fd)
  PROVE  Control' /\ SleepersWait'
<1>1. UNCHANGED <<pipe, unheard, state, pc, ff, todo>> /\ state[p] \in {"RUNNABLE", "EXITING"}
  BY DEF SysDup, pageVars, ctlVars, Enter, At
<1>2. PICK e \in Fd : ofile[p][e] = 0 /\ ofile' = [ofile EXCEPT ![p][e] = ofile[p][fd]]
  BY Zenon, DupStep
<1>3. \A q \in Procs, d \in Fd : ~(q = p /\ d = e) => ofile'[q][d] = ofile[q][d]
  BY Zenon, <1>2 DEF Types
<1>4. \A g \in File : file'[g].pipe = file[g].pipe /\ file'[g].writable = file[g].writable
  BY Zenon, RefsDup DEF SameFile
<1>5. ASSUME NEW q \in Procs PROVE Stays(q) /\ Undisturbed(q)
  <2>1. \A d \in Fd : ofile[q][d] # 0 => ofile[q][d] \in File
    BY DEF Types
  <2>2. KeepsFiles(q)
    BY Zenon, <1>2, <1>3, <1>4, <2>1 DEF KeepsFiles
  <2>3. state'[q] \in {"UNUSED", "ZOMBIE"} => \A d \in Fd : ofile'[q][d] = ofile[q][d]
    BY Zenon, <1>1, <1>3
  <2> QED BY ZenonT(60), <1>1, <2>2, <2>3 DEF Stays, Undisturbed
<1> QED BY Zenon, <1>5, ControlKept, WaitsKept

LEMMA ControlFork ==
  ASSUME Types, RefIsDescriptors, Control, SleepersWait, NEW p \in Procs, NEW r \in Procs, Fork(p, r)
  PROVE  Control' /\ SleepersWait' /\ \A fd \in Fd : ofile[r][fd] = 0
<1>1. /\ UNCHANGED <<pipe, unheard, pc, ff, todo>> /\ state[r] = "UNUSED" /\ state'[r] = "RUNNABLE"
      /\ \A q \in Procs : q # r => state'[q] = state[q] /\ ofile'[q] = ofile[q]
  BY Zenon DEF Fork, pageVars, ctlVars, Types
<1>2. \A fd \in Fd : ofile[r][fd] = 0
  BY Zenon, <1>1 DEF Control, Controlled, Idles
<1>3. \A g \in File : file'[g].pipe = file[g].pipe /\ file'[g].writable = file[g].writable
  BY ZenonT(60), <1>2, RefsFork DEF SameFile
<1>4. ASSUME NEW q \in Procs PROVE Stays(q) /\ Undisturbed(q)
  <2>1. \A d \in Fd : ofile[q][d] # 0 => ofile[q][d] \in File
    BY DEF Types
  <2>2. KeepsFiles(q)
    BY Zenon, <1>1, <1>2, <1>3, <2>1 DEF KeepsFiles
  <2>3. CASE q = r
    BY ZenonT(60), <1>1, <2>2, <2>3 DEF Stays, Undisturbed
  <2>4. CASE q # r
    <3>1. state'[q] = state[q] /\ \A d \in Fd : ofile'[q][d] = ofile[q][d]
      BY Zenon, <1>1, <2>4
    <3> QED BY Zenon, <1>1, <2>2, <3>1 DEF Stays, Undisturbed
  <2> QED BY Zenon, <2>3, <2>4
<1> QED BY Zenon, <1>2, <1>4, ControlKept, WaitsKept

LEMMA ControlFileClose ==
  ASSUME Types, RefIsDescriptors, InUse, Control, SleepersWait, NEW p \in Procs, NEW fd \in Fd, CloseStep(p, fd)
  PROVE  Control' /\ SleepersWait'
<1> DEFINE f == ofile[p][fd]
<1>1. /\ UNCHANGED <<pipe, unheard, state, todo>> /\ state[p] \in {"RUNNABLE", "EXITING"} /\ pc[p] \in {"user", "exit"}
      /\ FileClose(p, f) /\ \A q \in Procs : q # p => ofile'[q] = ofile[q]
  BY DEF CloseStep, FileClose, pageVars, Types
<1>2. f \in File /\ file[f].ref \in Nat /\ file[f].ref > 0
  BY Zenon, Named DEF CloseStep
<1>3. \A g \in File : file'[g].pipe = file[g].pipe /\ file'[g].writable = file[g].writable
  BY Zenon, RefsClose
<1>4. file[f].pipe \in Pages
  BY Zenon, <1>2 DEF InUse
<1> HIDE DEF f
<1>5. /\ \A q \in Procs : q # p => pc'[q] = pc[q] /\ ff'[q] = ff[q]
      /\ pc'[p] = pc[p] \/ (pc'[p] = "pipeclose" /\ ff'[p] = file[f])
  BY <1>1 DEF FileClose, Types
<1>6. ASSUME NEW q \in Procs, q # p PROVE Stays(q)
  <2>1. \A d \in Fd : ofile[q][d] # 0 => ofile[q][d] \in File
    BY DEF Types
  <2>2. KeepsFiles(q)
    BY Zenon, <1>1, <1>3, <1>6, <2>1 DEF KeepsFiles
  <2>3. state'[q] = state[q] /\ \A d \in Fd : ofile'[q][d] = ofile[q][d]
    BY Zenon, <1>1, <1>6
  <2> QED BY Zenon, <1>1, <1>5, <1>6, <2>2, <2>3 DEF Stays
<1>7. Rests(p) \/ Controlled(p)'
  <2>1. CASE pc'[p] = pc[p]
    BY Zenon, <1>1, <2>1 DEF Rests
  <2>2. CASE pc'[p] = "pipeclose" /\ ff'[p] = file[f]
    <3>1. state'[p] \notin {"UNUSED", "ZOMBIE"} /\ state'[p] # "SLEEPING" /\ pc'[p] \notin {"read", "write"} /\ pc'[p] # "write"
      BY Zenon, <1>1, <2>2
    <3> QED BY ZenonT(60), <1>4, <2>2, <3>1 DEF Controlled
  <2> QED BY Zenon, <1>5, <2>1, <2>2
<1>8. \A q \in Procs : Undisturbed(q)
  <2>1. state'[p] # "SLEEPING"
    BY Zenon, <1>1
  <2> QED BY Zenon, <1>1, <1>5, <2>1 DEF Undisturbed
<1> QED BY Zenon, <1>6, <1>7, <1>8, ControlKept, WaitsKept

-----------------------------------------------------------------------------
(* The invariant *)

LEMMA FilesAlone ==
  ASSUME RefIsDescriptors, UNCHANGED <<file, ofile>>
  PROVE  RefIsDescriptors' /\ \A f \in File : SameFile(f)
  BY Zenon DEF RefIsDescriptors, SameFile

LEMMA PagesAlone ==
  ASSUME Bounded, pipe' = pipe
  PROVE  Bounded' /\ SameOpen
  BY Zenon DEF Bounded, SameOpen, CountOf

LEMMA InvCalm ==
  ASSUME IInv, NEW p \in Procs,
         \/ PipeReadBlock(p) \/ Exit(p) \/ ExitZombie(p) \/ Reap(p) \/ Kill(p)
         \/ \E fd \in Fd, n \in ReadArgs : SysRead(p, fd, n)
         \/ \E fd \in Fd, m \in Messages : SysWrite(p, fd, m)
  PROVE  IInv'
<1>1. Types /\ Bounded /\ RefIsDescriptors /\ Ends /\ InUse /\ Control /\ SleepersWait
  BY Zenon DEF IInv
<1>2. UNCHANGED <<file, pipe, free, ofile>>
  BY Zenon DEF PipeReadBlock, Exit, ExitZombie, Reap, Kill, SysRead, SysWrite, pageVars, procVars
<1>3. SameClosers
  <2>1. CASE PipeReadBlock(p)
    <3>1. CASE killed[p]
      <4>1. pc[p] # "pipeclose" /\ Return(p)
        BY ZenonT(60), <2>1, <3>1 DEF PipeReadBlock, At
      <4>2. pc'[p] \in {"user", "exit"} /\ \A q \in Procs : q # p => pc'[q] = pc[q] /\ ff'[q] = ff[q]
        BY Zenon, <1>1, <4>1, ReturnEffect
      <4> QED BY ZenonT(60), <4>1, <4>2 DEF SameClosers
    <3>2. CASE ~killed[p]
      BY ZenonT(60), <2>1, <3>2 DEF PipeReadBlock, ctlVars, SameClosers
    <3> QED BY Zenon, <3>1, <3>2
  <2>2. CASE Exit(p) \/ ExitZombie(p)
    BY ZenonT(60), <1>1, <2>2 DEF Exit, ExitZombie, At, Types, SameClosers
  <2>3. CASE Reap(p) \/ Kill(p)
    BY ZenonT(60), <2>3 DEF Reap, Kill, ctlVars, SameClosers
  <2>4. CASE (\E fd \in Fd, n \in ReadArgs : SysRead(p, fd, n)) \/ (\E fd \in Fd, m \in Messages : SysWrite(p, fd, m))
    BY Zenon, <1>1, <2>4 DEF SysRead, SysWrite, Enter, At, Types, SameClosers
  <2> QED BY Zenon, <2>1, <2>2, <2>3, <2>4
<1>4. Types'
  BY Zenon, <1>1, TypesCalm
<1>5. RefIsDescriptors' /\ \A f \in File : SameFile(f)
  BY Zenon, <1>1, <1>2, FilesAlone
<1>6. Bounded' /\ SameOpen
  BY Zenon, <1>1, <1>2, PagesAlone
<1>7. Ends' /\ InUse'
  BY Zenon, <1>1, <1>2, <1>3, <1>5, <1>6, EndsSame
<1>8. Control' /\ SleepersWait'
  <2>1. CASE PipeReadBlock(p) \/ Exit(p) \/ ExitZombie(p) \/ Reap(p) \/ Kill(p)
    BY Zenon, <1>1, <2>1, ControlCalm
  <2>2. CASE (\E fd \in Fd, n \in ReadArgs : SysRead(p, fd, n)) \/ (\E fd \in Fd, m \in Messages : SysWrite(p, fd, m))
    BY Zenon, <1>1, <2>2, ControlCall
  <2> QED BY Zenon, <2>1, <2>2
<1> QED BY Zenon, <1>4, <1>5, <1>6, <1>7, <1>8 DEF IInv

LEMMA InvPage ==
  ASSUME IInv, NEW p \in Procs, PipeRead(p) \/ PipeWrite(p) \/ PipeWriteBlock(p)
  PROVE  IInv'
<1>1. Types /\ Bounded /\ RefIsDescriptors /\ Ends /\ InUse /\ Control /\ SleepersWait
  BY Zenon DEF IInv
<1>2. UNCHANGED <<file, free, ofile>> /\ pc[p] \in {"read", "write"}
  BY DEF PipeRead, PipeWrite, PipeWriteBlock, pageVars, At
<1>3. PICK x \in Pages : ff[p].pipe = x
  BY Zenon, <1>1, <1>2 DEF Control, Controlled
<1>4. SameClosers
  <2>1. pc[p] # "pipeclose" /\ (Return(p) \/ UNCHANGED <<pc, ff>>)
    BY Zenon, <1>2 DEF PipeRead, PipeWrite, PipeWriteBlock
  <2>2. CASE Return(p)
    <3>1. pc'[p] \in {"user", "exit"} /\ \A q \in Procs : q # p => pc'[q] = pc[q] /\ ff'[q] = ff[q]
      BY Zenon, <1>1, <2>2, ReturnEffect
    <3> QED BY ZenonT(60), <2>1, <3>1 DEF SameClosers
  <2>3. CASE UNCHANGED <<pc, ff>>
    BY Zenon, <2>3 DEF SameClosers
  <2> QED BY ZenonT(60), <2>1, <2>2, <2>3
<1>5. Types'
  BY Zenon, <1>1, <1>3, TypesPipe
<1>6. RefIsDescriptors' /\ \A f \in File : SameFile(f)
  BY Zenon, <1>1, <1>2, FilesAlone
<1>7. Bounded' /\ SameOpen
  BY Zenon, <1>1, <1>3, BoundedSteps
<1>8. Ends' /\ InUse'
  BY Zenon, <1>1, <1>2, <1>4, <1>6, <1>7, EndsSame
<1>9. Control' /\ SleepersWait'
  <2>1. CASE PipeRead(p)
    BY Zenon, <1>1, <1>3, <2>1, ControlRead
  <2>2. CASE PipeWrite(p)
    BY Zenon, <1>1, <1>3, <2>2, ControlWrite
  <2>3. CASE PipeWriteBlock(p)
    BY Zenon, <1>1, <1>3, <2>3, ControlGiveUp, ControlSleep
  <2> QED BY Zenon, <2>1, <2>2, <2>3
<1> QED BY Zenon, <1>5, <1>6, <1>7, <1>8, <1>9 DEF IInv

LEMMA InvClose ==
  ASSUME IInv, NEW p \in Procs, PipeClose(p)
  PROVE  IInv'
<1>1. Types /\ Bounded /\ RefIsDescriptors /\ Ends /\ InUse /\ Control /\ SleepersWait
  BY Zenon DEF IInv
<1>2. UNCHANGED <<file, ofile>> /\ pc[p] = "pipeclose"
  BY DEF PipeClose, At
<1>3. PICK x \in Pages : ff[p].pipe = x
  BY Zenon, <1>1, <1>2 DEF Control, Controlled
<1>4. PICK w \in BOOLEAN, u \in BOOLEAN : ff[p].writable = w /\ u = ~w
  BY Zenon, <1>1 DEF Types, Files
<1>5. Types' /\ Bounded'
  BY Zenon, <1>1, <1>3, TypesClose, BoundedClose
<1>6. RefIsDescriptors'
  BY Zenon, <1>1, <1>2, FilesAlone
<1>7. Ends' /\ InUse'
  BY Zenon, <1>1, <1>3, <1>4, EndsClose
<1>8. Control' /\ SleepersWait'
  BY Zenon, <1>1, <1>3, <1>4, ControlClose
<1> QED BY Zenon, <1>5, <1>6, <1>7, <1>8 DEF IInv

LEMMA InvFiles ==
  ASSUME IInv, NEW p \in Procs,
         SysPipe(p) \/ ExitClose(p) \/ (\E q \in Procs : Fork(p, q)) \/ (\E fd \in Fd : SysDup(p, fd) \/ SysClose(p, fd))
  PROVE  IInv'
<1>1. Types /\ Bounded /\ RefIsDescriptors /\ Ends /\ InUse /\ Control /\ SleepersWait
  BY Zenon DEF IInv
<1>2. CASE SysPipe(p)
  <2>1. PICK x \in Pages, f0 \in File, f1 \in File, fd0 \in Fd, fd1 \in Fd : PipeStep(p, x, f0, f1, fd0, fd1)
    BY Zenon, <1>1, <1>2, SysPipeStep
  <2>2. Types' /\ Bounded'
    BY Zenon, <1>1, <2>1, TypesPipeAlloc, BoundedAlloc
  <2>3. RefIsDescriptors'
    BY Zenon, <1>1, <2>1, RefsPipeAlloc
  <2>4. Ends' /\ InUse'
    BY Zenon, <1>1, <2>1, EndsAlloc
  <2>5. Control' /\ SleepersWait'
    BY Zenon, <1>1, <1>2, <2>1, ControlAlloc
  <2> QED BY Zenon, <2>2, <2>3, <2>4, <2>5 DEF IInv
<1>3. ASSUME NEW fd \in Fd, SysDup(p, fd) PROVE IInv'
  <2>1. UNCHANGED <<pipe, free, pc, ff>>
    BY <1>3 DEF SysDup, pageVars, ctlVars
  <2>2. Types' /\ Control' /\ SleepersWait'
    BY Zenon, <1>1, <1>3, TypesDup, ControlDup
  <2>3. RefIsDescriptors' /\ \A f \in File : SameFile(f)
    BY Zenon, <1>1, <1>3, RefsDup
  <2>4. Bounded' /\ SameOpen /\ SameClosers
    BY Zenon, <1>1, <2>1, PagesAlone DEF SameClosers
  <2>5. Ends' /\ InUse'
    BY Zenon, <1>1, <2>1, <2>3, <2>4, EndsSame
  <2> QED BY Zenon, <2>2, <2>3, <2>4, <2>5 DEF IInv
<1>4. ASSUME NEW q \in Procs, Fork(p, q) PROVE IInv'
  <2>1. UNCHANGED <<pipe, free, pc, ff>>
    BY <1>4 DEF Fork, pageVars, ctlVars
  <2>2. Types' /\ Control' /\ SleepersWait' /\ \A fd \in Fd : ofile[q][fd] = 0
    BY Zenon, <1>1, <1>4, TypesFork, ControlFork
  <2>3. RefIsDescriptors' /\ \A f \in File : SameFile(f)
    BY Zenon, <1>1, <1>4, <2>2, RefsFork
  <2>4. Bounded' /\ SameOpen /\ SameClosers
    BY Zenon, <1>1, <2>1, PagesAlone DEF SameClosers
  <2>5. Ends' /\ InUse'
    BY Zenon, <1>1, <2>1, <2>3, <2>4, EndsSame
  <2> QED BY Zenon, <2>2, <2>3, <2>4, <2>5 DEF IInv
<1>5. ASSUME ExitClose(p) \/ \E fd \in Fd : SysClose(p, fd) PROVE IInv'
  <2>1. PICK fd \in Fd : CloseStep(p, fd)
    BY Zenon, <1>1, <1>5, IsCloseStep
  <2>2. PICK f \in File : ofile[p][fd] = f
    BY ZenonT(60), <1>1, <2>1, Named DEF CloseStep
  <2>3. pipe' = pipe
    BY <2>1 DEF CloseStep
  <2>4. Types' /\ RefIsDescriptors' /\ Bounded'
    BY Zenon, <1>1, <2>1, <2>3, TypesFileClose, RefsClose, PagesAlone
  <2>5. Ends' /\ InUse'
    BY Zenon, <1>1, <2>1, <2>2, EndsFileClose
  <2>6. Control' /\ SleepersWait'
    BY Zenon, <1>1, <2>1, ControlFileClose
  <2> QED BY Zenon, <2>4, <2>5, <2>6 DEF IInv
<1> QED BY Zenon, <1>2, <1>3, <1>4, <1>5

LEMMA InvInit == Init => IInv
<1> SUFFICES ASSUME Init PROVE IInv
  OBVIOUS
<1>1. Types
  <2>1. pipe \in [Pages -> Buffer]
    BY JunkType DEF Init
  <2>2. file \in [File -> Files] /\ ff \in [Procs -> Files]
    BY NoFileType DEF Init
  <2>3. todo \in [Procs -> Seq(Bytes)]
    BY DEF Init
  <2> QED BY ZenonT(60), <2>1, <2>2, <2>3 DEF Init, Types
<1>2. Bounded
  <2>1. 0 <= PIPESIZE
    BY Sizes
  <2> QED BY Zenon, <2>1, JunkType DEF Init, Bounded
<1>3. RefIsDescriptors
  <2>1. \A f \in File : Naming(ofile, f) = {} /\ file[f].ref = 0
    <3> QED BY NoZero DEF Init, Naming, NoFile
  <2> QED BY Zenon, <2>1, FS_EmptySet, RefsAre
<1>4. (\A x \in Pages : ~pipe[x].readopen /\ ~pipe[x].writeopen) /\ (\A f \in File : ~(file[f].ref > 0)) /\ (\A q \in Procs : pc[q] = "user")
  BY DEF Init, Junk, NoFile
<1>5. Ends /\ InUse
  <2>1. \A x, w : (\A f \in File : ~Holds(f, x, w)) /\ (\A q \in Procs : ~Closes(q, x, w))
    BY <1>4 DEF Holds, Closes
  <2>2. \A x \in Pages, w \in BOOLEAN : ~Open(x, w)
    BY Zenon, <1>4 DEF Open
  <2> QED BY Zenon, <1>4, <2>1, <2>2 DEF Ends, EndKept, InUse
<1>6. (\A q \in Procs : state[q] # "SLEEPING") /\ \A q \in Procs, fd \in Fd : ofile[q][fd] = 0
  BY SMTT(60) DEF Init
<1>7. Control /\ SleepersWait
  BY ZenonT(60), <1>4, <1>6 DEF Control, Controlled, Idles, SleepersWait
<1> QED BY Zenon, <1>1, <1>2, <1>3, <1>5, <1>7 DEF IInv

LEMMA InvNext == IInv /\ [Next]_vars => IInv'
<1> SUFFICES ASSUME IInv, [Next]_vars PROVE IInv'
  BY SMTT(60)
<1>1. CASE UNCHANGED vars
  <2>1. UNCHANGED <<pipe, file, ofile, free, unheard, pc, ff, state, killed, todo, want, got>>
    BY <1>1 DEF vars, pageVars, procVars, ctlVars
  <2>2. Types'
    BY ZenonT(60), <1>1 DEF vars, pageVars, procVars, ctlVars, IInv, Types
  <2>3. Bounded' /\ InUse'
    BY <2>1 DEF IInv, Bounded, CountOf, InUse
  <2>4. RefIsDescriptors'
    BY Zenon, <2>1 DEF IInv, RefIsDescriptors
  <2>5. Ends'
    <3>1. \A f, x, w : Holds(f, x, w)' <=> Holds(f, x, w)
      BY Zenon, <2>1 DEF Holds
    <3>2. \A q, x, w : Closes(q, x, w)' <=> Closes(q, x, w)
      BY Zenon, <2>1 DEF Closes
    <3>3. \A x, w : Open(x, w)' = Open(x, w)
      BY Zenon, <2>1 DEF Open
    <3> QED BY ZenonT(60), <2>1, <3>1, <3>2, <3>3 DEF IInv, Ends, EndKept
  <2>6. Control'
    BY Zenon, <2>1 DEF IInv, Control, Controlled, Has, Idles
  <2>7. SleepersWait'
    BY ZenonT(60), <2>1 DEF IInv, SleepersWait, Count
  <2> QED BY Zenon, <2>2, <2>3, <2>4, <2>5, <2>6, <2>7 DEF IInv
<1>2. ASSUME NEW p \in Procs, Kernel(p) PROVE IInv'
  BY Zenon, <1>2, InvCalm, InvPage, InvClose, InvFiles DEF Kernel
<1>3. ASSUME NEW p \in Procs, User(p) PROVE IInv'
  <2>1. CASE SysPipe(p) \/ (\E q \in Procs : Fork(p, q)) \/ (\E fd \in Fd : SysDup(p, fd) \/ SysClose(p, fd))
    BY Zenon, <2>1, InvFiles
  <2>2. CASE \/ Exit(p) \/ Reap(p) \/ Kill(p)
             \/ \E fd \in Fd, n \in ReadArgs : SysRead(p, fd, n)
             \/ \E fd \in Fd, m \in Messages : SysWrite(p, fd, m)
    BY Zenon, <2>2, InvCalm
  <2> QED BY Zenon, <1>3, <2>1, <2>2 DEF User
<1> QED BY Zenon, <1>1, <1>2, <1>3 DEF Next

\* Descriptors keep their files, and files their ends.
LEMMA InvKeepsEnds == IInv => DescriptorsKeepEnds
<1> SUFFICES ASSUME IInv PROVE DescriptorsKeepEnds
  OBVIOUS
<1>1. Types /\ Bounded /\ RefIsDescriptors /\ Ends
  BY Zenon DEF IInv
<1>2. \A x \in Pages : {pipe[x].nread, pipe[x].nwrite} \subseteq 0 .. UINT - 1 /\ Count(x) <= PIPESIZE
  <2>1. \A x \in Pages : pipe[x].nread \in 0 .. UINT - 1 /\ pipe[x].nwrite \in 0 .. UINT - 1
    BY <1>1 DEF Types, Buffer
  <2>2. \A x \in Pages : Count(x) <= PIPESIZE
    BY Zenon, <1>1 DEF Bounded, Count, CountOf
  <2> QED BY ZenonT(60), <2>1, <2>2
<1>3. TypeOK
  BY Zenon, <1>1, <1>2 DEF TypeOK, Types, Files
<1>4. EndsOpen
  <2> SUFFICES ASSUME NEW x \in Pages, NEW w \in BOOLEAN
               PROVE  LET holders == {f \in File : file[f].ref > 0 /\ file[f].pipe = x /\ file[f].writable = w}
                          closing == {q \in Procs : pc[q] = "pipeclose" /\ ff[q].pipe = x /\ ff[q].writable = w}
                          open    == IF w THEN pipe[x].writeopen ELSE pipe[x].readopen
                      IN  /\ open <=> holders \cup closing # {}
                          /\ open => x \notin free
    BY Zenon DEF EndsOpen
  <2>1. EndKept(x, w)
    BY Zenon, <1>1 DEF Ends
  <2> QED BY Zenon, <2>1 DEF EndKept, Open, Holds, Closes
<1> QED BY Zenon, <1>1, <1>3, <1>4 DEF DescriptorsKeepEnds

LEMMA PipeInv == Spec => []IInv
  BY InvInit, InvNext, PTL DEF Spec

\* Whatever the processes do, and however often they fork, duplicate, close and
\* are killed: the count of a file is the number of descriptors that name it,
\* and an end of a pipe is open as long as something stands for it (filedup,
\* fileclose, pipeclose, fork and exit).
THEOREM PipeDescriptors == Spec => []DescriptorsKeepEnds
  BY PipeInv, InvKeepsEnds, PTL

\* Nobody sleeps in piperead or pipewrite who could go on, but for readers that
\* a killed writer left asleep.
THEOREM PipeSleepers == Spec => []SleepersWait
<1>1. IInv => SleepersWait
  BY Zenon DEF IInv
<1> QED BY <1>1, PipeInv, PTL
===========================================================================
