---------------------------- MODULE PipeChannel -----------------------------
(***************************************************************************)
(* Every page is a channel: each step of Pipe is, for each page, a step of *)
(* Channel, or changes nothing that Channel speaks of.                     *)
(***************************************************************************)
EXTENDS PipeProofs

\* What Channel sees of the page y.
Writes(y) == [q \in Procs |-> IF pc[q] = "write" /\ ff[q].pipe = y THEN todo[q] ELSE << >>]
Queue(y)  == IF y \in free THEN << >> ELSE Contents(y)
-----------------------------------------------------------------------------
(* The steps of a channel, in those words *)

LEMMA ChIdle ==
  ASSUME NEW y \in Pages, Writes(y)' = Writes(y), Queue(y)' = Queue(y), pipe'[y].readopen = pipe[y].readopen,
         got'[y] = << >>
  PROVE  C(y)!Next
  BY Zenon DEF C!Next, C!Idle, Writes, Queue

LEMMA ChTake ==
  ASSUME NEW y \in Pages, Writes(y)' = Writes(y), pipe'[y].readopen = pipe[y].readopen,
         NEW k \in 1 .. Len(Queue(y)), got'[y] = SubSeq(Queue(y), 1, k),
         Queue(y)' = SubSeq(Queue(y), k + 1, Len(Queue(y)))
  PROVE  C(y)!Next
  BY Zenon DEF C!Next, C!Take, C!Prefix, C!Rest, Writes, Queue

LEMMA ChBegin ==
  ASSUME NEW y \in Pages, NEW p \in Procs, Writes(y)[p] = << >>, NEW m \in Messages,
         Writes(y)' = [Writes(y) EXCEPT ![p] = m], Queue(y)' = Queue(y), pipe'[y].readopen = pipe[y].readopen,
         got'[y] = << >>
  PROVE  C(y)!Next
  BY Zenon DEF C!Next, C!Begin, Writes, Queue

LEMMA ChPut ==
  ASSUME NEW y \in Pages, NEW p \in Procs, NEW k \in 1 .. Len(Writes(y)[p]),
         Queue(y)' = Queue(y) \o SubSeq(Writes(y)[p], 1, k), Len(Queue(y)') <= PIPESIZE,
         Writes(y)' = [Writes(y) EXCEPT ![p] = SubSeq(Writes(y)[p], k + 1, Len(Writes(y)[p]))],
         pipe'[y].readopen = pipe[y].readopen, got'[y] = << >>
  PROVE  C(y)!Next
  BY Zenon DEF C!Next, C!Put, C!Prefix, C!Rest, Writes, Queue

LEMMA ChGiveUp ==
  ASSUME NEW y \in Pages, NEW p \in Procs, NEW k \in 0 .. Len(Writes(y)[p]),
         Queue(y)' = Queue(y) \o SubSeq(Writes(y)[p], 1, k), Len(Queue(y)') <= PIPESIZE,
         Writes(y)' = [Writes(y) EXCEPT ![p] = << >>],
         pipe'[y].readopen = pipe[y].readopen, got'[y] = << >>
  PROVE  C(y)!Next
  BY Zenon DEF C!Next, C!GiveUp, C!Prefix, Writes, Queue

LEMMA ChOpen ==
  ASSUME NEW y \in Pages, Writes(y)' = Writes(y), Queue(y)' = Queue(y), got'[y] = << >>,
         ~pipe[y].readopen, pipe'[y].readopen = TRUE
  PROVE  C(y)!Next
  BY Zenon DEF C!Next, C!Open, Writes, Queue

LEMMA ChClose ==
  ASSUME NEW y \in Pages, Writes(y)' = Writes(y), Queue(y)' = Queue(y) \/ Queue(y)' = << >>, got'[y] = << >>,
         pipe[y].readopen, pipe'[y].readopen = FALSE
  PROVE  C(y)!Next
  BY Zenon DEF C!Next, C!Close, Writes, Queue

LEMMA ChFree ==
  ASSUME NEW y \in Pages, Writes(y)' = Writes(y), Queue(y)' = << >>, got'[y] = << >>,
         ~pipe[y].readopen, pipe'[y].readopen = pipe[y].readopen
  PROVE  C(y)!Next
  BY Zenon DEF C!Next, C!Free, Writes, Queue

-----------------------------------------------------------------------------
(* What a step leaves alone *)

LEMMA QueueIs ==
  /\ \A y : Contents(y) = ContentsOf(pipe[y])
  /\ \A y \in Pages : y \notin free => Queue(y) = ContentsOf(pipe[y])
  /\ \A y \in Pages : y \notin free' => Queue(y)' = ContentsOf(pipe'[y])
  BY Zenon DEF Queue, Contents, ContentsOf, Count, CountOf, Index

LEMMA QueueSame ==
  ASSUME NEW y \in Pages, pipe'[y] = pipe[y], y \in free' <=> y \in free
  PROVE  Queue(y)' = Queue(y)
  BY Zenon DEF Queue, Contents, Count

SameWriters ==
  \A q \in Procs : /\ pc'[q] = "write" <=> pc[q] = "write"
                   /\ pc[q] = "write" => ff'[q] = ff[q] /\ todo'[q] = todo[q]

LEMMA WritesSame ==
  ASSUME SameWriters, NEW y \in Pages
  PROVE  Writes(y)' = Writes(y)
  BY Zenon DEF Writes, SameWriters

\* The pages other than the one that p works on.
LEMMA WritesElsewhere ==
  ASSUME NEW p \in Procs, NEW y \in Pages,
         \A q \in Procs : q # p => pc'[q] = pc[q] /\ ff'[q] = ff[q] /\ todo'[q] = todo[q],
         ~(pc[p] = "write" /\ ff[p].pipe = y), ~(pc'[p] = "write" /\ ff'[p].pipe = y)
  PROVE  Writes(y)' = Writes(y)
<1>1. ASSUME NEW q \in Procs
      PROVE  (IF pc'[q] = "write" /\ ff'[q].pipe = y THEN todo'[q] ELSE << >>)
               = IF pc[q] = "write" /\ ff[q].pipe = y THEN todo[q] ELSE << >>
  BY Zenon
<1> QED BY Zenon, <1>1 DEF Writes

\* The page that p writes to, or begins to write to.
LEMMA WritesHere ==
  ASSUME NEW p \in Procs, NEW y \in Pages,
         \A q \in Procs : q # p => pc'[q] = pc[q] /\ ff'[q] = ff[q] /\ todo'[q] = todo[q]
  PROVE  Writes(y)' = [Writes(y) EXCEPT ![p] = IF pc'[p] = "write" /\ ff'[p].pipe = y THEN todo'[p] ELSE << >>]
<1> DEFINE V(q) == IF pc[q] = "write" /\ ff[q].pipe = y THEN todo[q] ELSE << >>
           W(q) == IF pc'[q] = "write" /\ ff'[q].pipe = y THEN todo'[q] ELSE << >>
<1>1. \A q \in Procs : q # p => W(q) = V(q)
  BY Zenon
<1>2. Writes(y) = [q \in Procs |-> V(q)] /\ Writes(y)' = [q \in Procs |-> W(q)]
  BY Zenon DEF Writes
<1> HIDE DEF V, W
<1>3. Writes(y)' = [Writes(y) EXCEPT ![p] = W(p)]
  BY <1>1, <1>2
<1> QED BY Zenon, <1>3 DEF W

\* Who reads or writes has a page that is in use.
LEMMA HasOpen ==
  ASSUME Types, RefIsDescriptors, Ends, Control, NEW p \in Procs, pc[p] \in {"read", "write"},
         NEW x \in Pages, ff[p].pipe = x
  PROVE  x \notin free
<1>1. PICK w \in BOOLEAN : w = (pc[p] = "write") /\ Has(p, x, w)
  BY Zenon DEF Control, Controlled
<1>2. PICK fd \in Fd : ofile[p][fd] # 0 /\ file[ofile[p][fd]].pipe = x /\ file[ofile[p][fd]].writable = w
  BY Zenon, <1>1 DEF Has
<1>3. ofile[p][fd] \in File /\ file[ofile[p][fd]].ref > 0
  BY Zenon, <1>2, Named
<1>4. Holds(ofile[p][fd], x, w)
  BY Zenon, <1>2, <1>3 DEF Holds
<1>5. EndKept(x, w)
  BY Zenon DEF Ends
<1> QED BY Zenon, <1>3, <1>4, <1>5 DEF EndKept

\* A page that a step leaves alone.
LEMMA ChSame ==
  ASSUME NEW y \in Pages, pipe'[y] = pipe[y], y \in free' <=> y \in free, Writes(y)' = Writes(y), got'[y] = << >>
  PROVE  C(y)!Next
  BY Zenon, QueueSame, ChIdle

LEMMA NothingYet == \A y \in Pages : Nothing[y] = << >>
  BY DEF Nothing

-----------------------------------------------------------------------------
(* The steps *)

\* The steps that do not touch a page.
LEMMA ChannelCalm ==
  ASSUME IInv, NEW p \in Procs, got' = Nothing,
         \/ PipeReadBlock(p) \/ Exit(p) \/ ExitZombie(p) \/ Reap(p) \/ Kill(p)
         \/ \E fd \in Fd, n \in ReadArgs : SysRead(p, fd, n)
         \/ ExitClose(p) \/ (\E q \in Procs : Fork(p, q)) \/ (\E fd \in Fd : SysDup(p, fd) \/ SysClose(p, fd))
  PROVE  \A y \in Pages : C(y)!Next
<1>1. Types
  BY Zenon DEF IInv
<1>2. UNCHANGED <<pipe, free>> /\ SameWriters
  <2>1. CASE PipeReadBlock(p)
    <3>1. CASE killed[p]
      <4>1. pc[p] = "read" /\ Return(p) /\ UNCHANGED <<pipe, free>>
        BY Zenon, <2>1, <3>1 DEF PipeReadBlock, At, pageVars
      <4>2. pc'[p] \in {"user", "exit"} /\ \A q \in Procs : q # p => pc'[q] = pc[q] /\ ff'[q] = ff[q] /\ todo'[q] = todo[q]
        BY Zenon, <1>1, <4>1, ReturnEffect
      <4> QED BY Zenon, <4>1, <4>2 DEF SameWriters
    <3>2. CASE ~killed[p]
      BY ZenonT(60), <2>1, <3>2 DEF PipeReadBlock, ctlVars, pageVars, SameWriters
    <3> QED BY Zenon, <3>1, <3>2
  <2>2. CASE Exit(p) \/ ExitZombie(p)
    BY ZenonT(60), <1>1, <2>2 DEF Exit, ExitZombie, At, Types, pageVars, SameWriters
  <2>3. CASE Reap(p) \/ Kill(p) \/ (\E q \in Procs : Fork(p, q)) \/ (\E fd \in Fd : SysDup(p, fd))
    BY Zenon, <2>3 DEF Reap, Kill, Fork, SysDup, ctlVars, pageVars, SameWriters
  <2>4. CASE \E fd \in Fd, n \in ReadArgs : SysRead(p, fd, n)
    <3>1. pc \in [Procs -> {"user", "read", "write", "pipeclose", "exit"}] /\ ff \in [Procs -> Files]
      BY Zenon, <1>1 DEF Types
    <3> QED BY ZenonT(60), <2>4, <3>1 DEF SysRead, Enter, At, pageVars, SameWriters
  <2>5. CASE ExitClose(p) \/ \E fd \in Fd : SysClose(p, fd)
    <3>1. PICK fd \in Fd : CloseStep(p, fd)
      BY Zenon, <1>1, <2>5, IsCloseStep
    <3>2. UNCHANGED <<pipe, free>> /\ FileClose(p, ofile[p][fd]) /\ pc[p] # "write"
      BY Zenon, <3>1 DEF CloseStep, pageVars
    <3> QED BY Zenon, <1>1, <3>2 DEF FileClose, SameWriters, Types
  <2> QED BY Zenon, <2>1, <2>2, <2>3, <2>4, <2>5
<1> TAKE y \in Pages
<1> QED BY Zenon, <1>2, WritesSame, ChSame, NothingYet

LEMMA ChannelBegin ==
  ASSUME IInv, NEW p \in Procs, got' = Nothing, NEW fd \in Fd, NEW m \in Messages, SysWrite(p, fd, m)
  PROVE  \A y \in Pages : C(y)!Next
<1>1. Types
  BY Zenon DEF IInv
<1>2. /\ UNCHANGED <<pipe, free>> /\ pc[p] # "write" /\ pc'[p] = "write" /\ todo'[p] = m
      /\ \A q \in Procs : q # p => pc'[q] = pc[q] /\ ff'[q] = ff[q] /\ todo'[q] = todo[q]
  BY Zenon, <1>1 DEF SysWrite, pageVars, Enter, At, Types
<1> TAKE y \in Pages
<1>3. CASE ff'[p].pipe = y
  <2>1. Writes(y)' = [Writes(y) EXCEPT ![p] = IF pc'[p] = "write" /\ ff'[p].pipe = y THEN todo'[p] ELSE << >>]
    BY Zenon, <1>2, WritesHere
  <2>2. Writes(y)' = [Writes(y) EXCEPT ![p] = m] /\ Writes(y)[p] = << >>
    BY Zenon, <1>2, <1>3, <2>1 DEF Writes
  <2>3. Queue(y)' = Queue(y) /\ pipe'[y].readopen = pipe[y].readopen /\ got'[y] = << >>
    BY Zenon, <1>2, QueueSame, NothingYet
  <2> QED BY Zenon, <2>2, <2>3, ChBegin
<1>4. CASE ff'[p].pipe # y
  BY Zenon, <1>2, <1>4, WritesElsewhere, ChSame, NothingYet
<1> QED BY Zenon, <1>3, <1>4

\* The bytes that a read returns are the oldest ones.
LEMMA ChannelTake ==
  ASSUME IInv, NEW p \in Procs, PipeRead(p)
  PROVE  \A y \in Pages : C(y)!Next
<1>1. Types /\ Bounded /\ RefIsDescriptors /\ Ends /\ Control
  BY Zenon DEF IInv
<1>2. Return(p) /\ UNCHANGED free /\ pc[p] = "read"
  BY DEF PipeRead, pageVars, At
<1>3. PICK x \in Pages : ff[p].pipe = x
  BY ZenonT(60), <1>1, <1>2 DEF Control, Controlled
<1>4. PICK n \in Nat : n = Min({want[p], CountOf(pipe[x])}) /\ n \in 0 .. CountOf(pipe[x])
  BY SMTT(30), <1>1, <1>3, ReadEffect
<1>5. /\ CountOf(pipe[x]) \in Nat /\ OnlyPage(x, CountOf(pipe[x]) - n)
      /\ ContentsOf(pipe'[x]) = SubSeq(ContentsOf(pipe[x]), n + 1, Len(ContentsOf(pipe[x])))
  BY Zenon, <1>1, <1>3, <1>4, ReadEffect
<1>6. got' = [Nothing EXCEPT ![x] = SubSeq(ContentsOf(pipe[x]), 1, n)]
  BY Zenon, <1>3, <1>4, QueueIs DEF PipeRead, Count, CountOf
<1>7. got'[x] = SubSeq(ContentsOf(pipe[x]), 1, n) /\ \A y \in Pages : y # x => got'[y] = << >>
  BY Zenon, <1>6 DEF Nothing
<1>8. x \notin free /\ x \notin free'
  BY Zenon, <1>1, <1>2, <1>3, HasOpen
<1>9. Queue(x) = ContentsOf(pipe[x]) /\ Queue(x)' = ContentsOf(pipe'[x])
  BY Zenon, <1>8, QueueIs
<1>10. SameWriters
  <2>1. pc'[p] \in {"user", "exit"} /\ \A q \in Procs : q # p => pc'[q] = pc[q] /\ ff'[q] = ff[q] /\ todo'[q] = todo[q]
    BY Zenon, <1>1, <1>2, ReturnEffect
  <2> QED BY Zenon, <1>2, <2>1 DEF SameWriters
<1>11. ContentsOf(pipe[x]) \in Seq(Bytes \cup {Null}) /\ Len(ContentsOf(pipe[x])) = CountOf(pipe[x])
  <2>1. pipe[x] \in Buffer
    BY Zenon, <1>1 DEF Types
  <2> QED BY ZenonT(60), <2>1, ContentsType
<1> TAKE y \in Pages
<1>12. Writes(y)' = Writes(y) /\ pipe'[y].readopen = pipe[y].readopen
  BY Zenon, <1>5, <1>10, WritesSame DEF OnlyPage, SameOpen
<1>13. CASE y # x
  BY Zenon, <1>2, <1>5, <1>7, <1>12, <1>13, ChSame DEF OnlyPage
<1>14. CASE y = x
  <2> DEFINE s == ContentsOf(pipe[x])
  <2>1. s \in Seq(Bytes \cup {Null}) /\ Len(s) = CountOf(pipe[x]) /\ Queue(x) = s
    BY Zenon, <1>9, <1>11
  <2>2. CASE n = 0
    <3> HIDE DEF s
    <3>1. SubSeq(s, 1, n) = << >> /\ SubSeq(s, n + 1, Len(s)) = s
      BY Zenon, <2>1, <2>2, SeqCuts
    <3>2. got'[x] = << >> /\ Queue(x)' = Queue(x)
      BY Zenon, <1>5, <1>7, <1>9, <3>1 DEF s
    <3> QED BY Zenon, <1>12, <1>14, <3>2, ChIdle
  <2>3. CASE n # 0
    <3>1. n \in 1 .. Len(Queue(x))
      BY <1>4, <1>5, <2>1, <2>3
    <3>2. got'[x] = SubSeq(Queue(x), 1, n) /\ Queue(x)' = SubSeq(Queue(x), n + 1, Len(Queue(x)))
      BY Zenon, <1>5, <1>7, <1>9
    <3> QED BY Zenon, <1>12, <1>14, <3>1, <3>2, ChTake
  <2> QED BY Zenon, <2>2, <2>3
<1> QED BY Zenon, <1>13, <1>14

\* A write hands its bytes over at the end of the queue.
LEMMA ChannelWrite ==
  ASSUME IInv, NEW p \in Procs, PipeWrite(p), got' = Nothing
  PROVE  \A y \in Pages : C(y)!Next
<1>1. Types /\ Bounded /\ RefIsDescriptors /\ Ends /\ Control
  BY Zenon DEF IInv
<1>2. Return(p) /\ UNCHANGED free /\ pc[p] = "write"
  BY DEF PipeWrite, At
<1>3. PICK x \in Pages : ff[p].pipe = x
  BY Zenon, <1>1, <1>2 DEF Control, Controlled
<1>4. PICK s \in Seq(Bytes) : s = todo[p] /\ s # << >>
  BY Zenon, <1>1, <1>2 DEF Types, Control, Controlled
<1>5. /\ CountOf(pipe[x]) \in Nat /\ CountOf(pipe[x]) + Len(s) <= PIPESIZE
      /\ OnlyPage(x, CountOf(pipe[x]) + Len(s)) /\ ContentsOf(pipe'[x]) = ContentsOf(pipe[x]) \o s
  BY Zenon, <1>1, <1>3, <1>4, WriteEffect
<1>6. x \notin free /\ x \notin free'
  BY Zenon, <1>1, <1>2, <1>3, HasOpen
<1>7. Queue(x) = ContentsOf(pipe[x]) /\ Queue(x)' = ContentsOf(pipe'[x])
  BY Zenon, <1>6, QueueIs
<1>8. pc'[p] # "write" /\ \A q \in Procs : q # p => pc'[q] = pc[q] /\ ff'[q] = ff[q] /\ todo'[q] = todo[q]
  <2>1. pc'[p] \in {"user", "exit"} /\ \A q \in Procs : q # p => pc'[q] = pc[q] /\ ff'[q] = ff[q] /\ todo'[q] = todo[q]
    BY Zenon, <1>1, <1>2, ReturnEffect
  <2> QED BY Zenon, <2>1
<1> TAKE y \in Pages
<1>9. CASE y # x
  <2>1. Writes(y)' = Writes(y)
    BY Zenon, <1>3, <1>8, <1>9, WritesElsewhere
  <2> QED BY Zenon, <1>2, <1>5, <1>9, <2>1, ChSame, NothingYet DEF OnlyPage
<1>10. CASE y = x
  <2>1. Writes(x)[p] = s
    BY Zenon, <1>2, <1>3, <1>4 DEF Writes
  <2>2. Len(s) \in 1 .. Len(s) /\ SubSeq(s, 1, Len(s)) = s /\ SubSeq(s, Len(s) + 1, Len(s)) = << >>
    BY SMTT(60), <1>4, SeqCuts
  <2>3. Writes(x)' = [Writes(x) EXCEPT ![p] = IF pc'[p] = "write" /\ ff'[p].pipe = x THEN todo'[p] ELSE << >>]
    BY Zenon, <1>8, WritesHere
  <2>4. Writes(x)' = [Writes(x) EXCEPT ![p] = SubSeq(Writes(x)[p], Len(s) + 1, Len(Writes(x)[p]))]
    BY Zenon, <1>8, <2>1, <2>2, <2>3
  <2>5. Queue(x)' = Queue(x) \o SubSeq(Writes(x)[p], 1, Len(s))
    BY Zenon, <1>5, <1>7, <2>1, <2>2
  <2>6. Len(Queue(x)') <= PIPESIZE
    <3>1. pipe'[x] \in Buffer
      BY ZenonT(60), <1>1, <1>3, TypesPipe DEF Types
    <3>2. Len(Queue(x)') = CountOf(pipe[x]) + Len(s)
      BY Zenon, <1>5, <1>7, <3>1, ContentsType DEF OnlyPage
    <3> QED BY ZenonT(60), <1>5, <3>2
  <2>7. pipe'[x].readopen = pipe[x].readopen /\ got'[x] = << >>
    BY Zenon, <1>5, NothingYet DEF OnlyPage, SameOpen
  <2> QED BY Zenon, <1>10, <2>1, <2>2, <2>4, <2>5, <2>6, <2>7, ChPut
<1> QED BY Zenon, <1>9, <1>10

\* A write that fills the pipe: it sleeps with the rest, or gives up.
LEMMA ChannelBlock ==
  ASSUME IInv, NEW p \in Procs, PipeWriteBlock(p), got' = Nothing
  PROVE  \A y \in Pages : C(y)!Next
<1>1. Types /\ Bounded /\ RefIsDescriptors /\ Ends /\ Control
  BY Zenon DEF IInv
<1>2. UNCHANGED free /\ pc[p] = "write"
  BY DEF PipeWriteBlock, At
<1>3. PICK x \in Pages : ff[p].pipe = x
  BY Zenon, <1>1, <1>2 DEF Control, Controlled
<1>4. PICK s \in Seq(Bytes) : s = todo[p]
  BY Zenon, <1>1 DEF Types
<1>5. PICK n \in Nat : n = Room(x) /\ Len(s) > n /\ ContentsOf(pipe'[x]) = ContentsOf(pipe[x]) \o SubSeq(s, 1, n)
  BY Zenon, <1>1, <1>3, <1>4, BlockEffect
<1>6. OnlyPage(x, PIPESIZE)
  BY Zenon, <1>1, <1>3, BlockEffect
<1>7. x \notin free /\ x \notin free'
  BY Zenon, <1>1, <1>2, <1>3, HasOpen
<1>8. Queue(x) = ContentsOf(pipe[x]) /\ Queue(x)' = ContentsOf(pipe'[x])
  BY Zenon, <1>7, QueueIs
<1>9. /\ \A q \in Procs : q # p => pc'[q] = pc[q] /\ ff'[q] = ff[q] /\ todo'[q] = todo[q]
      /\ \/ pc'[p] # "write"
         \/ pc'[p] = "write" /\ ff'[p].pipe = x /\ todo'[p] = SubSeq(s, n + 1, Len(s))
  <2>1. CASE ~pipe[x].readopen \/ killed[p]
    <3>1. Return(p)
      BY ZenonT(60), <1>3, <2>1 DEF PipeWriteBlock
    <3>2. pc'[p] \in {"user", "exit"} /\ \A q \in Procs : q # p => pc'[q] = pc[q] /\ ff'[q] = ff[q] /\ todo'[q] = todo[q]
      BY Zenon, <1>1, <3>1, ReturnEffect
    <3> QED BY Zenon, <3>2
  <2>2. CASE ~(~pipe[x].readopen \/ killed[p])
    <3>1. UNCHANGED <<pc, ff>> /\ todo' = [todo EXCEPT ![p] = SubSeq(todo[p], Room(x) + 1, Len(todo[p]))]
      BY Zenon, <1>3, <2>2 DEF PipeWriteBlock
    <3>2. todo' = [todo EXCEPT ![p] = SubSeq(s, n + 1, Len(s))] /\ DOMAIN todo = Procs
      BY Zenon, <1>1, <1>4, <1>5, <3>1 DEF Types
    <3>3. todo'[p] = SubSeq(s, n + 1, Len(s)) /\ \A q \in Procs : q # p => todo'[q] = todo[q]
      BY Zenon, <3>2
    <3> QED BY Zenon, <1>2, <1>3, <3>1, <3>3
  <2> QED BY ZenonT(60), <2>1, <2>2
<1> TAKE y \in Pages
<1>10. pipe'[y].readopen = pipe[y].readopen /\ got'[y] = << >>
  BY Zenon, <1>6, NothingYet DEF OnlyPage, SameOpen
<1>11. CASE y # x
  <2>1. Writes(y)' = Writes(y)
    BY Zenon, <1>3, <1>9, <1>11, WritesElsewhere
  <2> QED BY Zenon, <1>2, <1>6, <1>10, <1>11, <2>1, ChSame DEF OnlyPage
<1>12. CASE y = x
  <2>1. Writes(x)[p] = s
    BY Zenon, <1>2, <1>3, <1>4 DEF Writes
  <2>2. Writes(x)' = [Writes(x) EXCEPT ![p] = IF pc'[p] = "write" /\ ff'[p].pipe = x THEN todo'[p] ELSE << >>]
    BY Zenon, <1>9, WritesHere
  <2>3. Queue(x)' = Queue(x) \o SubSeq(Writes(x)[p], 1, n)
    BY Zenon, <1>5, <1>8, <2>1
  <2>4. Len(Queue(x)') <= PIPESIZE
    <3>1. pipe'[x] \in Buffer
      BY ZenonT(60), <1>1, <1>3, TypesPipe DEF Types
    <3>2. Len(Queue(x)') = PIPESIZE
      BY Zenon, <1>6, <1>8, <3>1, ContentsType DEF OnlyPage
    <3>3. PIPESIZE <= PIPESIZE
      BY Sizes
    <3> QED BY Zenon, <3>2, <3>3
  <2>5. n \in 0 .. Len(s) /\ (n # 0 => n \in 1 .. Len(s))
    BY <1>4, <1>5
  <2>6. CASE pc'[p] # "write"
    <3>1. Writes(x)' = [Writes(x) EXCEPT ![p] = << >>]
      BY Zenon, <2>2, <2>6
    <3> QED BY Zenon, <1>10, <1>12, <2>1, <2>3, <2>4, <2>5, <3>1, ChGiveUp
  <2>7. CASE pc'[p] = "write" /\ ff'[p].pipe = x /\ todo'[p] = SubSeq(s, n + 1, Len(s))
    <3>1. Writes(x)' = [Writes(x) EXCEPT ![p] = SubSeq(Writes(x)[p], n + 1, Len(Writes(x)[p]))]
      BY Zenon, <2>1, <2>2, <2>7
    <3>2. CASE n # 0
      BY Zenon, <1>10, <1>12, <2>1, <2>3, <2>4, <2>5, <3>1, <3>2, ChPut
    <3>3. CASE n = 0
      <4>1. SubSeq(s, 1, n) = << >> /\ SubSeq(s, n + 1, Len(s)) = s
        BY Zenon, <1>4, <3>3, SeqCuts
      <4>2. Queue(x) \in Seq(Bytes \cup {Null})
        <5>1. pipe[x] \in Buffer
          BY Zenon, <1>1 DEF Types
        <5> QED BY ZenonT(60), <1>8, <5>1, ContentsType
      <4>3. Queue(x) \o << >> = Queue(x)
        BY Zenon, <4>2, SeqCuts
      <4>4. Queue(x)' = Queue(x)
        BY Zenon, <2>1, <2>3, <4>1, <4>3
      <4>5. Writes(x)' = Writes(x)
        <5>1. Writes(x)' = [Writes(x) EXCEPT ![p] = Writes(x)[p]]
          BY Zenon, <2>1, <3>1, <4>1
        <5>2. Writes(x) = [q \in Procs |-> Writes(x)[q]]
          BY Zenon DEF Writes
        <5> QED BY Zenon, <5>1, <5>2
      <4> QED BY Zenon, <1>10, <1>12, <4>4, <4>5, ChIdle
    <3> QED BY Zenon, <3>2, <3>3
  <2> QED BY Zenon, <1>9, <2>6, <2>7
<1> QED BY Zenon, <1>11, <1>12

\* A new pipe.
LEMMA ChannelOpen ==
  ASSUME IInv, NEW p \in Procs, SysPipe(p), got' = Nothing
  PROVE  \A y \in Pages : C(y)!Next
<1>1. Types /\ Ends
  BY Zenon DEF IInv
<1>2. PICK x \in Pages, f0 \in File, f1 \in File, fd0 \in Fd, fd1 \in Fd : PipeStep(p, x, f0, f1, fd0, fd1)
  BY ZenonT(60), <1>1, SysPipeStep
<1>3. UNCHANGED <<pc, ff, todo>> /\ x \in free /\ free' = free \ {x}
  BY Zenon, <1>2 DEF PipeStep, PipeAlloc, ctlVars
<1>4. /\ \A y \in Pages : y # x => pipe'[y] = pipe[y]
      /\ pipe'[x].readopen /\ pipe'[x].writeopen /\ CountOf(pipe'[x]) = 0
  BY Zenon, <1>1, <1>2, AllocEffect
<1>5. pipe'[x] \in Buffer
  BY ZenonT(60), <1>1, <1>2, TypesPipeAlloc DEF Types
<1>6. ~pipe[x].readopen
  <2>1. EndKept(x, FALSE)
    BY Zenon, <1>1 DEF Ends
  <2> QED BY ZenonT(60), <1>3, <2>1 DEF EndKept, Open
<1>7. SameWriters
  BY Zenon, <1>3 DEF SameWriters
<1> TAKE y \in Pages
<1>8. Writes(y)' = Writes(y) /\ got'[y] = << >>
  BY Zenon, <1>7, WritesSame, NothingYet
<1>9. CASE y = x
  <2>1. Queue(x) = << >>
    BY Zenon, <1>3 DEF Queue
  <2>2. Queue(x)' = << >>
    <3>1. x \notin free'
      BY Zenon, <1>3
    <3>2. Queue(x)' = ContentsOf(pipe'[x])
      BY Zenon, <3>1, QueueIs
    <3>3. ContentsOf(pipe'[x]) \in Seq(Bytes \cup {Null}) /\ Len(ContentsOf(pipe'[x])) = 0
      BY Zenon, <1>4, <1>5, ContentsType
    <3> QED BY Zenon, <3>2, <3>3, SeqCuts
  <2>3. pipe'[x].readopen = TRUE
    BY Zenon, <1>4, <1>5 DEF Buffer
  <2> QED BY Zenon, <1>6, <1>8, <1>9, <2>1, <2>2, <2>3, ChOpen
<1>10. CASE y # x
  <2>1. y \in free' <=> y \in free
    BY ZenonT(60), <1>3, <1>10
  <2> QED BY Zenon, <1>4, <1>8, <1>10, <2>1, ChSame
<1> QED BY Zenon, <1>9, <1>10

\* The end that is closed; with the second one the bytes are gone.
LEMMA ChannelClose ==
  ASSUME IInv, NEW p \in Procs, PipeClose(p), got' = Nothing
  PROVE  \A y \in Pages : C(y)!Next
<1>1. Types /\ Ends /\ Control
  BY Zenon DEF IInv
<1>2. Return(p) /\ pc[p] = "pipeclose"
  BY DEF PipeClose, At
<1>3. PICK x \in Pages : ff[p].pipe = x
  BY Zenon, <1>1, <1>2 DEF Control, Controlled
<1>4. PICK w \in BOOLEAN : ff[p].writable = w
  BY Zenon, <1>1 DEF Types, Files
<1>5. /\ \A y \in Pages : y # x => pipe'[y] = pipe[y]
      /\ ~Open(x, ~w) => pipe'[x] = Junk /\ free' = free \cup {x}
      /\ Open(x, ~w) => /\ free' = free /\ ContentsOf(pipe'[x]) = ContentsOf(pipe[x])
                        /\ pipe'[x].readopen = (IF w THEN pipe[x].readopen ELSE FALSE)
  BY Zenon, <1>1, <1>3, <1>4, CloseEffect
<1>6. Open(x, w) /\ x \notin free
  <2>1. EndKept(x, w) /\ Closes(p, x, w)
    BY Zenon, <1>1, <1>2, <1>3, <1>4 DEF Ends, Closes
  <2> QED BY Zenon, <2>1 DEF EndKept
<1>7. SameWriters
  <2>1. pc'[p] \in {"user", "exit"} /\ \A q \in Procs : q # p => pc'[q] = pc[q] /\ ff'[q] = ff[q] /\ todo'[q] = todo[q]
    BY Zenon, <1>1, <1>2, ReturnEffect
  <2>2. pc[p] = "pipeclose" /\ "pipeclose" # "write" /\ "user" # "write" /\ "exit" # "write"
    BY Zenon, <1>2
  <2> QED BY Zenon, <2>1, <2>2 DEF SameWriters
<1>8. Junk.readopen = FALSE
  BY DEF Junk
<1> TAKE y \in Pages
<1>9. Writes(y)' = Writes(y) /\ got'[y] = << >>
  BY Zenon, <1>7, WritesSame, NothingYet
<1>10. CASE y # x
  <2>1. y \in free' <=> y \in free
    BY Zenon, <1>5, <1>10
  <2> QED BY Zenon, <1>5, <1>9, <1>10, <2>1, ChSame
<1>11. CASE y = x /\ Open(x, ~w)
  <2>1. Queue(x)' = Queue(x)
    BY Zenon, <1>5, <1>6, <1>11, QueueIs
  <2>2. CASE w
    BY Zenon, <1>5, <1>9, <1>11, <2>1, <2>2, ChIdle
  <2>3. CASE ~w
    <3>1. pipe[x].readopen /\ pipe'[x].readopen = FALSE
      BY Zenon, <1>5, <1>6, <1>11, <2>3 DEF Open
    <3> QED BY Zenon, <1>9, <1>11, <2>1, <3>1, ChClose
  <2> QED BY Zenon, <2>2, <2>3
<1>12. CASE y = x /\ ~Open(x, ~w)
  <2>1. x \in free' /\ pipe'[x].readopen = FALSE
    BY ZenonT(60), <1>5, <1>8, <1>12
  <2>2. Queue(x)' = << >>
    BY Zenon, <2>1 DEF Queue
  <2>3. CASE w
    <3>1. ~pipe[x].readopen /\ pipe[x].readopen \in BOOLEAN
      BY ZenonT(60), <1>1, <1>12, <2>3 DEF Open, Types, Buffer
    <3>2. pipe'[x].readopen = pipe[x].readopen
      BY Zenon, <2>1, <3>1
    <3> QED BY Zenon, <1>9, <1>12, <2>2, <3>1, <3>2, ChFree
  <2>4. CASE ~w
    <3>1. pipe[x].readopen
      BY Zenon, <1>6, <2>4 DEF Open
    <3> QED BY Zenon, <1>9, <1>12, <2>1, <2>2, <3>1, ChClose
  <2> QED BY Zenon, <2>3, <2>4
<1> QED BY Zenon, <1>10, <1>11, <1>12

LEMMA ChannelInit == Init => \A x \in Pages : C(x)!Init
<1> SUFFICES ASSUME Init, NEW x \in Pages PROVE C(x)!Init
  OBVIOUS
<1>1. [p \in Procs |-> IF pc[p] = "write" /\ ff[p].pipe = x THEN todo[p] ELSE << >>] = [p \in Procs |-> << >>]
  BY DEF Init
<1>2. x \in free /\ got[x] = << >> /\ pipe[x].readopen = FALSE
  BY DEF Init, Nothing, Junk
<1> QED BY Zenon, <1>1, <1>2 DEF C!Init

LEMMA ChannelNext == IInv /\ Next => \A x \in Pages : C(x)!Next
<1> SUFFICES ASSUME IInv, Next PROVE \A x \in Pages : C(x)!Next
  OBVIOUS
<1>1. ASSUME NEW p \in Procs, Kernel(p) PROVE \A x \in Pages : C(x)!Next
  <2>1. CASE PipeRead(p)
    BY Zenon, <2>1, ChannelTake
  <2>2. CASE got' = Nothing /\ (PipeReadBlock(p) \/ ExitClose(p) \/ ExitZombie(p))
    BY Zenon, <2>2, ChannelCalm
  <2>3. CASE got' = Nothing /\ PipeWrite(p)
    BY Zenon, <2>3, ChannelWrite
  <2>4. CASE got' = Nothing /\ PipeWriteBlock(p)
    BY Zenon, <2>4, ChannelBlock
  <2>5. CASE got' = Nothing /\ PipeClose(p)
    BY Zenon, <2>5, ChannelClose
  <2> QED BY Zenon, <1>1, <2>1, <2>2, <2>3, <2>4, <2>5 DEF Kernel
<1>2. ASSUME NEW p \in Procs, User(p) PROVE \A x \in Pages : C(x)!Next
  <2>1. CASE got' = Nothing /\ SysPipe(p)
    BY Zenon, <2>1, ChannelOpen
  <2>2. CASE /\ got' = Nothing
             /\ \/ Exit(p) \/ Reap(p) \/ Kill(p) \/ (\E q \in Procs : Fork(p, q))
                \/ (\E fd \in Fd : SysDup(p, fd) \/ SysClose(p, fd)) \/ \E fd \in Fd, n \in ReadArgs : SysRead(p, fd, n)
    BY Zenon, <2>2, ChannelCalm
  <2>3. CASE got' = Nothing /\ \E fd \in Fd, m \in Messages : SysWrite(p, fd, m)
    BY Zenon, <2>3, ChannelBegin
  <2> QED BY Zenon, <1>2, <2>1, <2>2, <2>3 DEF User
<1> QED BY Zenon, <1>1, <1>2 DEF Next

\* Every page, as a pipe, is a bounded channel: whatever the sizes, the number
\* of processes and the order in which they read, write, sleep, close and die,
\* the bytes arrive in order, each once (piperead, pipewrite, pipealloc and
\* pipeclose).
THEOREM PipeRefinesChannel == Spec => PipeIsChannel
<1>1. IInv /\ [Next]_vars => [\A x \in Pages : [C(x)!Next]_(C(x)!vars)]_vars
  BY Zenon, ChannelNext
<1> QED BY <1>1, PipeInv, ChannelInit, PTL DEF Spec, PipeIsChannel
=============================================================================
