----------------------------- MODULE LogProofs -----------------------------
(***************************************************************************)
(* What the log of log.c relies on, for any number of processes, blocks    *)
(* and log entries, and why its steps keep the types of the variables and  *)
(* the agreement of the log, the cache and the disk.                       *)
(***************************************************************************)
EXTENDS Log, TLAPS, FiniteSetTheorems

\* A call changes no more blocks than begin_op reserves for it.
Reserved == IsFiniteSet(Procs) /\ OpBlocks <= MAXOPBLOCKS

Ops == {p \in Procs : pc[p] = "op"}

\* The log entries that calls may still need, of what begin_op reserved for them.
SpareOf(ops, w) == {x \in ops \X (1 .. MAXOPBLOCKS) : x[2] > Cardinality(w[x[1]])}
Spare == SpareOf(Ops, wrote)

Distinct(s) == \A i, j \in 1 .. Len(s) : s[i] = s[j] => i = j

Types ==
  /\ disk \in [Blocks -> Vals]
  /\ logBlocks \in [1 .. LOGSIZE -> Vals]
  /\ head \in Seq(Blocks)
  /\ cache \in [Blocks -> Vals \cup {NotCached}]
  /\ dirty \subseteq Blocks
  /\ lh \in Seq(Blocks)
  /\ phase \in Committing \cup Recovering \cup {"idle"}
  /\ tail \in Nat
  /\ pc \in [Procs -> {"idle", "begin", "sleep", "op", "commit"}]
  /\ wrote \in [Procs -> SUBSET Blocks]
  /\ held \in [Procs -> SUBSET Blocks]
  /\ panicked \in BOOLEAN

\* Who is in a call, and the log space that the calls have reserved.
CallsInv ==
  /\ phase # "idle" => Ops = {}
  /\ phase = "idle" /\ Ops = {} => lh = << >>
  /\ \A p \in Procs :
       /\ held[p] # {} => pc[p] = "op"
       /\ pc[p] # "op" => wrote[p] = {}
       /\ IsFiniteSet(wrote[p]) /\ wrote[p] \subseteq Elems(lh)
       /\ \A b \in held[p] : Cardinality(wrote[p] \cup {b}) <= OpBlocks

SpaceInv == Len(head) <= LOGSIZE /\ Len(lh) + Cardinality(Spare) <= LOGSIZE

\* What is in the log and in the cache, by the phase of commit or recovery.
HeadInv ==
  /\ Distinct(lh) /\ Distinct(head)
  /\ phase \in {"idle", "write_log", "write_head", "committed"} => head = << >>
  /\ phase \in {"install", "erase", "redo", "clear"} => head = lh
  /\ phase \in {"committed", "read_head"} => lh = << >>
  /\ phase \in {"write_log", "install", "redo"} => tail <= Len(lh)
  /\ phase = "write_head" => tail = 0

CacheInv ==
  /\ phase \in {"idle", "write_log", "write_head"} => dirty = Elems(lh)
  /\ phase = "install" => dirty = {lh[i] : i \in tail + 1 .. Len(lh)}
  /\ phase \in {"erase", "committed"} \cup Recovering => dirty = {}
  /\ \A b \in dirty : cache[b] # NotCached
  /\ \A b \in Blocks \ dirty : cache[b] \in {NotCached, disk[b]}
  /\ phase = "read_head" => \A b \in Blocks : cache[b] = NotCached
  /\ phase = "redo" => \A b \in Blocks : cache[b] = NotCached \/ \E i \in 1 .. tail : lh[i] = b

LoggedInv ==
  /\ phase = "write_log" => \A i \in 1 .. tail : logBlocks[i] = cache[lh[i]]
  /\ phase = "write_head" => \A i \in 1 .. Len(lh) : logBlocks[i] = cache[lh[i]]
  /\ phase = "install" => \A i \in tail + 1 .. Len(lh) : logBlocks[i] = cache[lh[i]]
  /\ phase \in {"install", "redo"} => \A i \in 1 .. tail : disk[lh[i]] = logBlocks[i]
  /\ phase \in {"erase", "clear"} => \A i \in 1 .. Len(lh) : disk[lh[i]] = logBlocks[i]

IInv == Types /\ CallsInv /\ SpaceInv /\ HeadInv /\ CacheInv /\ LoggedInv
-----------------------------------------------------------------------------
(* Types *)

\* The step of each action keeps the types of the variables (log.c:126-228).
LEMMA TypesStep == ASSUME Types, Len(lh) <= LOGSIZE, [Next]_vars PROVE Types'
<1> USE LogAssumption DEF Types, diskVars, memVars, Committing, Recovering
<1>1. ASSUME NEW b \in Blocks, Fill(b) PROVE Types'
  BY <1>1 DEF Fill, bread
<1>2. ASSUME NEW b \in Blocks, Recycle(b) PROVE Types'
  BY <1>2 DEF Recycle
<1>3. ASSUME NEW p \in Procs, BeginOp(p) PROVE Types'
  BY <1>3 DEF BeginOp
<1>4. ASSUME NEW p \in Procs, EndOp(p) PROVE Types'
  BY <1>4 DEF EndOp, Woken
<1>5. ASSUME NEW p \in Procs, EndOpLast(p) PROVE Types'
  BY <1>5 DEF EndOpLast
<1>6. ASSUME NEW p \in Procs, EndCommit(p) PROVE Types'
  BY <1>6 DEF EndCommit, Woken
<1>7. ASSUME NEW p \in Procs, NEW b \in Blocks, LogCheck(p, b) PROVE Types'
  BY <1>7 DEF LogCheck
<1>8. ASSUME NEW p \in Procs, NEW b \in Blocks, LogPanic(p, b) PROVE Types'
  BY <1>8 DEF LogPanic
<1>9. ASSUME NEW p \in Procs, NEW b \in Blocks, NEW v \in Vals, LogWrite(p, b, v) PROVE Types'
  BY <1>9 DEF LogWrite, Absorbed
<1>10. CASE WriteLog
  BY <1>10 DEF WriteLog, bread
<1>11. CASE WriteHead
  BY Zenon, <1>11 DEF WriteHead
<1>12. ASSUME NEW here, NEW next \in {"erase", "clear"}, Install(here, next) PROVE Types'
  <2>1. CASE tail < Len(lh)
    <3>1. tail + 1 \in 1 .. Len(lh) /\ tail + 1 \in 1 .. LOGSIZE
      BY <2>1
    <3>2. lh[tail + 1] \in Blocks /\ logBlocks[tail + 1] \in Vals
      BY <3>1
    <3> DEFINE b == lh[tail + 1]
               v == logBlocks[tail + 1]
    <3>3. disk' = [disk EXCEPT ![b] = v] /\ cache' = [cache EXCEPT ![b] = v] /\ tail' = tail + 1
      BY <1>12, <2>1 DEF Install
    <3>4. UNCHANGED <<logBlocks, head, lh, phase, pc, wrote, held, panicked>> /\ dirty' \subseteq dirty
      BY <1>12, <2>1 DEF Install
    <3> HIDE DEF b, v
    <3> QED BY <3>2, <3>3, <3>4 DEF b, v
  <2>2. CASE ~(tail < Len(lh))
    BY <1>12, <2>2 DEF Install
  <2> QED BY Zenon, <2>1, <2>2
<1>13. ASSUME NEW here, NEW next \in {"committed", "idle"}, EraseHead(here, next) PROVE Types'
  BY <1>13 DEF EraseHead
<1>14. CASE ReadHead
  BY <1>14 DEF ReadHead
<1>15. CASE Crash
  <2>1. panicked' \in BOOLEAN
    BY Zenon, <1>15 DEF Crash
  <2>2. /\ lh' \in Seq(Blocks) /\ tail' \in Nat /\ phase' \in Recovering
        /\ cache' \in [Blocks -> Vals \cup {NotCached}]
    BY <1>15 DEF Crash
  <2>3. /\ pc' \in [Procs -> {"idle", "begin", "sleep", "op", "commit"}]
        /\ wrote' \in [Procs -> SUBSET Blocks] /\ held' \in [Procs -> SUBSET Blocks]
    BY <1>15 DEF Crash
  <2> QED BY <1>15, <2>1, <2>2, <2>3 DEF Crash
<1>16. CASE UNCHANGED vars
  BY <1>16 DEF vars
<1> HIDE LogAssumption DEF Types, diskVars, memVars, Committing, Recovering
<1> QED
  BY Zenon, <1>1, <1>2, <1>3, <1>4, <1>5, <1>6, <1>7, <1>8, <1>9, <1>10, <1>11, <1>12, <1>13, <1>14, <1>15, <1>16
     DEF Next, Commit, Recovery, InstallTrans, RedoTrans, Erase, Clear
-----------------------------------------------------------------------------
(* The contents of the log, of the cache and of the disk *)

\* Absorption keeps what is in the log and adds the block (log.c:220-225).
LEMMA AbsorbedElems ==
  ASSUME lh \in Seq(Blocks), NEW b \in Blocks
  PROVE  /\ Absorbed(b) \in Seq(Blocks) /\ Absorbed(b) # << >>
         /\ Elems(Absorbed(b)) = Elems(lh) \cup {b}
         /\ Distinct(lh) => Distinct(Absorbed(b))
         /\ Len(Absorbed(b)) = IF b \in Elems(lh) THEN Len(lh) ELSE Len(lh) + 1
<1>1. CASE b \in Elems(lh)
  BY <1>1 DEF Absorbed, Elems
<1>2. CASE b \notin Elems(lh)
  <2>1. Absorbed(b) = Append(lh, b) /\ Len(Append(lh, b)) = Len(lh) + 1
    BY <1>2 DEF Absorbed
  <2>2. \A i \in 1 .. Len(lh) + 1 : Append(lh, b)[i] = IF i = Len(lh) + 1 THEN b ELSE lh[i]
    OBVIOUS
  <2>3. Elems(Append(lh, b)) = Elems(lh) \cup {b}
    BY <2>1, <2>2 DEF Elems
  <2>4. Distinct(lh) => Distinct(Append(lh, b))
    BY <1>2, <2>1, <2>2 DEF Distinct, Elems
  <2> QED BY <1>2, <2>1, <2>3, <2>4
<1> QED BY <1>1, <1>2

ContentInv == HeadInv /\ CacheInv /\ LoggedInv

\* Reading a block into a buffer or recycling its buffer (bio.c:79-90) touches no block
\* that the log still needs.
LEMMA BufferStep ==
  ASSUME IInv, NEW b \in Blocks, Fill(b) \/ Recycle(b)
  PROVE  ContentInv'
<1> USE DEF diskVars
<1>1. Types /\ HeadInv /\ CacheInv /\ LoggedInv /\ NotCached \notin Vals
  BY LogAssumption DEF IInv
<1>2. UNCHANGED <<disk, logBlocks, head, dirty, lh, phase, tail>> /\ phase \notin Recovering
  BY SMTT(60) DEF Fill, Recycle, Running
<1>3. b \notin dirty /\ \A c \in Blocks : cache'[c] = IF c = b THEN cache'[b] ELSE cache[c]
  BY <1>1 DEF Fill, Recycle, Recyclable, Types, CacheInv
<1>4. cache'[b] \in {NotCached, disk[b]}
  BY <1>1 DEF Fill, Recycle, bread, Types
<1>5. HeadInv'
  BY <1>1, <1>2 DEF HeadInv, Distinct
<1>6. CacheInv'
  <2>1. \A c \in dirty : cache[c] # NotCached => cache'[c] # NotCached
    BY Zenon, <1>1, <1>3 DEF CacheInv, Types
  <2>2. \A c \in Blocks \ dirty : cache'[c] \in {NotCached, disk[c]}
    BY Zenon, <1>1, <1>3, <1>4 DEF CacheInv
  <2>3. Elems(lh)' = Elems(lh)
    BY Zenon, <1>2 DEF Elems
  <2> QED BY Zenon, <1>1, <1>2, <2>1, <2>2, <2>3 DEF CacheInv, Recovering
<1>7. LoggedInv'
  <2>1. \A i \in 1 .. Len(lh) : lh[i] \in Blocks
    BY <1>1 DEF Types
  <2>2. CASE phase \in {"write_log", "write_head"}
    <3>1. \A i \in 1 .. Len(lh) : lh[i] \in dirty
      BY <1>1, <2>2 DEF CacheInv, Elems
    <3>2. \A i \in 1 .. Len(lh) : cache'[lh[i]] = cache[lh[i]]
      BY <1>3, <2>1, <3>1
    <3>3. phase = "write_log" => \A i \in 1 .. tail : i \in 1 .. Len(lh)
      BY <1>1 DEF HeadInv, Types
    <3> QED BY Zenon, <1>1, <1>2, <2>2, <3>2, <3>3 DEF LoggedInv
  <2>3. CASE phase = "install"
    <3>1. \A i \in tail + 1 .. Len(lh) : lh[i] \in dirty /\ i \in 1 .. Len(lh)
      BY <1>1, <2>3 DEF CacheInv, Types
    <3>2. \A i \in tail + 1 .. Len(lh) : cache'[lh[i]] = cache[lh[i]]
      BY Zenon, <1>3, <2>1, <3>1
    <3> QED BY ZenonT(60), <1>1, <1>2, <2>3, <3>2 DEF LoggedInv
  <2> QED BY <1>1, <1>2, <2>2, <2>3 DEF LoggedInv
<1> QED BY <1>5, <1>6, <1>7 DEF ContentInv

\* log_write lists the block and pins its buffer (log.c:219-226).
LEMMA LogWriteStep ==
  ASSUME IInv, NEW p \in Procs, NEW b \in Blocks, NEW v \in Vals, LogWrite(p, b, v)
  PROVE  ContentInv'
<1> USE DEF diskVars
<1>1. Types /\ CallsInv /\ HeadInv /\ CacheInv /\ NotCached \notin Vals
  BY LogAssumption DEF IInv
<1>2. /\ UNCHANGED <<disk, logBlocks, head, phase, tail>> /\ b \in held[p]
      /\ cache' = [cache EXCEPT ![b] = v] /\ dirty' = dirty \cup {b} /\ lh' = Absorbed(b)
  BY DEF LogWrite
<1>3. phase = "idle"
  BY <1>1, <1>2 DEF CallsInv, Ops
<1>4. Elems(lh)' = Elems(lh) \cup {b} /\ Distinct(lh')
  <2>1. Elems(lh)' = Elems(lh')
    BY Zenon DEF Elems
  <2> QED BY ZenonT(60), <1>1, <1>2, <2>1, AbsorbedElems DEF Types, HeadInv
<1>5. HeadInv'
  BY SMTT(60), <1>1, <1>2, <1>3, <1>4 DEF HeadInv, Distinct
<1>6. CacheInv'
  BY <1>1, <1>2, <1>3, <1>4 DEF CacheInv, Types, Recovering
<1>7. LoggedInv'
  BY Zenon, <1>2, <1>3 DEF LoggedInv
<1> QED BY <1>5, <1>6, <1>7 DEF ContentInv

\* write_log copies the blocks of the transaction, which are all cached (log.c:176-188).
LEMMA WriteLogStep ==
  ASSUME IInv, Len(lh) <= LOGSIZE, WriteLog
  PROVE  ContentInv'
<1> USE DEF memVars
<1>1. Types /\ HeadInv /\ CacheInv /\ LoggedInv /\ NotCached \notin Vals
  BY LogAssumption DEF IInv
<1>2. phase = "write_log" /\ UNCHANGED <<disk, head, cache, dirty, lh>>
  BY DEF WriteLog
<1>3. dirty = Elems(lh) /\ tail <= Len(lh) /\ head = << >> /\ Elems(lh)' = Elems(lh)
  BY <1>1, <1>2 DEF CacheInv, HeadInv, Elems
<1>4. CASE tail < Len(lh)
  <2>1. phase' = phase /\ tail' = tail + 1 /\ logBlocks' = [logBlocks EXCEPT ![tail + 1] = bread(lh[tail + 1])]
    BY <1>4 DEF WriteLog
  <2>2. tail + 1 \in 1 .. Len(lh) /\ tail + 1 \in 1 .. LOGSIZE
    BY <1>1, <1>4, LogAssumption DEF Types
  <2>3. lh[tail + 1] \in dirty
    BY <1>3, <2>2 DEF Elems
  <2>4. bread(lh[tail + 1]) = cache[lh[tail + 1]]
    BY Zenon, <1>1, <2>3 DEF bread, CacheInv
  <2>5. logBlocks'[tail + 1] = cache[lh[tail + 1]] /\ \A i \in 1 .. tail : logBlocks'[i] = logBlocks[i]
    BY SMTT(60), <1>1, <2>1, <2>2, <2>4 DEF Types
  <2>6. \A i \in 1 .. tail + 1 : logBlocks'[i] = cache[lh[i]]
    BY <1>1, <1>2, <2>5 DEF LoggedInv, Types
  <2>7. LoggedInv'
    BY <1>2, <2>1, <2>6 DEF LoggedInv
  <2>8. HeadInv'
    BY SMTT(60), <1>1, <1>2, <1>4, <2>1 DEF HeadInv, Distinct, Types
  <2>9. CacheInv'
    BY Zenon, <1>1, <1>2, <1>3, <2>1 DEF CacheInv, Recovering
  <2> QED BY <2>7, <2>8, <2>9 DEF ContentInv
<1>5. CASE ~(tail < Len(lh))
  <2>1. phase' = "write_head" /\ tail' = 0 /\ logBlocks' = logBlocks /\ tail = Len(lh)
    BY SMTT(60), <1>1, <1>3, <1>5 DEF WriteLog, Types
  <2>2. LoggedInv'
    BY Zenon, <1>1, <1>2, <2>1 DEF LoggedInv
  <2>3. HeadInv'
    BY SMTT(60), <1>1, <1>2, <2>1 DEF HeadInv, Distinct
  <2>4. CacheInv'
    BY <1>1, <1>2, <1>3, <2>1 DEF CacheInv, Recovering
  <2> QED BY <2>2, <2>3, <2>4 DEF ContentInv
<1> QED BY <1>4, <1>5

\* install_trans copies the next block of the log home (log.c:68-81), in a commit and
\* in the recovery.
LEMMA InstallStep ==
  ASSUME IInv, Len(lh) <= LOGSIZE,
         InstallTrans \/ RedoTrans
  PROVE  ContentInv'
<1>1. Types /\ HeadInv /\ CacheInv /\ LoggedInv /\ NotCached \notin Vals
  BY Zenon, LogAssumption DEF IInv
<1>2. phase \in {"install", "redo"} /\ UNCHANGED <<logBlocks, head, lh>>
  BY DEF InstallTrans, RedoTrans, Install
<1>3. head = lh /\ tail <= Len(lh) /\ Distinct(lh) /\ \A i \in 1 .. Len(lh) : lh[i] \in Blocks
  BY <1>1, <1>2 DEF HeadInv, Types
<1>4. CASE tail < Len(lh)
  <2> DEFINE b == lh[tail + 1]
             v == logBlocks[tail + 1]
  <2>1. /\ phase' = phase /\ tail' = tail + 1 /\ dirty' = dirty \ {b}
        /\ disk' = [disk EXCEPT ![b] = v] /\ cache' = [cache EXCEPT ![b] = v]
    BY <1>4 DEF InstallTrans, RedoTrans, Install
  <2>2. tail + 1 \in 1 .. Len(lh) /\ tail + 1 \in 1 .. LOGSIZE
    BY <1>1, <1>4, LogAssumption DEF Types
  <2>3. b \in Blocks /\ v \in Vals
    BY <1>1, <1>3, <2>2 DEF Types
  <2>4. \A i \in 1 .. Len(lh) : i # tail + 1 => lh[i] # b
    BY <1>3, <2>2 DEF Distinct
  <2> HIDE DEF b, v
  <2>5. \A c \in Blocks : /\ cache'[c] = IF c = b THEN v ELSE cache[c]
                         /\ disk'[c] = IF c = b THEN v ELSE disk[c]
    BY Zenon, <1>1, <2>1, <2>3 DEF Types
  <2>6. HeadInv'
    BY SMTT(60), <1>1, <1>2, <1>4, <2>1 DEF HeadInv, Distinct, Types
  <2>7. CacheInv'
    <3>1. phase = "install" => dirty' = {lh[i] : i \in tail' + 1 .. Len(lh)}
      <4> SUFFICES ASSUME phase = "install" PROVE dirty' = {lh[i] : i \in tail + 2 .. Len(lh)}
        BY <1>1, <2>1 DEF Types
      <4>1. dirty = {lh[i] : i \in tail + 1 .. Len(lh)}
        BY <1>1 DEF CacheInv
      <4>2. \A i \in tail + 1 .. Len(lh) : i \in 1 .. Len(lh) /\ (i = tail + 1 \/ i \in tail + 2 .. Len(lh))
        BY <1>1 DEF Types
      <4>3. \A i \in tail + 2 .. Len(lh) : i \in tail + 1 .. Len(lh) /\ i # tail + 1
        BY <1>1 DEF Types
      <4> QED BY Zenon, <2>1, <2>4, <4>1, <4>2, <4>3 DEF b
    <3>2. phase = "redo" => dirty' = {}
      BY Zenon, <1>1, <2>1 DEF CacheInv, Recovering
    <3>3. \A c \in dirty' : cache'[c] # NotCached
      BY Zenon, <1>1, <2>1, <2>5 DEF CacheInv, Types
    <3>4. \A c \in Blocks \ dirty' : cache'[c] \in {NotCached, disk'[c]}
      BY <1>1, <2>1, <2>5 DEF CacheInv
    <3>5. phase = "redo" => \A c \in Blocks : cache'[c] = NotCached \/ \E i \in 1 .. tail + 1 : lh[i] = c
      <4> SUFFICES ASSUME phase = "redo", NEW c \in Blocks, cache'[c] # NotCached
                   PROVE  \E i \in 1 .. tail + 1 : lh[i] = c
        OBVIOUS
      <4>1. CASE c = b
        BY <2>2, <4>1 DEF b
      <4>2. CASE c # b
        <5>1. PICK i \in 1 .. tail : lh[i] = c
          BY Zenon, <1>1, <2>5, <4>2 DEF CacheInv
        <5>2. i \in 1 .. tail + 1
          BY <1>1 DEF Types
        <5> QED BY Zenon, <5>1, <5>2
      <4> QED BY <4>1, <4>2
    <3> QED BY SMTT(60), <1>2, <2>1, <3>1, <3>2, <3>3, <3>4, <3>5 DEF CacheInv, Recovering
  <2>8. LoggedInv'
    <3>1. \A i \in 1 .. tail : i \in 1 .. Len(lh) /\ i # tail + 1
      BY SMTT(60), <1>1, <1>3 DEF Types
    <3>2. \A i \in 1 .. tail : disk'[lh[i]] = logBlocks[i]
      BY Zenon, <1>1, <1>2, <1>3, <2>4, <2>5, <3>1 DEF LoggedInv
    <3>3. disk'[lh[tail + 1]] = logBlocks[tail + 1]
      BY Zenon, <2>3, <2>5 DEF b, v
    <3>4. \A i \in 1 .. tail + 1 : i \in 1 .. tail \/ i = tail + 1
      BY <1>1 DEF Types
    <3>5. \A i \in 1 .. tail + 1 : disk'[lh[i]] = logBlocks[i]
      BY Zenon, <3>2, <3>3, <3>4
    <3>6. \A i \in tail + 2 .. Len(lh) : i \in tail + 1 .. Len(lh) /\ i \in 1 .. Len(lh) /\ i # tail + 1
      BY SMTT(60), <1>1 DEF Types
    <3>7. phase = "install" => \A i \in tail + 2 .. Len(lh) : logBlocks[i] = cache'[lh[i]]
      BY Zenon, <1>1, <1>3, <2>4, <2>5, <3>6 DEF LoggedInv
    <3>8. tail' + 1 = tail + 2
      BY <1>1, <2>1 DEF Types
    <3> QED BY Zenon, <1>2, <2>1, <3>5, <3>7, <3>8 DEF LoggedInv
  <2> QED BY Zenon, <2>6, <2>7, <2>8 DEF ContentInv
<1>5. CASE ~(tail < Len(lh))
  <2>1. /\ phase' = IF phase = "install" THEN "erase" ELSE "clear"
        /\ UNCHANGED <<disk, cache, dirty>> /\ tail' = 0
    <3>1. CASE InstallTrans
      BY <1>5, <3>1 DEF InstallTrans, Install
    <3>2. CASE RedoTrans
      BY Zenon, <1>5, <3>2 DEF RedoTrans, Install
    <3> QED BY Zenon, <3>1, <3>2
  <2>2. tail = Len(lh)
    BY <1>1, <1>3, <1>5 DEF Types
  <2>3. dirty = {}
    <3>1. tail + 1 .. Len(lh) = {}
      BY <1>1, <2>2 DEF Types
    <3>2. phase = "install" => dirty = {lh[i] : i \in tail + 1 .. Len(lh)}
      BY <1>1 DEF CacheInv
    <3>3. phase = "redo" => dirty = {}
      BY <1>1 DEF CacheInv, Recovering
    <3> QED BY Zenon, <1>2, <3>1, <3>2, <3>3
  <2>4. HeadInv'
    BY SMTT(60), <1>1, <1>2, <1>3, <2>1 DEF HeadInv, Distinct
  <2>5. CacheInv'
    BY Zenon, <1>1, <1>2, <2>1, <2>3 DEF CacheInv
  <2>6. LoggedInv'
    BY Zenon, <1>1, <1>2, <2>1, <2>2 DEF LoggedInv
  <2> QED BY <2>4, <2>5, <2>6 DEF ContentInv
<1> QED BY <1>4, <1>5

\* Every step keeps the log, the cache and the disk in agreement.
LEMMA ContentStep == ASSUME IInv, Len(lh) <= LOGSIZE, [Next]_vars PROVE ContentInv'
<1> USE DEF diskVars, memVars
<1>1. Types /\ CallsInv /\ HeadInv /\ CacheInv /\ LoggedInv /\ NotCached \notin Vals
  BY LogAssumption DEF IInv
<1>2. Len(lh) <= LOGSIZE
  OBVIOUS
<1>3. CASE UNCHANGED <<disk, logBlocks, head, cache, dirty, lh, phase, tail>>
  <2>1. HeadInv' /\ LoggedInv'
    BY SMTT(60), <1>1, <1>3 DEF HeadInv, LoggedInv, Distinct
  <2>2. CacheInv'
    BY SMTT(60), <1>1, <1>3 DEF CacheInv, Elems
  <2> QED BY Zenon, <2>1, <2>2 DEF ContentInv
<1>4. ASSUME NEW p \in Procs, EndOpLast(p) PROVE ContentInv'
  <2>1. /\ UNCHANGED <<disk, logBlocks, head, cache, dirty, lh>> /\ pc[p] = "op" /\ tail' = 0
        /\ phase' = IF lh = << >> THEN "committed" ELSE "write_log"
    BY <1>4 DEF EndOpLast
  <2>2. phase = "idle"
    BY Zenon, <1>1, <2>1 DEF CallsInv, Ops
  <2>3. dirty = Elems(lh) /\ Elems(lh)' = Elems(lh) /\ (lh = << >> => Elems(lh) = {}) /\ head = << >> /\ Len(lh) \in Nat
    BY <1>1, <2>1, <2>2 DEF CacheInv, HeadInv, Elems, Types
  <2>4. HeadInv'
    BY SMTT(60), <1>1, <2>1, <2>3 DEF HeadInv, Distinct
  <2>5. CacheInv'
    BY Zenon, <1>1, <2>1, <2>3 DEF CacheInv, Recovering
  <2>6. LoggedInv'
    BY <2>1 DEF LoggedInv
  <2> QED BY Zenon, <2>4, <2>5, <2>6 DEF ContentInv
<1>5. ASSUME NEW p \in Procs, EndCommit(p) PROVE ContentInv'
  <2>1. /\ UNCHANGED <<disk, logBlocks, head, cache, dirty, lh>> /\ phase = "committed" /\ phase' = "idle"
    BY Zenon, <1>5 DEF EndCommit
  <2>2. lh = << >> /\ head = << >> /\ dirty = {} /\ Elems(lh)' = {}
    BY <1>1, <2>1 DEF CacheInv, HeadInv, Elems
  <2>3. HeadInv'
    BY SMTT(60), <1>1, <2>1, <2>2 DEF HeadInv, Distinct
  <2>4. CacheInv'
    BY Zenon, <1>1, <2>1, <2>2 DEF CacheInv, Recovering
  <2>5. LoggedInv'
    BY <2>1 DEF LoggedInv
  <2> QED BY <2>3, <2>4, <2>5 DEF ContentInv
<1>6. CASE WriteHead
  <2>1. /\ UNCHANGED <<disk, logBlocks, cache, dirty, lh, tail>> /\ head' = lh
        /\ phase = "write_head" /\ phase' = "install"
    BY <1>6 DEF WriteHead
  <2>2. tail = 0 /\ Len(lh) \in Nat
    BY SMTT(60), <1>1, <2>1 DEF HeadInv, Types
  <2>3. dirty = {lh[i] : i \in tail + 1 .. Len(lh)}
    BY <1>1, <2>1, <2>2 DEF CacheInv, Elems
  <2>4. HeadInv'
    BY SMTT(60), <1>1, <2>1, <2>2 DEF HeadInv, Distinct
  <2>5. CacheInv'
    BY Zenon, <1>1, <2>1, <2>3 DEF CacheInv, Recovering
  <2>6. LoggedInv'
    BY <1>1, <2>1, <2>2 DEF LoggedInv
  <2> QED BY <2>4, <2>5, <2>6 DEF ContentInv
<1>7. CASE Erase \/ Clear
  <2>1. /\ UNCHANGED <<disk, logBlocks, cache, dirty, tail>> /\ head' = << >> /\ lh' = << >>
        /\ phase \in {"erase", "clear"} /\ phase' \in {"committed", "idle"}
    BY Zenon, <1>7 DEF Erase, Clear, EraseHead
  <2>2. dirty = {} /\ Elems(lh)' = {}
    BY <1>1, <2>1 DEF CacheInv, Recovering, Elems
  <2>3. HeadInv'
    BY SMTT(60), <2>1 DEF HeadInv, Distinct
  <2>4. CacheInv'
    BY Zenon, <1>1, <2>1, <2>2 DEF CacheInv, Recovering
  <2>5. LoggedInv'
    BY Zenon, <2>1 DEF LoggedInv
  <2> QED BY <2>3, <2>4, <2>5 DEF ContentInv
<1>8. CASE ReadHead
  <2>1. /\ UNCHANGED <<disk, logBlocks, head, cache, dirty>> /\ lh' = head /\ tail' = 0
        /\ phase = "read_head" /\ phase' = "redo"
    BY Zenon, <1>8 DEF ReadHead
  <2>2. dirty = {} /\ Len(head) \in Nat
    BY <1>1, <2>1 DEF CacheInv, Recovering, Types
  <2>3. HeadInv'
    BY SMTT(60), <1>1, <2>1, <2>2 DEF HeadInv, Distinct
  <2>4. CacheInv'
    BY Zenon, <1>1, <2>1, <2>2 DEF CacheInv, Recovering
  <2>5. LoggedInv'
    BY <2>1 DEF LoggedInv
  <2> QED BY <2>3, <2>4, <2>5 DEF ContentInv
<1>9. CASE Crash
  <2>1. /\ UNCHANGED <<disk, logBlocks, head>> /\ lh' = << >> /\ dirty' = {} /\ phase' = "read_head"
        /\ cache' = [b \in Blocks |-> NotCached]
    BY <1>9 DEF Crash
  <2>2. HeadInv'
    BY <1>1, <2>1 DEF HeadInv, Distinct
  <2>3. CacheInv'
    BY <2>1 DEF CacheInv
  <2>4. LoggedInv'
    BY Zenon, <2>1 DEF LoggedInv
  <2> QED BY <2>2, <2>3, <2>4 DEF ContentInv
<1>10. ASSUME NEW p \in Procs, BeginOp(p) \/ EndOp(p) PROVE ContentInv'
  BY <1>3, <1>10 DEF BeginOp, EndOp
<1>11. ASSUME NEW p \in Procs, NEW b \in Blocks, LogCheck(p, b) \/ LogPanic(p, b) PROVE ContentInv'
  BY Zenon, <1>3, <1>11 DEF LogCheck, LogPanic
<1> QED
  BY Zenon, <1>2, <1>3, <1>4, <1>5, <1>6, <1>7, <1>8, <1>9, <1>10, <1>11,
     BufferStep, LogWriteStep, WriteLogStep, InstallStep DEF Next, vars, Commit, Recovery
-----------------------------------------------------------------------------
(* Calls *)

\* How the last call of a transaction is told from the others (log.c:152).
LEMMA OpsOf ==
  ASSUME Reserved, Types, NEW p \in Procs, pc[p] = "op"
  PROVE  /\ IsFiniteSet(Ops) /\ outstanding = Cardinality(Ops)
         /\ outstanding = 1 => Ops = {p}
         /\ outstanding > 1 => Ops \ {p} # {}
<1>1. IsFiniteSet(Ops) /\ outstanding = Cardinality(Ops)
  BY Zenon, FS_Subset DEF Reserved, Ops, outstanding
<1>2. Cardinality(Ops) = 1 => Ops = {p}
  BY <1>1, FS_Singleton DEF Ops
<1>3. Ops = {p} => Cardinality(Ops) = 1
  BY Zenon, FS_Singleton
<1>4. p \in Ops
  BY DEF Ops
<1>5. Ops \ {p} = {} => Ops = {p}
  BY <1>4
<1> QED BY <1>1, <1>2, <1>3, <1>5

\* No call is under way while a commit or the recovery is, and what a call has written
\* is in the log until the commit (begin_op and end_op, log.c:125-172).
LEMMA CallsStep == ASSUME Reserved, IInv, Types', [Next]_vars PROVE CallsInv'
<1> USE DEF diskVars, memVars
<1>0. Types /\ CallsInv /\ HeadInv
  BY Zenon DEF IInv
<1>1. CASE UNCHANGED <<phase, lh, pc, wrote, held>>
  BY <1>0, <1>1 DEF CallsInv, Ops, Elems
<1>2. ASSUME NEW p \in Procs, BeginOp(p) PROVE CallsInv'
  <2>1. phase \notin Recovering /\ pc[p] \in {"idle", "begin"} /\ UNCHANGED <<phase, lh, wrote, held>>
    BY Zenon, <1>2 DEF BeginOp, Running
  <2>2. CASE phase \in Committing \/ Full
    <3>1. pc' = [pc EXCEPT ![p] = "sleep"]
      BY Zenon, <1>2, <2>2 DEF BeginOp
    <3>2. Ops' = Ops
      BY Zenon, <1>0, <2>1, <3>1 DEF Ops, Types
    <3> QED BY <1>0, <2>1, <3>1, <3>2 DEF CallsInv, Types, Elems
  <2>3. CASE ~(phase \in Committing \/ Full)
    <3>1. pc' = [pc EXCEPT ![p] = "op"] /\ phase = "idle"
      BY Zenon, <1>0, <1>2, <2>1, <2>3 DEF BeginOp, Types
    <3>2. Ops' = Ops \cup {p}
      BY <1>0, <3>1 DEF Ops, Types
    <3> QED BY <1>0, <2>1, <3>1, <3>2 DEF CallsInv, Types, Elems
  <2> QED BY <2>2, <2>3
<1>3. ASSUME NEW p \in Procs, EndOp(p) PROVE CallsInv'
  <2>1. pc[p] = "op" /\ held[p] = {} /\ outstanding > 1 /\ UNCHANGED <<phase, lh, held>>
    BY Zenon, <1>3 DEF EndOp
  <2>2. pc' = Woken([pc EXCEPT ![p] = "idle"]) /\ wrote' = [wrote EXCEPT ![p] = {}]
    BY <1>3 DEF EndOp
  <2>3. \A q \in Procs : pc'[q] = "op" <=> q # p /\ pc[q] = "op"
    BY <1>0, <2>2 DEF Woken, Types
  <2>4. Ops' = Ops \ {p} /\ Ops' # {} /\ p \in Ops
    BY Zenon, <1>0, <2>1, <2>3, OpsOf DEF Ops
  <2>5. phase = "idle"
    BY Zenon, <1>0, <2>4 DEF CallsInv
  <2>6. IsFiniteSet({}) /\ Elems(lh)' = Elems(lh)
    BY Zenon, <2>1, FS_EmptySet DEF Elems
  <2>7. \A q \in Procs : IF q = p THEN wrote'[q] = {} /\ held'[q] = {} ELSE wrote'[q] = wrote[q] /\ held'[q] = held[q]
    BY Zenon, <1>0, <2>1, <2>2 DEF Types
  <2> QED BY Zenon, <1>0, <2>1, <2>3, <2>4, <2>5, <2>6, <2>7 DEF CallsInv
<1>4. ASSUME NEW p \in Procs, EndOpLast(p) PROVE CallsInv'
  <2>1. pc[p] = "op" /\ held[p] = {} /\ outstanding = 1 /\ UNCHANGED <<lh, held>> /\ phase' # "idle"
    BY <1>4 DEF EndOpLast
  <2>2. pc' = [pc EXCEPT ![p] = "commit"] /\ wrote' = [wrote EXCEPT ![p] = {}]
    BY Zenon, <1>4 DEF EndOpLast
  <2>3. Ops = {p}
    BY Zenon, <1>0, <2>1, OpsOf
  <2>4. Ops' = {}
    BY <1>0, <2>2, <2>3 DEF Ops, Types
  <2>5. IsFiniteSet({})
    BY FS_EmptySet
  <2> QED BY Zenon, <1>0, <2>1, <2>2, <2>3, <2>4, <2>5 DEF CallsInv, Types, Elems, Ops
<1>5. ASSUME NEW p \in Procs, EndCommit(p) PROVE CallsInv'
  <2>1. phase = "committed" /\ UNCHANGED <<lh, wrote, held>> /\ pc' = Woken([pc EXCEPT ![p] = "idle"])
    BY Zenon, <1>5 DEF EndCommit
  <2>2. lh = << >> /\ Ops = {}
    BY Zenon, <1>0, <2>1 DEF CallsInv, HeadInv
  <2>3. \A q \in Procs : pc[q] # "op" /\ pc'[q] # "op"
    BY <1>0, <2>1, <2>2 DEF Woken, Types, Ops
  <2> QED BY Zenon, <1>0, <2>1, <2>2, <2>3 DEF CallsInv, Elems, Ops
<1>6. ASSUME NEW p \in Procs, NEW b \in Blocks, LogCheck(p, b) PROVE CallsInv'
  <2>1. pc[p] = "op" /\ Cardinality(wrote[p] \cup {b}) <= OpBlocks /\ held' = [held EXCEPT ![p] = {b}]
    BY <1>6 DEF LogCheck, Holds
  <2>2. UNCHANGED <<phase, lh, pc, wrote>> /\ Ops' = Ops
    BY Zenon, <1>6 DEF LogCheck, Ops
  <2>3. \A q \in Procs : held'[q] = IF q = p THEN {b} ELSE held[q]
    BY Zenon, <1>0, <2>1 DEF Types
  <2>4. Elems(lh)' = Elems(lh)
    BY Zenon, <2>2 DEF Elems
  <2>5. ASSUME NEW q \in Procs, NEW c \in held'[q] PROVE Cardinality(wrote[q] \cup {c}) <= OpBlocks
    <3>1. CASE q = p
      <4>1. c = b
        BY <2>3, <2>5, <3>1
      <4> QED BY <2>1, <3>1, <4>1
    <3>2. CASE q # p
      <4>1. c \in held[q]
        BY <2>3, <2>5, <3>2
      <4> QED BY Zenon, <1>0, <4>1 DEF CallsInv
    <3> QED BY Zenon, <3>1, <3>2
  <2> QED BY Zenon, <1>0, <2>1, <2>2, <2>3, <2>4, <2>5 DEF CallsInv
<1>7. ASSUME NEW p \in Procs, NEW b \in Blocks, NEW v \in Vals, LogWrite(p, b, v) PROVE CallsInv'
  <2>1. /\ b \in held[p] /\ lh' = Absorbed(b) /\ UNCHANGED <<phase, pc>>
        /\ wrote' = [wrote EXCEPT ![p] = wrote[p] \cup {b}] /\ held' = [held EXCEPT ![p] = {}]
    BY Zenon, <1>7 DEF LogWrite
  <2>2. pc[p] = "op" /\ p \in Ops /\ Ops' = Ops
    BY Zenon, <1>0, <2>1 DEF CallsInv, Ops
  <2>3. Elems(lh') = Elems(lh) \cup {b}
    BY Zenon, <1>0, <2>1, AbsorbedElems DEF Types
  <2>4. IsFiniteSet(wrote[p] \cup {b})
    BY Zenon, <1>0, FS_AddElement DEF CallsInv
  <2>5. Elems(lh)' = Elems(lh')
    BY Zenon DEF Elems
  <2> QED BY Zenon, <1>0, <2>1, <2>2, <2>3, <2>4, <2>5 DEF CallsInv, Types
<1>8. ASSUME pc' = pc, wrote' = wrote, held' = held, phase # "idle", phase' # "idle" \/ lh' = << >>
      PROVE  CallsInv'
  <2>1. Ops' = {} /\ Ops = {}
    BY Zenon, <1>0, <1>8 DEF CallsInv, Ops
  <2>2. \A p \in Procs : wrote[p] = {} /\ held[p] = {}
    BY Zenon, <1>0, <2>1 DEF CallsInv, Ops
  <2> QED BY Zenon, <1>0, <1>8, <2>1, <2>2, FS_EmptySet DEF CallsInv
<1>9. CASE Commit \/ Recovery
  <2>1. pc' = pc /\ wrote' = wrote /\ held' = held
    BY Zenon, <1>9 DEF Commit, Recovery, WriteLog, WriteHead, InstallTrans, RedoTrans, Install, Erase, Clear,
                EraseHead, ReadHead
  <2>2. phase # "idle"
    BY <1>9 DEF Commit, Recovery, WriteLog, WriteHead, InstallTrans, RedoTrans, Install, Erase, Clear,
                EraseHead, ReadHead
  <2>3. CASE WriteLog \/ WriteHead \/ ReadHead
    <3>1. phase' # "idle"
      BY Zenon, <2>2, <2>3 DEF WriteLog, WriteHead, ReadHead
    <3> QED BY Zenon, <1>8, <2>1, <2>2, <3>1
  <2>4. CASE InstallTrans \/ RedoTrans
    <3>1. phase' # "idle"
      BY <2>2, <2>4 DEF InstallTrans, RedoTrans, Install
    <3> QED BY <1>8, <2>1, <2>2, <3>1
  <2>5. CASE Erase \/ Clear
    <3>1. lh' = << >>
      BY <2>5 DEF Erase, Clear, EraseHead
    <3> QED BY <1>8, <2>1, <2>2, <3>1
  <2> QED BY Zenon, <1>9, <2>3, <2>4, <2>5 DEF Commit, Recovery
<1>10. CASE Crash
  <2>1. lh' = << >> /\ phase' = "read_head" /\ \A p \in Procs : pc'[p] = "idle" /\ wrote'[p] = {} /\ held'[p] = {}
    BY Zenon, <1>10 DEF Crash
  <2> QED BY Zenon, <2>1, FS_EmptySet DEF CallsInv, Elems, Ops
<1>11. ASSUME NEW p \in Procs, NEW b \in Blocks, Fill(b) \/ Recycle(b) \/ LogPanic(p, b) PROVE CallsInv'
  BY Zenon, <1>1, <1>11 DEF Fill, Recycle, LogPanic
<1>12. ASSUME NEW b \in Blocks, Fill(b) \/ Recycle(b) PROVE CallsInv'
  BY Zenon, <1>1, <1>12 DEF Fill, Recycle
<1> QED
  BY Zenon, <1>1, <1>2, <1>3, <1>4, <1>5, <1>6, <1>7, <1>9, <1>10, <1>11, <1>12 DEF Next, vars
-----------------------------------------------------------------------------
(* Log space *)

\* What calls may still need is at most what begin_op counts for them (log.c:131).
LEMMA SpareBound ==
  ASSUME NEW ops, IsFiniteSet(ops), NEW w
  PROVE  /\ IsFiniteSet(SpareOf(ops, w)) /\ Cardinality(SpareOf(ops, w)) \in Nat
         /\ Cardinality(SpareOf(ops, w)) <= Cardinality(ops) * MAXOPBLOCKS
<1>1. MAXOPBLOCKS \in Nat \ {0}
  BY LogAssumption
<1>2. IsFiniteSet(1 .. MAXOPBLOCKS) /\ Cardinality(1 .. MAXOPBLOCKS) = MAXOPBLOCKS
  BY <1>1, FS_Interval
<1>3. IsFiniteSet(ops \X (1 .. MAXOPBLOCKS)) /\ Cardinality(ops \X (1 .. MAXOPBLOCKS)) = Cardinality(ops) * MAXOPBLOCKS
  BY Zenon, <1>2, FS_Product
<1>4. SpareOf(ops, w) \in SUBSET (ops \X (1 .. MAXOPBLOCKS))
  BY DEF SpareOf
<1>5. /\ IsFiniteSet(SpareOf(ops, w))
      /\ Cardinality(SpareOf(ops, w)) <= Cardinality(ops \X (1 .. MAXOPBLOCKS))
  BY Zenon, <1>3, <1>4, FS_Subset
<1> QED BY <1>3, <1>5, FS_CardinalityType

\* The reservations of begin_op keep the transaction within the array of the log header,
\* also while calls absorb, add and end in any order (log.c:131 and 212-228).
LEMMA SpaceStep == ASSUME Reserved, IInv, [Next]_vars PROVE SpaceInv'
<1> USE DEF diskVars, memVars
<1>0. Types /\ CallsInv /\ HeadInv /\ SpaceInv /\ LOGSIZE \in Nat /\ MAXOPBLOCKS \in Nat /\ OpBlocks \in Nat
  BY LogAssumption DEF IInv
<1>1. IsFiniteSet(Ops) /\ IsFiniteSet(Ops') /\ outstanding = Cardinality(Ops)
  BY FS_Subset DEF Reserved, Ops, outstanding
<1>2. /\ IsFiniteSet(Spare) /\ Cardinality(Spare) \in Nat
      /\ IsFiniteSet(Spare') /\ Cardinality(Spare') \in Nat
      /\ Cardinality(Spare') <= Cardinality(Ops') * MAXOPBLOCKS
  BY <1>1, SpareBound DEF Spare
<1>3. Len(lh) \in Nat
  BY <1>0 DEF Types
<1>4. ASSUME head' = head, lh' = lh, Spare' \subseteq Spare PROVE SpaceInv'
  <2>1. Cardinality(Spare') <= Cardinality(Spare)
    BY <1>2, <1>4, FS_Subset
  <2> QED BY <1>0, <1>2, <1>3, <1>4, <2>1 DEF SpaceInv
<1>5. CASE UNCHANGED <<head, lh, pc, wrote>>
  BY <1>4, <1>5 DEF Spare, Ops
<1>6. ASSUME NEW p \in Procs, BeginOp(p) PROVE SpaceInv'
  <2>1. UNCHANGED <<head, lh, wrote>> /\ pc[p] \in {"idle", "begin"}
    BY <1>6 DEF BeginOp
  <2>2. CASE phase \in Committing \/ Full
    <3>1. Ops' = Ops
      BY Zenon, <1>0, <1>6, <2>1, <2>2 DEF BeginOp, Ops, Types
    <3> QED BY Zenon, <1>4, <2>1, <3>1 DEF Spare
  <2>3. CASE ~(phase \in Committing \/ Full)
    <3>1. Ops' = Ops \cup {p} /\ p \notin Ops
      BY Zenon, <1>0, <1>6, <2>1, <2>3 DEF BeginOp, Ops, Types
    <3>2. Cardinality(Ops') = outstanding + 1
      BY Zenon, <1>1, <3>1, FS_AddElement
    <3>3. outstanding \in Nat
      BY Zenon, <1>1, FS_CardinalityType
    <3>4. Len(lh) + (outstanding + 1) * MAXOPBLOCKS <= LOGSIZE
      BY <1>0, <1>3, <2>3, <3>3 DEF Full
    <3> DEFINE n == (outstanding + 1) * MAXOPBLOCKS
    <3>5. n \in Nat /\ Cardinality(Spare') <= n
      BY <1>0, <1>2, <3>2, <3>3
    <3> HIDE DEF n
    <3>6. Len(lh) + n <= LOGSIZE
      BY Zenon, <3>4 DEF n
    <3> QED BY <1>0, <1>2, <1>3, <2>1, <3>5, <3>6 DEF SpaceInv
  <2> QED BY <2>2, <2>3
<1>7. ASSUME NEW p \in Procs, EndOp(p) \/ EndOpLast(p) PROVE SpaceInv'
  <2>1. UNCHANGED <<head, lh>> /\ wrote' = [wrote EXCEPT ![p] = {}]
    BY Zenon, <1>7 DEF EndOp, EndOpLast
  <2>2. Ops' \subseteq Ops \ {p}
    BY Zenon, <1>0, <1>7 DEF EndOp, EndOpLast, Ops, Woken, Types
  <2>3. \A q \in Ops' : wrote'[q] = wrote[q]
    BY Zenon, <1>0, <2>1, <2>2 DEF Types, Ops
  <2>4. Spare' \subseteq Spare
    BY <2>2, <2>3 DEF Spare, SpareOf
  <2> QED BY Zenon, <1>4, <2>1, <2>4
<1>8. ASSUME NEW p \in Procs, NEW b \in Blocks, NEW v \in Vals, LogWrite(p, b, v) PROVE SpaceInv'
  <2>1. /\ b \in held[p] /\ lh' = Absorbed(b) /\ head' = head
        /\ wrote' = [wrote EXCEPT ![p] = wrote[p] \cup {b}]
    BY Zenon, <1>8 DEF LogWrite
  <2>2. p \in Ops /\ Ops' = Ops
    BY Zenon, <1>0, <1>8, <2>1 DEF CallsInv, Ops, LogWrite
  <2>3. \A q \in Procs : wrote'[q] = IF q = p THEN wrote[p] \cup {b} ELSE wrote[q]
    BY Zenon, <1>0, <2>1 DEF Types
  <2> DEFINE old == Cardinality(wrote[p])
             new == Cardinality(wrote[p] \cup {b})
  <2>4. old \in Nat /\ new = IF b \in wrote[p] THEN old ELSE old + 1
    BY <1>0, FS_AddElement, FS_CardinalityType DEF CallsInv
  <2>5. new <= MAXOPBLOCKS
    <3>1. new <= OpBlocks
      BY Zenon, <1>0, <2>1 DEF CallsInv
    <3>2. new \in Nat /\ OpBlocks <= MAXOPBLOCKS
      BY <2>4 DEF Reserved
    <3> HIDE DEF new
    <3> QED BY <1>0, <3>1, <3>2
  <2> HIDE DEF old, new
  <2>6. \A q \in Ops : Cardinality(wrote'[q]) = IF q = p THEN new ELSE Cardinality(wrote[q])
    BY Zenon, <2>3 DEF new, Ops
  <2>7. ASSUME NEW x \in Spare' PROVE x \in Spare
    <3>1. x \in Ops \X (1 .. MAXOPBLOCKS) /\ x[2] > Cardinality(wrote'[x[1]]) /\ x[1] \in Ops /\ x[2] \in Nat
      BY <2>2 DEF Spare, SpareOf
    <3>2. x[2] > Cardinality(wrote[x[1]])
      BY <2>4, <2>6, <3>1 DEF old
    <3> QED BY <3>1, <3>2 DEF Spare, SpareOf
  <2>8. CASE b \in Elems(lh)
    BY Zenon, <1>4, <2>1, <2>7, <2>8 DEF Absorbed
  <2>9. CASE b \notin Elems(lh)
    <3>1. Len(lh') = Len(lh) + 1
      BY Zenon, <1>0, <2>1, <2>9, AbsorbedElems DEF Types
    <3>2. new = old + 1
      BY Zenon, <1>0, <2>4, <2>9 DEF CallsInv
    <3>3. <<p, new>> \in Spare
      BY <1>0, <2>2, <2>4, <2>5, <3>2 DEF Spare, SpareOf, old
    <3>4. <<p, new>> \notin Spare'
      BY <2>2, <2>4, <2>6, <3>2 DEF Spare, SpareOf
    <3>5. Spare' \subseteq Spare \ {<<p, new>>}
      BY Zenon, <2>7, <3>4
    <3>6. IsFiniteSet(Spare \ {<<p, new>>}) /\ Cardinality(Spare \ {<<p, new>>}) = Cardinality(Spare) - 1
      BY Zenon, <1>2, <3>3, FS_RemoveElement
    <3>7. Cardinality(Spare') <= Cardinality(Spare) - 1
      BY <3>5, <3>6, FS_Subset
    <3> QED BY <1>0, <1>2, <1>3, <2>1, <3>1, <3>7 DEF SpaceInv
  <2> QED BY <2>8, <2>9
<1>9. ASSUME Ops' = {}, Len(head') <= LOGSIZE, Len(lh') <= LOGSIZE, Len(lh') \in Nat PROVE SpaceInv'
  <2>1. Spare' = {}
    BY <1>9 DEF Spare, SpareOf
  <2> QED BY <1>9, <2>1, FS_EmptySet DEF SpaceInv
<1>10. CASE Commit \/ Recovery
  <2>1. phase # "idle" /\ pc' = pc
    BY Zenon, <1>10 DEF Commit, Recovery, WriteLog, WriteHead, InstallTrans, RedoTrans, Install, Erase, Clear,
                 EraseHead, ReadHead
  <2>2. Ops' = {}
    BY Zenon, <1>0, <2>1 DEF CallsInv, Ops
  <2>3. Len(lh) <= LOGSIZE /\ Len(head) <= LOGSIZE /\ Len(head) \in Nat
    BY SMTT(60), <1>0, <1>2, <1>3 DEF SpaceInv, Types
  <2>4. lh' \in {lh, head, << >>} /\ head' \in {lh, head, << >>}
    BY <1>10 DEF Commit, Recovery, WriteLog, WriteHead, InstallTrans, RedoTrans, Install, Erase, Clear,
                 EraseHead, ReadHead
  <2>5. Len(lh') <= LOGSIZE /\ Len(head') <= LOGSIZE /\ Len(lh') \in Nat
    BY SMTT(60), <1>0, <1>3, <2>3, <2>4
  <2> QED BY Zenon, <1>9, <2>2, <2>5
<1>11. CASE Crash
  <2>1. lh' = << >> /\ head' = head /\ Ops' = {}
    BY <1>11 DEF Crash, Ops
  <2> QED BY <1>0, <1>9, <2>1 DEF SpaceInv
<1>12. ASSUME NEW p \in Procs, EndCommit(p) PROVE SpaceInv'
  <2>1. phase = "committed" /\ UNCHANGED <<head, lh, wrote>>
    BY Zenon, <1>12 DEF EndCommit
  <2>2. Ops' = {}
    BY Zenon, <1>0, <1>12, <2>1 DEF EndCommit, CallsInv, Ops, Woken, Types
  <2> QED BY Zenon, <1>4, <2>1, <2>2 DEF Spare, SpareOf
<1>13. ASSUME NEW p \in Procs, NEW b \in Blocks, LogCheck(p, b) \/ LogPanic(p, b) PROVE SpaceInv'
  BY Zenon, <1>5, <1>13 DEF LogCheck, LogPanic
<1>14. ASSUME NEW b \in Blocks, Fill(b) \/ Recycle(b) PROVE SpaceInv'
  BY <1>5, <1>14 DEF Fill, Recycle
<1> QED
  BY Zenon, <1>5, <1>6, <1>7, <1>8, <1>10, <1>11, <1>12, <1>13, <1>14 DEF Next, vars
-----------------------------------------------------------------------------
(* The invariants *)

\* A file system made by mkfs satisfies the invariant.
LEMMA InitIInv == ASSUME Reserved, Init PROVE IInv
<1> USE LogAssumption DEF Init
<1>1. Types
  <2>1. panicked \in BOOLEAN
    BY Zenon
  <2>2. disk \in [Blocks -> Vals] /\ logBlocks \in [1 .. LOGSIZE -> Vals] /\ head \in Seq(Blocks) /\ dirty \subseteq Blocks
    OBVIOUS
  <2>3. lh \in Seq(Blocks) /\ tail \in Nat /\ phase \in Recovering /\ cache \in [Blocks -> Vals \cup {NotCached}]
    BY DEF Recovering
  <2>4. /\ pc \in [Procs -> {"idle", "begin", "sleep", "op", "commit"}]
        /\ wrote \in [Procs -> SUBSET Blocks] /\ held \in [Procs -> SUBSET Blocks]
    BY Zenon
  <2> QED BY SMTT(60), <2>1, <2>2, <2>3, <2>4 DEF Types
<1>2. Ops = {}
  BY Zenon DEF Ops
<1>3. CallsInv
  BY Zenon, <1>2, FS_EmptySet DEF CallsInv
<1>4. SpaceInv
  <2>1. Spare = {}
    BY Zenon, <1>2 DEF Spare, SpareOf
  <2> QED BY <2>1, FS_EmptySet DEF SpaceInv
<1>5. HeadInv /\ CacheInv /\ LoggedInv
  BY DEF HeadInv, CacheInv, LoggedInv, Distinct, Elems
<1> HIDE DEF Init
<1> QED BY Zenon, <1>1, <1>3, <1>4, <1>5 DEF IInv

\* A step of the log, of a call or of the machine keeps the invariant.
LEMMA NextIInv == ASSUME Reserved, IInv, [Next]_vars PROVE IInv'
<1>1. Len(lh) <= LOGSIZE
  <2>1. IsFiniteSet(Ops)
    BY FS_Subset DEF Reserved, Ops
  <2>2. Cardinality(Spare) \in Nat
    BY <2>1, SpareBound DEF Spare
  <2> QED BY <2>2, LogAssumption DEF SpaceInv, Types, IInv
<1>2. Types'
  BY <1>1, TypesStep DEF IInv
<1> QED BY Zenon, <1>1, <1>2, CallsStep, SpaceStep, ContentStep DEF IInv, ContentInv

\* The log, the cache and the disk agree in every phase of a commit and of a recovery,
\* and the reservations of begin_op suffice (log.c:115-228).
THEOREM LogInductive == ASSUME Reserved PROVE Spec => []IInv
<1>1. Init => IInv
  BY InitIInv
<1>2. IInv /\ [Next]_vars => IInv'
  BY NextIInv
<1> QED BY <1>1, <1>2, PTL DEF Spec

(* Properties of the runs *)

\* Between transactions the log is empty, in memory and on the disk, and no buffer waits
\* to be written (end_op and commit, log.c:145-200).
THEOREM LogQuiet == ASSUME Reserved PROVE Spec => []QuietLogEmpty
<1>1. IInv => QuietLogEmpty
  <2> SUFFICES ASSUME IInv, phase = "idle", outstanding = 0 PROVE lh = << >> /\ head = << >> /\ dirty = {}
    BY DEF QuietLogEmpty
  <2>1. IsFiniteSet(Ops) /\ outstanding = Cardinality(Ops)
    BY FS_Subset DEF Reserved, Ops, outstanding
  <2>2. Ops = {}
    BY Zenon, <2>1, FS_EmptySet
  <2>3. lh = << >>
    BY <2>2 DEF IInv, CallsInv
  <2> QED BY <2>3 DEF IInv, HeadInv, CacheInv, Elems
<1> QED BY <1>1, LogInductive, PTL

\* A call asleep in begin_op is never forgotten: a commit or a call that has yet to end
\* will wake it (log.c:129-133, 159 and 169).
THEOREM LogWaker == ASSUME Reserved PROVE Spec => []SleeperHasWaker
<1>1. Init => SleeperHasWaker
  BY Zenon DEF Init, SleeperHasWaker
<1>2. ASSUME IInv, SleeperHasWaker, [Next]_vars PROVE SleeperHasWaker'
  <2> USE DEF diskVars, memVars
  <2>0. Types /\ CallsInv
    BY <1>2 DEF IInv
  <2>1. CASE UNCHANGED <<phase, pc>>
    BY Zenon, <1>2, <2>1 DEF SleeperHasWaker
  <2>2. ASSUME NEW p \in Procs, BeginOp(p) PROVE SleeperHasWaker'
    <3>1. UNCHANGED <<phase, lh>> /\ pc[p] \in {"idle", "begin"} /\ phase \notin Recovering
      BY Zenon, <2>2 DEF BeginOp, Running
    <3>2. \A q \in Procs : q # p => pc'[q] = pc[q]
      BY Zenon, <2>0, <2>2 DEF BeginOp, Types
    <3>3. pc'[p] = "sleep" => phase \in Committing \/ Full
      BY <2>0, <2>2 DEF BeginOp, Types
    <3>4. Full => phase \in Committing \/ Ops # {}
      <4> SUFFICES ASSUME phase \notin Committing, Ops = {} PROVE ~Full
        OBVIOUS
      <4>1. lh = << >> /\ outstanding = 0
        BY Zenon, <2>0, <3>1, FS_EmptySet DEF Types, CallsInv, Ops, outstanding
      <4>2. Len(lh) = 0 /\ (outstanding + 1) * MAXOPBLOCKS = MAXOPBLOCKS
        BY <4>1, LogAssumption
      <4> QED BY <4>2, LogAssumption DEF Full
    <3>5. \A q \in Procs : pc[q] = "op" => q # p
      BY Zenon, <3>1
    <3> QED BY Zenon, <1>2, <3>1, <3>2, <3>3, <3>4, <3>5 DEF SleeperHasWaker, Ops
  <2>3. ASSUME NEW p \in Procs, EndOp(p) PROVE SleeperHasWaker'
    BY <2>0, <2>3 DEF EndOp, Woken, Types, SleeperHasWaker
  <2>4. ASSUME NEW p \in Procs, EndOpLast(p) PROVE SleeperHasWaker'
    BY Zenon, <2>4 DEF EndOpLast, SleeperHasWaker, Committing
  <2>5. ASSUME NEW p \in Procs, EndCommit(p) PROVE SleeperHasWaker'
    BY <2>0, <2>5 DEF EndCommit, Woken, Types, SleeperHasWaker
  <2>6. CASE Commit
    <3>1. pc' = pc /\ phase' \in Committing
      BY <2>6 DEF Commit, WriteLog, WriteHead, InstallTrans, Install, Erase, EraseHead, Committing
    <3> QED BY Zenon, <3>1 DEF SleeperHasWaker
  <2>7. CASE Recovery
    <3>1. pc' = pc /\ phase \in Recovering
      BY Zenon, <2>7 DEF Recovery, ReadHead, RedoTrans, Install, Clear, EraseHead, Recovering
    <3>2. \A p \in Procs : pc[p] # "sleep"
      BY Zenon, <1>2, <2>0, <3>1 DEF SleeperHasWaker, CallsInv, Ops, Recovering, Committing
    <3> QED BY Zenon, <3>1, <3>2 DEF SleeperHasWaker
  <2>8. CASE Crash
    BY <2>8 DEF Crash, SleeperHasWaker
  <2>9. ASSUME NEW p \in Procs, NEW b \in Blocks, LogCheck(p, b) \/ LogPanic(p, b) PROVE SleeperHasWaker'
    BY Zenon, <2>1, <2>9 DEF LogCheck, LogPanic
  <2>10. ASSUME NEW p \in Procs, NEW b \in Blocks, NEW v \in Vals, LogWrite(p, b, v) PROVE SleeperHasWaker'
    BY Zenon, <2>1, <2>10 DEF LogWrite
  <2>11. ASSUME NEW b \in Blocks, Fill(b) \/ Recycle(b) PROVE SleeperHasWaker'
    BY <2>1, <2>11 DEF Fill, Recycle
  <2> QED
    BY Zenon, <1>2, <2>1, <2>2, <2>3, <2>4, <2>5, <2>6, <2>7, <2>8, <2>9, <2>10, <2>11 DEF Next, vars
<1> QED BY <1>1, <1>2, LogInductive, PTL DEF Spec

\* The reservations of begin_op are enough for what log_write tests (log.c:216), before it
\* looks for the block in the log and against a log that is as long as the header.
Roomy == Reserved /\ OpBlocks < MAXOPBLOCKS /\ LOGSIZE + OpBlocks + 1 < Size + MAXOPBLOCKS

\* No call finds the log full, if the calls leave some of what they reserve.
THEOREM LogNeverFull == ASSUME Roomy PROVE Spec => []NeverTooBig
<1>0. Reserved /\ OpBlocks < MAXOPBLOCKS /\ LOGSIZE + OpBlocks + 1 < Size + MAXOPBLOCKS
  BY DEF Roomy
<1>1. Init => NeverTooBig
  BY DEF Init, NeverTooBig
<1>2. ASSUME IInv, NEW p \in Procs, NEW b \in Blocks, Holds(p, b) PROVE ~TooBig
  <2>1. Types /\ CallsInv /\ SpaceInv /\ pc[p] = "op" /\ p \in Ops
    BY SMTT(60), <1>2 DEF IInv, Holds, Ops
  <2>2. IsFiniteSet(wrote[p]) /\ IsFiniteSet(wrote[p] \cup {b})
    BY Zenon, <2>1, FS_AddElement DEF CallsInv
  <2>3. Cardinality(wrote[p]) \in Nat /\ Cardinality(wrote[p]) <= Cardinality(wrote[p] \cup {b})
    BY Zenon, <2>2, FS_Subset, FS_CardinalityType
  <2>4. Cardinality(wrote[p]) <= OpBlocks
    BY <1>2, <2>2, <2>3, FS_CardinalityType, LogAssumption DEF Holds
  <2>5. IsFiniteSet(Ops)
    BY <1>0, FS_Subset DEF Reserved, Ops
  <2>6. IsFiniteSet(Spare) /\ Cardinality(Spare) \in Nat
    BY Zenon, <2>5, SpareBound DEF Spare
  <2> DEFINE Mine == {p} \X (OpBlocks + 1 .. MAXOPBLOCKS)
  <2>7. Mine \subseteq Spare
    BY <2>1, <2>3, <2>4, LogAssumption DEF Spare, SpareOf
  <2>8. Cardinality(Mine) = MAXOPBLOCKS - OpBlocks
    <3>1. OpBlocks \in Nat /\ MAXOPBLOCKS \in Nat
      BY LogAssumption
    <3>2. IsFiniteSet(OpBlocks + 1 .. MAXOPBLOCKS) /\ Cardinality(OpBlocks + 1 .. MAXOPBLOCKS) = MAXOPBLOCKS - OpBlocks
      BY <1>0, <3>1, FS_Interval
    <3>3. IsFiniteSet({p}) /\ Cardinality({p}) = 1
      BY Zenon, FS_Singleton
    <3> DEFINE R == OpBlocks + 1 .. MAXOPBLOCKS
    <3> HIDE DEF R
    <3>4. IsFiniteSet(R) /\ Cardinality(R) = MAXOPBLOCKS - OpBlocks
      BY Zenon, <3>2 DEF R
    <3>5. Cardinality({p} \X R) = Cardinality({p}) * Cardinality(R)
      BY Zenon, <3>3, <3>4, FS_Product
    <3>6. Cardinality({p} \X R) = MAXOPBLOCKS - OpBlocks
      BY <3>1, <3>3, <3>4, <3>5
    <3> QED BY <3>6 DEF R
  <2>9. MAXOPBLOCKS - OpBlocks <= Cardinality(Spare)
    BY <2>6, <2>7, <2>8, FS_Subset
  <2>10. Len(lh) + Cardinality(Spare) <= LOGSIZE /\ Len(lh) \in Nat
    BY <2>1 DEF SpaceInv, Types
  <2> QED BY SMTT(60), <1>0, <2>6, <2>9, <2>10, LogAssumption DEF TooBig
<1>3. ASSUME IInv, NeverTooBig, [Next]_vars PROVE NeverTooBig'
  <2>1. ASSUME NEW p \in Procs, NEW b \in Blocks PROVE ~LogPanic(p, b)
    BY <1>2, <1>3 DEF LogPanic
  <2>2. CASE panicked' = panicked
    BY Zenon, <1>3, <2>2 DEF NeverTooBig
  <2>3. CASE Crash
    BY Zenon, <2>3 DEF Crash, NeverTooBig
  <2>4. CASE UNCHANGED vars
    BY Zenon, <2>2, <2>4 DEF vars
  <2>5. ASSUME NEW b \in Blocks, Fill(b) \/ Recycle(b) PROVE panicked' = panicked
    BY Zenon, <2>5 DEF Fill, Recycle
  <2>6. ASSUME NEW p \in Procs, BeginOp(p) \/ EndOp(p) \/ EndOpLast(p) \/ EndCommit(p) PROVE panicked' = panicked
    BY <2>6 DEF BeginOp, EndOp, EndOpLast, EndCommit
  <2>7. ASSUME NEW p \in Procs, NEW b \in Blocks, LogCheck(p, b) PROVE panicked' = panicked
    BY Zenon, <2>7 DEF LogCheck
  <2>8. ASSUME NEW p \in Procs, NEW b \in Blocks, NEW v \in Vals, LogWrite(p, b, v) PROVE panicked' = panicked
    BY <2>8 DEF LogWrite
  <2>9. CASE Commit \/ Recovery
    <3>1. panicked' = panicked
      BY <2>9 DEF Commit, WriteLog, WriteHead, InstallTrans, Install, Erase, EraseHead, Recovery, ReadHead,
                  RedoTrans, Clear
    <3> QED BY Zenon, <2>2, <3>1
  <2> QED BY Zenon, <1>3, <2>1, <2>2, <2>3, <2>4, <2>5, <2>6, <2>7, <2>8, <2>9 DEF Next
<1> QED BY <1>0, <1>1, <1>3, LogInductive, PTL DEF Spec
-----------------------------------------------------------------------------
(* Refinement *)

\* The place of an element of a list without repetitions.
LEMMA PlaceOf ==
  ASSUME NEW s, Distinct(s), NEW i \in 1 .. Len(s)
  PROVE  (CHOOSE j \in 1 .. Len(s) : s[j] = s[i]) = i
BY SMTT(60) DEF Distinct

\* What recovery would make of a block, from the header on the disk (log.c:115-121).
LEMMA RecoveredBlock ==
  ASSUME Distinct(head)
  PROVE  /\ \A i \in 1 .. Len(head) : head[i] \in Blocks => Recovered[head[i]] = logBlocks[i]
         /\ \A b \in Blocks : (\A i \in 1 .. Len(head) : head[i] # b) => Recovered[b] = disk[b]
<1>1. ASSUME NEW i \in 1 .. Len(head), head[i] \in Blocks PROVE Recovered[head[i]] = logBlocks[i]
  BY Zenon, <1>1, PlaceOf DEF Recovered
<1>2. ASSUME NEW b \in Blocks, \A i \in 1 .. Len(head) : head[i] # b PROVE Recovered[b] = disk[b]
  BY Zenon, <1>2 DEF Recovered
<1> QED BY Zenon, <1>1, <1>2

\* The same of the state after a step.
LEMMA RecoveredBlockNext ==
  ASSUME Distinct(head')
  PROVE  /\ \A i \in 1 .. Len(head') : head'[i] \in Blocks => Recovered'[head'[i]] = logBlocks'[i]
         /\ \A b \in Blocks : (\A i \in 1 .. Len(head') : head'[i] # b) => Recovered'[b] = disk'[b]
<1>1. ASSUME NEW i \in 1 .. Len(head'), head'[i] \in Blocks PROVE Recovered'[head'[i]] = logBlocks'[i]
  BY Zenon, <1>1, PlaceOf DEF Recovered
<1>2. ASSUME NEW b \in Blocks, \A i \in 1 .. Len(head') : head'[i] # b PROVE Recovered'[b] = disk'[b]
  BY Zenon, <1>2 DEF Recovered
<1> QED BY <1>1, <1>2

\* While no block is left to redo, the home location of a block that is not dirty holds
\* what recovery would leave there.
LEMMA CleanRecovered ==
  ASSUME IInv, phase \notin {"read_head", "redo"}, NEW b \in Blocks \ dirty
  PROVE  Recovered[b] = disk[b]
<1>1. HeadInv /\ CacheInv /\ LoggedInv /\ Types /\ Distinct(head)
  BY Zenon DEF IInv, HeadInv
<1>2. CASE \A i \in 1 .. Len(head) : head[i] # b
  BY Zenon, <1>1, <1>2, RecoveredBlock
<1>3. ASSUME NEW i \in 1 .. Len(head), head[i] = b PROVE Recovered[b] = disk[b]
  <2>1. head # << >>
    OBVIOUS
  <2>2. phase \in {"install", "erase", "clear"} /\ head = lh
    BY Zenon, <1>1, <2>1 DEF Types, HeadInv, Committing, Recovering
  <2>3. disk[b] = logBlocks[i]
    <3>1. CASE phase = "install"
      <4>1. ~(i \in tail + 1 .. Len(lh))
        BY Zenon, <1>1, <1>3, <2>2, <3>1 DEF CacheInv
      <4>2. i \in 1 .. tail
        BY <1>1, <2>2, <4>1 DEF Types
      <4> QED BY Zenon, <1>1, <1>3, <2>2, <3>1, <4>2 DEF LoggedInv
    <3>2. CASE phase \in {"erase", "clear"}
      BY Zenon, <1>1, <1>3, <2>2, <3>2 DEF LoggedInv
    <3> QED BY Zenon, <2>2, <3>1, <3>2
  <2>4. Recovered[b] = logBlocks[i]
    BY <1>1, <1>3, RecoveredBlock
  <2> QED BY <2>3, <2>4
<1> QED BY Zenon, <1>2, <1>3

\* Functions on the blocks are equal when they agree on each.
LEMMA SameRecovered == (\A b \in Blocks : Recovered'[b] = Recovered[b]) => Recovered' = Recovered
BY Zenon DEF Recovered

\* What callers see, the cache before the disk, is the same if it is for each block.
LEMMA SameCurrent ==
  ASSUME \A b \in Blocks : (IF cache'[b] = NotCached THEN Recovered'[b] ELSE cache'[b])
                           = (IF cache[b] = NotCached THEN Recovered[b] ELSE cache[b])
  PROVE  Current' = Current
BY DEF Current

\* install_trans, in a commit and in the recovery, changes nothing that a caller sees
\* (log.c:69-83).
LEMMA InstallStutters ==
  ASSUME IInv, NEW here \in {"install", "redo"}, NEW next, Install(here, next)
  PROVE  Recovered' = Recovered /\ Current' = Current
<1>1. HeadInv /\ CacheInv /\ LoggedInv /\ Types /\ Distinct(head) /\ phase = here /\ head = lh
  BY DEF IInv, HeadInv, Install
<1>2. UNCHANGED <<logBlocks, head, lh>>
  BY DEF Install
<1>3. CASE tail < Len(lh)
  <2>1. tail + 1 \in 1 .. Len(lh)
    BY <1>1, <1>3 DEF Types
  <2> DEFINE b == lh[tail + 1]
             v == logBlocks[tail + 1]
  <2>2. b \in Blocks
    BY <1>1, <2>1 DEF Types
  <2>3. disk' = [disk EXCEPT ![b] = v] /\ cache' = [cache EXCEPT ![b] = v]
    BY Zenon, <1>3 DEF Install
  <2>4. Recovered[b] = v
    BY Zenon, <1>1, <2>1, <2>2, RecoveredBlock
  <2>5. ASSUME NEW c \in Blocks PROVE Recovered'[c] = Recovered[c]
    <3>1. CASE \E i \in 1 .. Len(head) : head[i] = c
      BY Zenon, <1>2, <3>1 DEF Recovered
    <3>2. CASE \A i \in 1 .. Len(head) : head[i] # c
      <4>1. c # b
        BY Zenon, <1>1, <2>1, <3>2
      <4>2. disk'[c] = disk[c]
        BY Zenon, <1>1, <2>3, <4>1 DEF Types
      <4> QED BY Zenon, <1>2, <3>2, <4>2 DEF Recovered
    <3> QED BY Zenon, <3>1, <3>2
  <2>6. cache[b] \in {NotCached, v}
    <3>1. CASE here = "install"
      BY SMTT(60), <1>1, <2>1, <3>1 DEF LoggedInv, Types
    <3>2. CASE here = "redo"
      <4>1. \A i \in 1 .. tail : lh[i] # b
        BY SMTT(60), <1>1, <1>3, <2>1 DEF Distinct, Types
      <4> QED BY Zenon, <1>1, <2>2, <3>2, <4>1 DEF CacheInv
    <3> QED BY Zenon, <3>1, <3>2
  <2>7. cache'[b] = v /\ \A c \in Blocks : c # b => cache'[c] = cache[c]
    BY Zenon, <1>1, <2>2, <2>3 DEF Types
  <2> HIDE DEF b, v
  <2>8. Current' = Current
    BY Zenon, <2>2, <2>4, <2>5, <2>6, <2>7, SameCurrent
  <2> QED BY Zenon, <2>5, <2>8, SameRecovered
<1>4. CASE ~(tail < Len(lh))
  <2>1. UNCHANGED <<disk, cache>>
    BY Zenon, <1>4 DEF Install
  <2> QED BY Zenon, <1>2, <2>1 DEF Recovered, Current
<1> QED BY Zenon, <1>3, <1>4

\* Emptying the header changes nothing that a caller sees, as every block is home (log.c:117-120, 208-209).
LEMMA EraseStutters ==
  ASSUME IInv, NEW here \in {"erase", "clear"}, NEW next, EraseHead(here, next)
  PROVE  Recovered' = Recovered /\ Current' = Current
<1>1. phase = here /\ head' = << >> /\ UNCHANGED <<disk, cache, logBlocks>>
  BY Zenon DEF EraseHead
<1>2. dirty = {}
  BY Zenon, <1>1 DEF IInv, CacheInv, Recovering
<1>3. ASSUME NEW b \in Blocks PROVE Recovered'[b] = Recovered[b]
  <2>1. Recovered[b] = disk[b]
    BY Zenon, <1>1, <1>2, CleanRecovered
  <2> QED BY <1>1, <2>1 DEF Recovered
<1> QED BY Zenon, <1>1, <1>3, SameRecovered, SameCurrent

\* bread and the recycling of a buffer change nothing that a caller sees (bio.c:61-106).
LEMMA BufferStutters ==
  ASSUME IInv, NEW b \in Blocks, Fill(b) \/ Recycle(b)
  PROVE  Recovered' = Recovered /\ Current' = Current
<1>1. UNCHANGED <<disk, logBlocks, head>> /\ phase \notin Recovering
  BY Zenon DEF Fill, Recycle, Running, diskVars
<1>2. Recovered' = Recovered
  BY <1>1 DEF Recovered
<1>3. Types /\ CacheInv
  BY Zenon DEF IInv
<1>4. b \notin dirty
  BY Zenon, <1>3 DEF Fill, Recycle, Recyclable, CacheInv
<1>5. Recovered[b] = disk[b] /\ cache[b] \in {NotCached, disk[b]}
  BY Zenon, <1>1, <1>3, <1>4, CleanRecovered DEF CacheInv, Recovering
<1>6. cache'[b] \in {NotCached, disk[b]} /\ \A c \in Blocks : c # b => cache'[c] = cache[c]
  BY Zenon, <1>3, <1>5 DEF Fill, Recycle, bread, Types
<1> QED BY Zenon, <1>2, <1>5, <1>6, SameCurrent

\* The write of the header makes the transaction durable, all of it (log.c:207).
LEMMA WriteHeadCommits ==
  ASSUME IInv, WriteHead
  PROVE  Recovered' = Current /\ Current' = Current /\ Ops = {}
<1>1. HeadInv /\ CacheInv /\ LoggedInv /\ Types /\ CallsInv
  BY DEF IInv
<1>2. phase = "write_head" /\ head' = lh /\ UNCHANGED <<disk, logBlocks, cache>> /\ head = << >>
  BY Zenon, <1>1 DEF WriteHead, memVars, HeadInv
<1>3. dirty = Elems(lh)
  BY Zenon, <1>1, <1>2 DEF CacheInv
<1>4. ASSUME NEW b \in Blocks
      PROVE  Recovered'[b] = IF cache[b] = NotCached THEN Recovered[b] ELSE cache[b]
  <2>1. CASE b \in dirty
    <3>1. PICK i \in 1 .. Len(lh) : lh[i] = b
      BY Zenon, <1>3, <2>1 DEF Elems
    <3>2. logBlocks[i] = cache[b] /\ cache[b] # NotCached
      BY Zenon, <1>1, <1>2, <2>1, <3>1 DEF LoggedInv, CacheInv
    <3>3. Distinct(head')
      BY Zenon, <1>1, <1>2 DEF HeadInv
    <3>4. Recovered'[b] = logBlocks[i]
      BY Zenon, <1>2, <3>1, <3>3, RecoveredBlockNext
    <3> QED BY Zenon, <3>2, <3>4
  <2>2. CASE b \notin dirty
    <3>1. cache[b] \in {NotCached, disk[b]}
      BY Zenon, <1>1, <2>2 DEF CacheInv
    <3>2. Recovered[b] = disk[b]
      BY Zenon, <1>2, <2>2, CleanRecovered
    <3>3. \A i \in 1 .. Len(head') : head'[i] # b
      BY Zenon, <1>2, <1>3, <2>2 DEF Elems
    <3>4. Recovered'[b] = disk[b]
      BY SMTT(60), <1>2, <3>3 DEF Recovered
    <3> QED BY Zenon, <3>1, <3>2, <3>4
  <2> QED BY Zenon, <2>1, <2>2
<1>5. Recovered' = Current
  BY ZenonT(60), <1>4 DEF Recovered, Current
<1>6. Current' = Current
  BY Zenon, <1>2, <1>4, SameCurrent
<1> QED BY <1>1, <1>2, <1>5, <1>6 DEF CallsInv

\* begin_op lets a call into a transaction that is open, or opens one when the one before
\* is on the disk (log.c:126-142).
LEMMA BeginStep ==
  ASSUME IInv, NEW p \in Procs, BeginOp(p)
  PROVE  T!Begin(p) \/ UNCHANGED <<Recovered, Current, Ops>>
<1>1. Types /\ CallsInv /\ HeadInv /\ CacheInv
  BY Zenon DEF IInv
<1>2. UNCHANGED <<Recovered, Current>>
  BY DEF BeginOp, diskVars, memVars, Recovered, Current
<1>3. pc' \in [Procs -> {"idle", "begin", "sleep", "op", "commit"}]
  BY <1>1 DEF BeginOp, Types
<1>4. CASE phase \in Committing \/ Full
  <2>1. Ops' = Ops
    BY Zenon, <1>1, <1>4 DEF BeginOp, Ops, Types
  <2> QED BY Zenon, <1>2, <2>1
<1>5. CASE ~(phase \in Committing \/ Full)
  <2>1. Ops' = Ops \cup {p} /\ p \notin Ops
    BY SMTT(60), <1>1, <1>5 DEF BeginOp, Ops, Types
  <2>2. ASSUME Ops = {} PROVE Current = Recovered
    <3>1. phase = "idle" /\ lh = << >>
      BY Zenon, <1>1, <1>5, <2>2 DEF BeginOp, Running, Types, CallsInv
    <3>2. dirty = {}
      BY <1>1, <3>1 DEF CacheInv, Elems
    <3>3. ASSUME NEW b \in Blocks PROVE Recovered[b] = IF cache[b] = NotCached THEN Recovered[b] ELSE cache[b]
      <4>1. Recovered[b] = disk[b]
        BY Zenon, <3>1, <3>2, CleanRecovered
      <4>2. cache[b] \in {NotCached, disk[b]}
        BY Zenon, <1>1, <3>2 DEF CacheInv
      <4> QED BY Zenon, <4>1, <4>2
    <3> QED BY Zenon, <3>3 DEF Recovered, Current
  <2> QED BY Zenon, <1>2, <2>1, <2>2 DEF T!Begin, Ops
<1> QED BY <1>4, <1>5

\* Every step of the log is a step of the transactions, or one that nobody sees.
LEMMA LogStep == ASSUME Reserved, IInv, [Next]_vars PROVE [T!Next]_(T!vars)
<1> DEFINE Seen == UNCHANGED <<Recovered, Current, Ops>>
<1>0. Types /\ CallsInv /\ HeadInv /\ CacheInv
  BY DEF IInv
<1>1. ASSUME Seen PROVE [T!Next]_(T!vars)
  BY SMTT(60), <1>1 DEF T!vars, Ops
<1>2. ASSUME UNCHANGED <<disk, logBlocks, head, cache>> PROVE UNCHANGED <<Recovered, Current>>
  BY Zenon, <1>2 DEF Recovered, Current
<1>3. ASSUME UNCHANGED pc PROVE UNCHANGED Ops
  BY Zenon, <1>3 DEF Ops
<1> HIDE DEF Seen
<1>4. CASE UNCHANGED vars
  BY Zenon, <1>1, <1>2, <1>3, <1>4 DEF vars, diskVars, memVars, Seen
<1>5. ASSUME NEW b \in Blocks, Fill(b) \/ Recycle(b) PROVE [T!Next]_(T!vars)
  BY Zenon, <1>1, <1>3, <1>5, BufferStutters DEF Fill, Recycle, Seen
<1>6. ASSUME NEW p \in Procs, BeginOp(p) PROVE [T!Next]_(T!vars)
  BY <1>1, <1>6, BeginStep DEF T!Next, Seen
<1>7. ASSUME NEW p \in Procs, EndOp(p) \/ EndOpLast(p) PROVE [T!Next]_(T!vars)
  <2>1. UNCHANGED <<Recovered, Current>>
    BY ZenonT(60), <1>2, <1>7 DEF EndOp, EndOpLast, diskVars, memVars
  <2>2. p \in Ops /\ Ops' = Ops \ {p}
    BY Zenon, <1>0, <1>7 DEF EndOp, EndOpLast, Woken, Ops, Types
  <2>3. T!End(p)
    BY <2>1, <2>2 DEF T!End, Ops
  <2> QED BY SMTT(60), <2>3 DEF T!Next
<1>8. ASSUME NEW p \in Procs, EndCommit(p) PROVE [T!Next]_(T!vars)
  <2>1. UNCHANGED <<Recovered, Current>>
    BY Zenon, <1>2, <1>8 DEF EndCommit, diskVars, memVars
  <2>2. Ops' = Ops
    BY Zenon, <1>0, <1>8 DEF EndCommit, Woken, Ops, Types
  <2> QED BY Zenon, <1>1, <2>1, <2>2 DEF Seen
<1>9. ASSUME NEW p \in Procs, NEW b \in Blocks, LogCheck(p, b) \/ LogPanic(p, b) PROVE [T!Next]_(T!vars)
  BY Zenon, <1>1, <1>2, <1>3, <1>9 DEF LogCheck, LogPanic, diskVars, memVars, Seen
<1>10. ASSUME NEW p \in Procs, NEW b \in Blocks, NEW v \in Vals, LogWrite(p, b, v) PROVE [T!Next]_(T!vars)
  <2>1. p \in Ops /\ Ops' = Ops /\ Recovered' = Recovered
    BY Zenon, <1>0, <1>10 DEF LogWrite, CallsInv, Ops, Recovered, diskVars
  <2>2. v # NotCached
    BY LogAssumption
  <2>3. cache' = [cache EXCEPT ![b] = v]
    BY <1>10 DEF LogWrite
  <2>4. Current' = [Current EXCEPT ![b] = v]
    BY Zenon, <1>0, <2>1, <2>2, <2>3 DEF Current, Types
  <2>5. T!Write(p, b, v)
    BY Zenon, <2>1, <2>4 DEF T!Write, Ops
  <2> QED BY SMTT(60), <2>5 DEF T!Next
<1>11. CASE WriteLog
  <2>1. head = << >> /\ UNCHANGED <<disk, head, cache, pc>>
    BY Zenon, <1>0, <1>11 DEF WriteLog, HeadInv, memVars
  <2>2. Recovered' = Recovered
    BY <2>1 DEF Recovered
  <2> QED BY Zenon, <1>1, <1>3, <2>1, <2>2 DEF Current, Seen
<1>12. CASE WriteHead
  <2>1. Ops' = Ops
    BY Zenon, <1>3, <1>12 DEF WriteHead
  <2>2. T!Commit
    BY <1>12, <2>1, WriteHeadCommits DEF T!Commit, Ops
  <2> QED BY <2>2 DEF T!Next
<1>13. CASE InstallTrans \/ RedoTrans
  <2>1. pc' = pc
    BY <1>13 DEF InstallTrans, RedoTrans, Install
  <2>2. Recovered' = Recovered /\ Current' = Current
    BY Zenon, <1>13, InstallStutters DEF InstallTrans, RedoTrans
  <2> QED BY Zenon, <1>1, <1>3, <2>1, <2>2 DEF Seen
<1>14. CASE Erase \/ Clear
  <2>1. pc' = pc
    BY <1>14 DEF Erase, Clear, EraseHead
  <2>2. Recovered' = Recovered /\ Current' = Current
    BY Zenon, <1>14, EraseStutters DEF Erase, Clear
  <2> QED BY <1>1, <1>3, <2>1, <2>2 DEF Seen
<1>15. CASE ReadHead
  BY Zenon, <1>1, <1>2, <1>3, <1>15 DEF ReadHead, diskVars, Seen
<1>16. CASE Crash
  <2>1. Recovered' = Recovered
    BY <1>16 DEF Crash, diskVars, Recovered
  <2>2. \A b \in Blocks : cache'[b] = NotCached
    BY SMTT(60), <1>16 DEF Crash
  <2>3. Current' = Recovered
    BY Zenon, <2>1, <2>2 DEF Current, Recovered
  <2>4. Ops' = {}
    BY <1>16 DEF Crash, Ops
  <2>5. T!Crash
    BY <2>1, <2>3, <2>4 DEF T!Crash, Ops
  <2> QED BY ZenonT(60), <2>5 DEF T!Next
<1>17. CASE Commit \/ Recovery
  BY Zenon, <1>11, <1>12, <1>13, <1>14, <1>15, <1>17 DEF Commit, Recovery
<1> QED BY Zenon, <1>4, <1>5, <1>6, <1>7, <1>8, <1>9, <1>10, <1>16, <1>17 DEF Next

\* The log of log.c implements atomic transactions: whenever the machine stops, what
\* recovery leaves is what the last commit made durable.
THEOREM LogAtomic == ASSUME Reserved PROVE Spec => Atomic
<1>1. Init => T!Init
  <2> SUFFICES ASSUME Init PROVE T!Init
    BY Zenon
  <2>1. head = << >> /\ disk \in [Blocks -> Vals] /\ \A b \in Blocks : cache[b] = NotCached
    BY DEF Init
  <2>2. Recovered = [b \in Blocks |-> disk[b]]
    BY <2>1 DEF Recovered
  <2>3. Current = Recovered
    BY Zenon, <2>1, <2>2 DEF Current
  <2>4. {p \in Procs : pc[p] = "op"} = {}
    BY DEF Init
  <2> QED BY <2>1, <2>2, <2>3, <2>4 DEF T!Init
<1>2. IInv /\ [Next]_vars => [T!Next]_(T!vars)
  BY LogStep
<1> QED BY <1>1, <1>2, LogInductive, PTL DEF Spec, Atomic, T!Spec
====
