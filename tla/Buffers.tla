------------------------------ MODULE Buffers ------------------------------
(***************************************************************************)
(* The buffer cache (bio.c), its sleep locks (sleeplock.c) and the queue   *)
(* of the disk driver (ide.c, or memide.c for a disk in memory).           *)
(*                                                                         *)
(* A user of the cache calls bread, then one of: nothing, bwrite, or a     *)
(* change that log_write keeps in the cache with B_DIRTY; then brelse.  A  *)
(* user is such a stretch of a process.  A process that has two buffers at *)
(* once (log.c:74 and 181, fs.c:382 and 415) is two users, and the model   *)
(* leaves open in which order they go on.  Each step below is what one     *)
(* spin lock (bcache.lock, lk->lk, idelock) makes atomic.                  *)
(***************************************************************************)
EXTENDS Integers, FiniteSets, Sequences

CONSTANTS
  Users,       \* the callers of bread, one for each buffer a process may have
  NBUF,
  Blocks,
  MaxPinned,   \* blocks that log_write keeps dirty at a time (log.size - 1 in log.c: 29)
  MaxReads     \* bound: calls of bread

ASSUME BuffersAssumption ==
  IsFiniteSet(Users) /\ "none" \notin Blocks /\ NBUF \in Nat /\ MaxPinned \in Nat

VARIABLES
  buf,        \* bcache.buf: block ("none" before its first use), flags, lock.locked, refcnt, data
  lru,        \* the list from bcache.head.next, the most recently used buffer, on
  idequeue,
  drive,      \* what the disk was told to do by idestart
  disk,       \* data of each block
  medium,     \* "ide" or "memory": the driver that is linked in
  user,       \* the call each process is in
  breads,     \* calls of bread so far
  panicked    \* panic("bget: no buffers") or panic("iderw: nothing to do")

buffersVars == <<buf, lru, idequeue, drive, disk, medium, user, breads, panicked>>

Bufs == 1 .. NBUF

\* Two values of each block, so that one block's data is never another's.
Data(blk) == {<<blk, 0>>, <<blk, 1>>}
NoDrive   == [block |-> "none", write |-> FALSE, data |-> "none"]
NoCall    == [pc |-> "idle", buf |-> 0, block |-> "none", after |-> ""]

\* binit puts each buffer before the last.
Binit ==
  /\ buf = [b \in Bufs |-> [block |-> "none", valid |-> FALSE, dirty |-> FALSE, locked |-> FALSE, refcnt |-> 0, data |-> "none"]]
  /\ lru = [i \in Bufs |-> NBUF + 1 - i]

Goes(p, pc) == user' = [user EXCEPT ![p].pc = pc]

\* wakeup: the sleepers on b, in state asleep, look again.
Woken(asleep, b, again) ==
  [q \in Users |-> IF user[q].pc = asleep /\ user[q].buf = b THEN [user[q] EXCEPT !.pc = again] ELSE user[q]]
-----------------------------------------------------------------------------
(* bio.c *)

UnusedWrong == {i \in Bufs : buf[lru[i]].refcnt = 0}

\* Places in the list of the buffers that may be recycled.
Unused == {i \in Bufs : buf[lru[i]].refcnt = 0 /\ ~buf[lru[i]].dirty}

Oldest(places) == lru[CHOOSE i \in places : \A j \in places : j <= i]

BgetTo(p, blk, b, entry) ==
  /\ buf' = [buf EXCEPT ![b] = entry]
  /\ user' = [user EXCEPT ![p] = [@ EXCEPT !.pc = "lock", !.buf = b, !.block = blk]]
  /\ UNCHANGED panicked

\* bget, up to acquiresleep
Bget(p, blk) ==
  /\ user[p].pc = "idle" /\ breads < MaxReads /\ breads' = breads + 1
  /\ \/ \E b \in Bufs : buf[b].block = blk /\ BgetTo(p, blk, b, [buf[b] EXCEPT !.refcnt = buf[b].refcnt + 1])
     \/ /\ \A b \in Bufs : buf[b].block # blk
        /\ IF Unused = {} THEN panicked' = TRUE /\ UNCHANGED <<buf, user>>
           ELSE BgetTo(p, blk, Oldest(Unused),
                       [buf[Oldest(Unused)] EXCEPT !.block = blk, !.valid = FALSE, !.dirty = FALSE, !.refcnt = 1])
  /\ UNCHANGED <<lru, idequeue, drive, disk, medium>>

\* acquiresleep, and in bread the test of B_VALID: flags change under the sleep lock.
Acquiresleep(p) ==
  /\ user[p].pc = "lock"
  /\ LET b == user[p].buf
     IN  IF buf[b].locked THEN Goes(p, "locksleep") /\ UNCHANGED buf
         ELSE /\ buf' = [buf EXCEPT ![b].locked = TRUE]
              /\ user' = [user EXCEPT ![p].pc = IF buf[b].valid THEN "use" ELSE "iderw", ![p].after = "use"]
  /\ UNCHANGED <<lru, idequeue, drive, disk, medium, breads, panicked>>

\* The caller only reads the block.
UseRead(p) == user[p].pc = "use" /\ Goes(p, "brelse") /\ UNCHANGED <<buf, lru, idequeue, drive, disk, medium, breads, panicked>>

\* The caller changes the block, and log_write marks the buffer B_DIRTY.
UseLogWrite(p, v) ==
  /\ user[p].pc = "use"
  /\ Cardinality({b \in Bufs \ {user[p].buf} : buf[b].dirty}) < MaxPinned
  /\ buf' = [buf EXCEPT ![user[p].buf] = [@ EXCEPT !.data = v, !.dirty = TRUE]]
  /\ Goes(p, "brelse")
  /\ UNCHANGED <<lru, idequeue, drive, disk, medium, breads, panicked>>

\* bwrite, of data that the caller changes or of what log_write kept.
Bwrite(p, v) ==
  /\ user[p].pc = "use"
  /\ buf' = [buf EXCEPT ![user[p].buf] = [@ EXCEPT !.data = v, !.dirty = TRUE]]
  /\ user' = [user EXCEPT ![p] = [@ EXCEPT !.pc = "iderw", !.after = "brelse"]]
  /\ UNCHANGED <<lru, idequeue, drive, disk, medium, breads, panicked>>

SleepersWrong(b) == user

Sleepers(b) == Woken("locksleep", b, "lock")

\* releasesleep in brelse
Releasesleep(p) ==
  /\ user[p].pc = "brelse"
  /\ buf' = [buf EXCEPT ![user[p].buf].locked = FALSE]
  /\ user' = [Sleepers(user[p].buf) EXCEPT ![p].pc = "put"]
  /\ UNCHANGED <<lru, idequeue, drive, disk, medium, breads, panicked>>

DroppedWrong(b) == IF buf[b].refcnt = 1 THEN 0 ELSE buf[b].refcnt

Dropped(b) == buf[b].refcnt - 1

\* The list with b moved to its front
ToFront(b) ==
  LET at == CHOOSE i \in Bufs : lru[i] = b
  IN  [i \in Bufs |-> IF i = 1 THEN b ELSE IF i <= at THEN lru[i - 1] ELSE lru[i]]

\* The rest of brelse: the last user moves the buffer to the front of the list.
Brelse(p) ==
  /\ user[p].pc = "put"
  /\ LET b == user[p].buf
     IN  /\ buf' = [buf EXCEPT ![b].refcnt = Dropped(b)]
         /\ lru' = IF Dropped(b) = 0 THEN ToFront(b) ELSE lru
  /\ user' = [user EXCEPT ![p] = NoCall]
  /\ UNCHANGED <<idequeue, drive, disk, medium, breads, panicked>>
-----------------------------------------------------------------------------
(* ide.c and memide.c *)

IdestartWrong(b) == [block |-> buf[b].block, write |-> buf[b].dirty /\ ~buf[b].valid, data |-> buf[b].data]

\* The command, and for a write the data, go to the disk.
Idestart(b) == [block |-> buf[b].block, write |-> buf[b].dirty, data |-> buf[b].data]

\* The test at the top of iderw
NothingToDo(p) == panicked' = (buf[user[p].buf].valid /\ ~buf[user[p].buf].dirty)

\* iderw, up to its first sleep
Iderw(p) ==
  /\ medium = "ide" /\ user[p].pc = "iderw" /\ NothingToDo(p)
  /\ idequeue' = Append(idequeue, user[p].buf)
  /\ drive' = IF idequeue = << >> THEN Idestart(user[p].buf) ELSE drive
  /\ Goes(p, "iosleep")
  /\ UNCHANGED <<buf, lru, disk, medium, breads>>

NextRequest == IF Len(idequeue) = 1 THEN NoDrive ELSE Idestart(idequeue[2])

\* The disk has done what it was told and interrupts. (An interrupt with an empty
\* queue changes nothing.)
Ideintr ==
  /\ idequeue # << >> /\ drive # NoDrive
  /\ LET b == Head(idequeue)
     IN  /\ disk' = IF drive.write THEN [disk EXCEPT ![drive.block] = drive.data] ELSE disk
         /\ buf' = [buf EXCEPT ![b] = [@ EXCEPT !.data = IF buf[b].dirty THEN buf[b].data ELSE disk[drive.block],
                                                !.valid = TRUE, !.dirty = FALSE]]
         /\ user' = Woken("iosleep", b, "iowoken")
  /\ idequeue' = Tail(idequeue) /\ drive' = NextRequest
  /\ UNCHANGED <<lru, medium, breads, panicked>>

\* The loop of iderw after a wakeup
IderwAgain(p) ==
  /\ user[p].pc = "iowoken"
  /\ LET b == buf[user[p].buf] IN Goes(p, IF b.valid /\ ~b.dirty THEN user[p].after ELSE "iosleep")
  /\ UNCHANGED <<buf, lru, idequeue, drive, disk, medium, breads, panicked>>

\* iderw of memide.c copies the block at once.
MemIderw(p) ==
  /\ medium = "memory" /\ user[p].pc = "iderw" /\ NothingToDo(p)
  /\ LET b == buf[user[p].buf]
     IN  /\ disk' = IF b.dirty THEN [disk EXCEPT ![b.block] = b.data] ELSE disk
         /\ buf' = [buf EXCEPT ![user[p].buf] = [@ EXCEPT !.data = IF b.dirty THEN b.data ELSE disk[b.block],
                                                         !.valid = TRUE, !.dirty = FALSE]]
  /\ Goes(p, user[p].after)
  /\ UNCHANGED <<lru, idequeue, drive, medium, breads>>
-----------------------------------------------------------------------------
BuffersInit ==
  /\ Binit /\ idequeue = << >> /\ drive = NoDrive /\ disk = [blk \in Blocks |-> <<blk, 0>>] /\ panicked = FALSE
  /\ medium \in {"ide", "memory"} /\ user = [p \in Users |-> NoCall] /\ breads = 0

UserStep(p) ==
  \/ Acquiresleep(p) \/ UseRead(p) \/ Releasesleep(p) \/ Brelse(p)
  \/ \E v \in Data(user[p].block) : UseLogWrite(p, v) \/ Bwrite(p, v)
  \/ Iderw(p) \/ IderwAgain(p) \/ MemIderw(p)

BuffersNext ==
  /\ ~panicked
  /\ \/ \E p \in Users : UserStep(p) \/ \E blk \in Blocks : Bget(p, blk)
     \/ Ideintr

BuffersSpec == BuffersInit /\ [][BuffersNext]_buffersVars
-----------------------------------------------------------------------------
\* The callers of the cache share one value of each block, that of its valid buffer or
\* of the disk: a process that bread returns to has the block alone until brelse and
\* sees the last value any process gave it, whatever was recycled, read again or is
\* still on its way to the disk (bio.c:79 keeps what log.c changed in the cache).
Current(blk) ==
  LET cached == {b \in Bufs : buf[b].block = blk /\ buf[b].valid}
  IN  IF cached = {} THEN disk[blk] ELSE buf[CHOOSE b \in cached : TRUE].data

InHand(p) ==
  \/ user[p].pc \in {"use", "brelse"}
  \/ user[p].pc \in {"iderw", "iosleep", "iowoken"} /\ user[p].after = "brelse"

S == INSTANCE Store WITH
       Procs <- Users, Values <- UNION {Data(blk) : blk \in Blocks},
       value <- [blk \in Blocks |-> Current(blk)],
       view  <- [p \in Users |-> IF InHand(p) THEN [block |-> user[p].block, value |-> buf[user[p].buf].data]
                                 ELSE [block |-> "none", value |-> "none"]]

CacheIsStore == S!Spec

\* When bwrite returns the disk holds the buffer's data: the log writes its header only
\* after its blocks for this reason (bio.c:108 and the loop at ide.c:153).
BwriteDurable ==
  \A p \in Users : user[p].pc = "brelse" /\ user[p].after = "brelse" =>
    disk[user[p].block] = buf[user[p].buf].data

Active == {p \in Users : user[p].pc # "idle"}

\* bget counts a reference for each user between bget and brelse, so that a buffer in use
\* is never recycled, and none is held back that nobody uses and the log does not keep:
\* bget panics (bio.c:92) only if MaxPinned and the other users together have all NBUF
\* buffers, and iderw never does.
BuffersAccounted ==
  /\ \A b \in Bufs : buf[b].refcnt = Cardinality({p \in Active : user[p].buf = b})
  /\ panicked => NBUF <= MaxPinned + Cardinality(Active)

\* bget finds a buffer: the kernel asserts it by the panic behind its loop (bio.c:92).
BuffersSuffice == ~panicked

\* The disk works exactly while requests are queued, on the block of the first, and no
\* buffer is queued twice: ideintr takes the head of the queue for the request the disk
\* has finished (ide.c:105).
DriveHasHead ==
  /\ (idequeue = << >>) = (drive = NoDrive)
  /\ idequeue # << >> => drive.block = buf[Head(idequeue)].block
  /\ \A i, j \in DOMAIN idequeue : idequeue[i] = idequeue[j] => i = j

\* A process that sleeps on a buffer will be woken: the sleep lock it waits for is held
\* by another process, or its request is in the queue that the disk works off. Neither
\* releasesleep nor ideintr loses a sleeper that went to sleep beside it (sleeplock.c:26, ide.c:153).
SleepersAwaited ==
  /\ DriveHasHead
  /\ \A p \in Users :
       /\ user[p].pc = "locksleep" => \E q \in Users \ {p} : user[q].buf = user[p].buf
                                                           /\ user[q].pc \notin {"lock", "locksleep", "put"}
       /\ user[p].pc = "iosleep" => user[p].buf \in {idequeue[i] : i \in DOMAIN idequeue}
=============================================================================
