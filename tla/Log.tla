-------------------------------- MODULE Log --------------------------------
(***************************************************************************)
(* The write-ahead log of log.c over the buffer cache of bio.c.            *)
(*                                                                         *)
(* Every write of a disk block is a step of its own, so that a crash may   *)
(* fall between any two; the write of one block is atomic, as a block is   *)
(* one sector.  log.lock makes begin_op and the two sections of end_op     *)
(* atomic.  log_write tests the size of the transaction before it takes    *)
(* log.lock, so it is two steps; its caller changes the block and releases *)
(* its buffer in the second, as nobody sees the change while it holds the  *)
(* buffer.  A panic stops the machine, as it does on the one processor     *)
(* that the Makefile asks for.                                             *)
(*                                                                         *)
(* An operator named ...Wrong is the operator that follows it with a       *)
(* mistake in it, to see that a property notices.                          *)
(***************************************************************************)
EXTENDS Integers, Sequences, FiniteSets

CONSTANTS
  Procs,        \* the processes that make file system calls
  Blocks,       \* numbers of the blocks outside the log
  Vals,         \* contents of a block
  LOGSIZE,      \* entries of logheader.block
  Size,         \* log.size: blocks of the log on the disk, the header included
  MAXOPBLOCKS,  \* what begin_op reserves for a call
  OpBlocks,     \* bound: the blocks that a call really changes
  NotCached     \* no buffer holds the block

ASSUME LogAssumption ==
  /\ LOGSIZE \in Nat \ {0}
  /\ Size \in Nat \ {0}
  /\ MAXOPBLOCKS \in 1 .. LOGSIZE
  /\ OpBlocks \in Nat
  /\ NotCached \notin Vals

VARIABLES
  disk, logBlocks, head,  \* on the disk: home locations, log blocks, block numbers of the header
  cache, dirty,           \* buffers: contents, and the blocks with B_DIRTY
  lh,                     \* log.lh: block numbers of the open transaction
  phase, tail,            \* where commit or recovery is, with its loop index
  pc,                     \* where each process is
  wrote,                  \* the blocks the call of each process has changed
  held,                   \* the block that a process is in log_write with
  panicked

diskVars == <<disk, logBlocks, head>>
memVars  == <<cache, dirty, lh>>
vars     == <<diskVars, memVars, phase, tail, pc, wrote, held, panicked>>

Committing == {"write_log", "write_head", "install", "erase", "committed"}
Recovering == {"read_head", "redo", "clear"}

\* A machine that is switched on with a file system that mkfs made.
Init ==
  /\ disk \in [Blocks -> Vals]
  /\ logBlocks \in {[i \in 1 .. LOGSIZE |-> v] : v \in Vals}
  /\ head = << >>
  /\ cache = [b \in Blocks |-> NotCached]
  /\ dirty = {}
  /\ lh = << >>
  /\ phase = "read_head"
  /\ tail = 0
  /\ pc = [p \in Procs |-> "idle"]
  /\ wrote = [p \in Procs |-> {}]
  /\ held = [p \in Procs |-> {}]
  /\ panicked = FALSE

Elems(s) == {s[i] : i \in 1 .. Len(s)}

outstanding == Cardinality({p \in Procs : pc[p] = "op"})
-----------------------------------------------------------------------------
(* The buffer cache: bread of a block, and bget that recycles its buffer *)

Running == phase \notin Recovering /\ ~panicked

\* What bread returns: the buffer of the block, filled from the disk at need.
bread(b) == IF cache[b] = NotCached THEN disk[b] ELSE cache[b]

Fill(b) ==
  /\ Running
  /\ cache[b] = NotCached
  /\ cache' = [cache EXCEPT ![b] = bread(b)]
  /\ UNCHANGED <<diskVars, dirty, lh, phase, tail, pc, wrote, held, panicked>>

\* A buffer that is dirty counts as in use.
RecyclableWrong(b) == cache[b] # NotCached

Recyclable(b) == cache[b] # NotCached /\ b \notin dirty

Recycle(b) ==
  /\ Running
  /\ Recyclable(b)
  /\ cache' = [cache EXCEPT ![b] = NotCached]
  /\ UNCHANGED <<diskVars, dirty, lh, phase, tail, pc, wrote, held, panicked>>
-----------------------------------------------------------------------------
(* begin_op, log_write, end_op *)

\* This call might exhaust the log space.
Full == Len(lh) + (outstanding + 1) * MAXOPBLOCKS > LOGSIZE

BeginOp(p) ==
  /\ Running
  /\ pc[p] \in {"idle", "begin"}
  /\ pc' = [pc EXCEPT ![p] = IF phase \in Committing \/ Full THEN "sleep" ELSE "op"]
  /\ UNCHANGED <<diskVars, memVars, phase, tail, wrote, held, panicked>>

TooBig == Len(lh) >= LOGSIZE \/ Len(lh) >= Size - 1

\* Log absorption: a block is listed once.
Absorbed(b) == IF b \in Elems(lh) THEN lh ELSE Append(lh, b)

\* The caller holds the buffer of b, which no other process does then.
Holds(p, b) ==
  /\ pc[p] = "op" /\ held[p] = {}
  /\ \A q \in Procs : b \notin held[q]
  /\ Cardinality(wrote[p] \cup {b}) <= OpBlocks

LogCheck(p, b) ==
  /\ Running
  /\ Holds(p, b)
  /\ ~TooBig
  /\ held' = [held EXCEPT ![p] = {b}]
  /\ UNCHANGED <<diskVars, memVars, phase, tail, pc, wrote, panicked>>

LogPanic(p, b) ==
  /\ Running
  /\ Holds(p, b)
  /\ TooBig
  /\ panicked' = TRUE
  /\ UNCHANGED <<diskVars, memVars, phase, tail, pc, wrote, held>>

LogWrite(p, b, v) ==
  /\ Running
  /\ b \in held[p]
  /\ cache' = [cache EXCEPT ![b] = v]
  /\ dirty' = dirty \cup {b}
  /\ lh' = Absorbed(b)
  /\ wrote' = [wrote EXCEPT ![p] = @ \cup {b}]
  /\ held' = [held EXCEPT ![p] = {}]
  /\ UNCHANGED <<diskVars, phase, tail, pc, panicked>>

\* Nobody is woken.
WokenWrong(at) == at

\* wakeup(&log)
Woken(at) == [q \in Procs |-> IF at[q] = "sleep" THEN "begin" ELSE at[q]]

\* A call that is not the last wakes those that wait for its reservation.
EndOp(p) ==
  /\ Running
  /\ pc[p] = "op" /\ held[p] = {} /\ outstanding > 1
  /\ pc' = Woken([pc EXCEPT ![p] = "idle"])
  /\ wrote' = [wrote EXCEPT ![p] = {}]
  /\ UNCHANGED <<diskVars, memVars, phase, tail, held, panicked>>

EndOpLast(p) ==
  /\ Running
  /\ pc[p] = "op" /\ held[p] = {} /\ outstanding = 1
  /\ pc' = [pc EXCEPT ![p] = "commit"]
  /\ wrote' = [wrote EXCEPT ![p] = {}]
  /\ phase' = IF lh = << >> THEN "committed" ELSE "write_log"
  /\ tail' = 0
  /\ UNCHANGED <<diskVars, memVars, held, panicked>>
-----------------------------------------------------------------------------
(* commit, and recover_from_log, block by block *)

\* The loop does not advance.
WriteLogWrong ==
  /\ phase = "write_log" /\ ~panicked
  /\ tail < Len(lh)
  /\ logBlocks' = [logBlocks EXCEPT ![tail + 1] = bread(lh[tail + 1])]
  /\ UNCHANGED <<disk, head, memVars, phase, tail, pc, wrote, held, panicked>>

\* write_log copies a block of the cache to the log.
WriteLog ==
  /\ phase = "write_log" /\ ~panicked
  /\ IF tail < Len(lh)
       THEN /\ logBlocks' = [logBlocks EXCEPT ![tail + 1] = bread(lh[tail + 1])]
            /\ tail' = tail + 1
            /\ UNCHANGED phase
       ELSE /\ phase' = "write_head"
            /\ tail' = 0
            /\ UNCHANGED logBlocks
  /\ UNCHANGED <<disk, head, memVars, pc, wrote, held, panicked>>

\* The true point at which the transaction commits.
WriteHead ==
  /\ phase = "write_head" /\ ~panicked
  /\ head' = lh
  /\ phase' = "install"
  /\ UNCHANGED <<disk, logBlocks, memVars, tail, pc, wrote, held, panicked>>

\* install_trans copies a block of the log home, through its buffer.
Install(here, next) ==
  /\ phase = here /\ ~panicked
  /\ IF tail < Len(lh)
       THEN /\ disk' = [disk EXCEPT ![lh[tail + 1]] = logBlocks[tail + 1]]
            /\ cache' = [cache EXCEPT ![lh[tail + 1]] = logBlocks[tail + 1]]
            /\ dirty' = dirty \ {lh[tail + 1]}
            /\ tail' = tail + 1
            /\ UNCHANGED phase
       ELSE /\ phase' = next
            /\ tail' = 0
            /\ UNCHANGED <<disk, cache, dirty>>
  /\ UNCHANGED <<logBlocks, head, lh, pc, wrote, held, panicked>>

InstallTrans == Install("install", "erase")
RedoTrans    == Install("redo", "clear")

\* lh.n is not reset.
EraseHeadWrong(here, next) ==
  /\ phase = here /\ ~panicked
  /\ phase' = next
  /\ UNCHANGED <<diskVars, memVars, tail, pc, wrote, held, panicked>>

\* The header with n = 0.
EraseHead(here, next) ==
  /\ phase = here /\ ~panicked
  /\ lh' = << >>
  /\ head' = << >>
  /\ phase' = next
  /\ UNCHANGED <<disk, logBlocks, cache, dirty, tail, pc, wrote, held, panicked>>

Erase == EraseHead("erase", "committed")
Clear == EraseHead("clear", "idle")

EndCommit(p) ==
  /\ phase = "committed" /\ pc[p] = "commit" /\ ~panicked
  /\ phase' = "idle"
  /\ pc' = Woken([pc EXCEPT ![p] = "idle"])
  /\ UNCHANGED <<diskVars, memVars, tail, wrote, held, panicked>>

\* initlog, before any process runs.
ReadHead ==
  /\ phase = "read_head"
  /\ lh' = head
  /\ phase' = "redo"
  /\ tail' = 0
  /\ UNCHANGED <<diskVars, cache, dirty, pc, wrote, held, panicked>>

\* The machine stops and is switched on again. Only the disk is left.
Crash ==
  /\ cache' = [b \in Blocks |-> NotCached]
  /\ dirty' = {}
  /\ lh' = << >>
  /\ phase' = "read_head"
  /\ tail' = 0
  /\ pc' = [p \in Procs |-> "idle"]
  /\ wrote' = [p \in Procs |-> {}]
  /\ held' = [p \in Procs |-> {}]
  /\ panicked' = FALSE
  /\ UNCHANGED diskVars
-----------------------------------------------------------------------------
Commit == WriteLog \/ WriteHead \/ InstallTrans \/ Erase
Recovery == ReadHead \/ RedoTrans \/ Clear

Next ==
  \/ \E b \in Blocks : Fill(b) \/ Recycle(b)
  \/ \E p \in Procs : BeginOp(p) \/ EndOp(p) \/ EndOpLast(p) \/ EndCommit(p)
  \/ \E p \in Procs, b \in Blocks :
       LogCheck(p, b) \/ LogPanic(p, b) \/ \E v \in Vals : LogWrite(p, b, v)
  \/ Commit \/ Recovery \/ Crash

Spec == Init /\ [][Next]_vars

\* The disk answers, and a call that has begun ends. Nothing is fair to a
\* process that tries to begin.
FairSpec ==
  /\ Spec
  /\ WF_vars(Commit \/ Recovery)
  /\ \A p \in Procs :
       /\ WF_vars(\E b \in Blocks, v \in Vals : LogWrite(p, b, v))
       /\ SF_vars(EndOp(p) \/ EndOpLast(p))
       /\ WF_vars(EndCommit(p))
-----------------------------------------------------------------------------
(* Properties *)

\* What recover_from_log makes of the disk as it is.
Recovered ==
  [b \in Blocks |->
     IF \E i \in 1 .. Len(head) : head[i] = b
       THEN logBlocks[CHOOSE i \in 1 .. Len(head) : head[i] = b]
       ELSE disk[b]]

\* What bread returns, now or after the recovery that is under way.
Current == [b \in Blocks |-> IF cache[b] = NotCached THEN Recovered[b] ELSE cache[b]]

T == INSTANCE Transactions
       WITH durable <- Recovered, current <- Current, active <- {p \in Procs : pc[p] = "op"}

\* The updates of a transaction reach the disk all together or not at all,
\* whenever the machine stops, in a commit or in the recovery of one; the
\* calls see the updates of each other and of every transaction committed.
Atomic == T!Spec

\* A call that sleeps in begin_op has somebody to wake it: a commit under way,
\* or a call that has yet to end.
SleeperHasWaker ==
  \A p \in Procs : pc[p] = "sleep" =>
    phase \in Committing \/ \E q \in Procs : pc[q] = "op"

\* Where no log space is reserved, none is in use: a commit leaves the log
\* empty for the next transaction, and a block that differs from the disk is
\* pinned in the cache until then.
QuietLogEmpty ==
  phase = "idle" /\ outstanding = 0 => lh = << >> /\ head = << >> /\ dirty = {}

\* The reservations of begin_op suffice: no call finds the log full.
NeverTooBig == ~panicked

\* A process that waits for log space is woken, unless log_write stops the
\* machine.
SleeperWoken == \A p \in Procs : pc[p] = "sleep" ~> pc[p] # "sleep" \/ panicked
=============================================================================
