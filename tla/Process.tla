------------------------------ MODULE Process ------------------------------
(***************************************************************************)
(* The process table of proc.c: allocproc, fork, exit, wait, kill, sleep,  *)
(* wakeup, yield, prio_set, the priority queues and the scheduler loop of  *)
(* every CPU.                                                              *)
(*                                                                         *)
(* ptable.lock protects all of it, so that a section under the lock is one *)
(* step.  The scheduler keeps the lock from the switch out of one process  *)
(* to the switch into the next; fork works without it between its two      *)
(* sections.  A process that runs may be preempted whenever the lock is    *)
(* free, in the kernel as well.  Calls that fail without changing anything *)
(* are stuttering.                                                         *)
(*                                                                         *)
(* An operator named ...Wrong is the operator that follows it with a       *)
(* mistake in it, to see that a property notices.                          *)
(***************************************************************************)
EXTENDS Integers, Sequences

CONSTANTS
  NPROC,      \* slots of the table; slot 1 is init
  CPUs,       \* the CPUs that run the scheduler
  PRIO_MAX,   \* number of priority queues; 0 is the highest priority
  QUEUESIZE,  \* entries of the ring of one priority
  MaxPid,     \* bound: pids handed out in an instance
  KillArgs,   \* the pids passed to kill
  PrioArgs,   \* the priorities passed to prio_set
  Calls       \* the system calls the programs of an instance make

ASSUME ProcessAssumption ==
  /\ NPROC \in Nat \ {0}
  /\ CPUs # {} /\ 0 \notin CPUs
  /\ PRIO_MAX \in Nat \ {0}
  /\ QUEUESIZE \in Nat \ {0}
  /\ MaxPid \in Nat \ {0}
  /\ KillArgs \subseteq Nat
  /\ PrioArgs \subseteq Int

Slots    == 1 .. NPROC
initproc == 1
IoChan   == NPROC + 1    \* a channel other than a process: a buffer, a pipe, ticks
FP_POLICY  == 0
HFS_POLICY == 1
Prios    == 0 .. PRIO_MAX - 1

VARIABLES
  state, pid, parent, killed, chan,      \* struct proc, by slot
  queueType, fp_priority, hfs_priority,
  nextpid,
  queue,      \* by priority: index of the head of the ring, and the entries in it
  ptlock,     \* the CPU whose scheduler holds ptable.lock, or 0
  cur, scan,  \* by CPU: the slot it runs or 0, and the slot its scan is at (0: none)
  pc, child,  \* by slot: where the process is in the kernel, the child it is making
  asked       \* history: the pids kill was called with

tableVars == <<state, pid, parent, killed, chan>>
prioVars  == <<queueType, fp_priority, hfs_priority, queue>>
cpuVars   == <<ptlock, cur, scan>>
ctlVars   == <<pc, child>>
vars      == <<tableVars, prioVars, cpuVars, ctlVars, nextpid, asked>>

TypeOK ==
  /\ state \in [Slots -> {"UNUSED", "EMBRYO", "SLEEPING", "RUNNABLE", "RUNNING", "ZOMBIE"}]
  /\ pid \in [Slots -> 0 .. MaxPid]
  /\ parent \in [Slots -> 0 .. NPROC]
  /\ killed \in [Slots -> BOOLEAN]
  /\ chan \in [Slots -> 0 .. IoChan]
  /\ queueType \in [Slots -> {FP_POLICY, HFS_POLICY}]
  /\ fp_priority \in [Slots -> 0 .. PRIO_MAX]
  /\ hfs_priority \in [Slots -> 0 .. PRIO_MAX]
  /\ nextpid \in 1 .. MaxPid + 1
  /\ \A i \in Prios : /\ queue[i].head \in 0 .. QUEUESIZE - 1
                      /\ queue[i].entries \in Seq(Slots)
                      /\ Len(queue[i].entries) < QUEUESIZE
  /\ ptlock \in CPUs \cup {0}
  /\ cur \in [CPUs -> 0 .. NPROC]
  /\ scan \in [CPUs -> 0 .. NPROC + 1]
  /\ pc \in [Slots -> {"user", "fork", "wait"}]
  /\ child \in [Slots -> 0 .. NPROC]
  /\ asked \subseteq KillArgs

\* After userinit: init is RUNNABLE under the HFS policy. Its hfs_enqueue came
\* before the state was set and so did nothing.
Init ==
  /\ state = [p \in Slots |-> IF p = initproc THEN "RUNNABLE" ELSE "UNUSED"]
  /\ pid = [p \in Slots |-> IF p = initproc THEN 1 ELSE 0]
  /\ parent = [p \in Slots |-> 0]
  /\ killed = [p \in Slots |-> FALSE]
  /\ chan = [p \in Slots |-> 0]
  /\ queueType = [p \in Slots |-> IF p = initproc THEN HFS_POLICY ELSE FP_POLICY]
  /\ fp_priority = [p \in Slots |-> 0]
  /\ hfs_priority = [p \in Slots |-> 0]
  /\ nextpid = 2
  /\ queue = [i \in Prios |-> [head |-> 0, entries |-> << >>]]
  /\ ptlock = 0
  /\ cur = [c \in CPUs |-> 0]
  /\ scan = [c \in CPUs |-> 0]
  /\ pc = [p \in Slots |-> "user"]
  /\ child = [p \in Slots |-> 0]
  /\ asked = {}
-----------------------------------------------------------------------------
(* The priority queues *)

\* fp_enqueue and hfs_enqueue of a RUNNABLE process. The test for a full ring,
\* tail == (head-1)%QUEUESIZE, compares with -1 when head is 0: a full ring
\* then takes one entry more, and tail = head makes it look empty.
Enqueue(qs, prio, p) ==
  LET q    == qs[prio]
      full == Len(q.entries) = QUEUESIZE - 1
  IN  IF full /\ q.head # 0 THEN qs
      ELSE [qs EXCEPT ![prio].entries = IF full THEN << >> ELSE Append(@, p)]

\* fp_dequeue: the head of the first ring that is not empty, whatever its state.
NonEmpty == {i \in Prios : queue[i].entries # << >>}

TopPrio == CHOOSE i \in NonEmpty : \A j \in NonEmpty : i <= j

Dequeued ==
  [queue EXCEPT ![TopPrio] =
     [head |-> (@.head + 1) % QUEUESIZE, entries |-> Tail(@.entries)]]

\* The part of a table update that a wakeup1(ch) makes: everyone asleep on ch
\* becomes RUNNABLE, and then every RUNNABLE process of the table is enqueued,
\* those of the HFS policy at priority 0.
Woken(st, ch) ==
  [p \in Slots |-> IF st[p] = "SLEEPING" /\ chan[p] = ch THEN "RUNNABLE" ELSE st[p]]

EnqueueOne(qs, st, p) ==
  IF st[p] # "RUNNABLE" THEN qs
  ELSE Enqueue(qs, IF queueType[p] = FP_POLICY THEN fp_priority[p] ELSE 0, p)

EnqueueAll(qs, st) ==
  LET loop[n \in 0 .. NPROC] == IF n = 0 THEN qs ELSE EnqueueOne(loop[n - 1], st, n)
  IN  loop[NPROC]

HfsReset == [p \in Slots |-> IF queueType[p] = HFS_POLICY THEN 0 ELSE hfs_priority[p]]
-----------------------------------------------------------------------------
(* The scheduler of CPU c *)

\* The switch into p, in the middle of its sched. It goes on to clear chan and
\* to release the lock, or, in wait, to scan the table under it.
Run(c, p, next) ==
  /\ state' = [state EXCEPT ![p] = "RUNNING"]
  /\ chan' = [chan EXCEPT ![p] = 0]
  /\ cur' = [cur EXCEPT ![c] = p]
  /\ scan' = [scan EXCEPT ![c] = next]
  /\ ptlock' = IF pc[p] = "wait" THEN c ELSE 0

\* sched, called with the lock held: back to the scheduler of the CPU.
SwitchOut(c) ==
  /\ ptlock' = c
  /\ cur' = [cur EXCEPT ![c] = 0]
  /\ UNCHANGED scan

\* The last slot is left out.
ScannedWrong(c) == {p \in Slots : p >= scan[c] /\ p < NPROC /\ state[p] = "RUNNABLE"}

Scanned(c) == {p \in Slots : p >= scan[c] /\ state[p] = "RUNNABLE"}

\* An entry of the queue counts as runnable if its process is alive.
ReadyWrong(p) == state[p] \in {"SLEEPING", "RUNNABLE", "RUNNING"}

Ready(p) == state[p] = "RUNNABLE"

\* The head of the queues is tried first. A process taken out of its queue that
\* is not RUNNABLE any more is dropped.
SchedTop(c) ==
  /\ ptlock = 0 /\ cur[c] = 0 /\ scan[c] = 0
  /\ IF NonEmpty = {} THEN UNCHANGED queue ELSE queue' = Dequeued
  /\ IF NonEmpty # {} /\ Ready(Head(queue[TopPrio].entries))
       THEN Run(c, Head(queue[TopPrio].entries), 1)
       ELSE /\ ptlock' = c
            /\ scan' = [scan EXCEPT ![c] = 1]
            /\ UNCHANGED <<state, chan, cur>>
  /\ UNCHANGED <<pid, parent, killed, queueType, fp_priority, hfs_priority, ctlVars, nextpid, asked>>

\* The scan of the table that follows, resumed behind the last process it ran.
SchedScan(c) ==
  /\ ptlock = c /\ cur[c] = 0 /\ scan[c] # 0
  /\ IF Scanned(c) = {}
       THEN /\ ptlock' = 0
            /\ scan' = [scan EXCEPT ![c] = 0]
            /\ UNCHANGED <<state, chan, cur>>
       ELSE \E p \in Scanned(c) : (\A q \in Scanned(c) : p <= q) /\ Run(c, p, p + 1)
  /\ UNCHANGED <<pid, parent, killed, prioVars, ctlVars, nextpid, asked>>
-----------------------------------------------------------------------------
(* The process that CPU c runs *)

Runs(c, p) == ptlock = 0 /\ cur[c] = p

\* A process that was killed exits on its way into or out of the kernel.
Call(c, p, call) == Runs(c, p) /\ call \in Calls /\ pc[p] = "user" /\ ~killed[p]

\* The clock interrupt. A process of the HFS policy is demoted and requeued
\* only if its hfs_priority is beyond PRIO_MAX.
Yield(c, p) ==
  LET demote == queueType[p] = HFS_POLICY /\ hfs_priority[p] > PRIO_MAX
      prio   == IF demote THEN PRIO_MAX ELSE fp_priority[p]
  IN  /\ Runs(c, p)
      /\ state' = [state EXCEPT ![p] = "RUNNABLE"]
      /\ hfs_priority' = [hfs_priority EXCEPT ![p] = IF demote THEN PRIO_MAX ELSE @]
      /\ queue' = IF demote \/ queueType[p] = FP_POLICY THEN Enqueue(queue, prio, p) ELSE queue
      /\ SwitchOut(c)
      /\ UNCHANGED <<pid, parent, killed, chan, queueType, fp_priority, ctlVars, nextpid, asked>>

\* sleep(chan, lk) in a driver, a pipe or the log. A kill may come between the
\* caller's test of killed and the sleep.
Sleep(c, p) ==
  /\ Runs(c, p) /\ "sleep" \in Calls /\ pc[p] = "user"
  /\ state' = [state EXCEPT ![p] = "SLEEPING"]
  /\ chan' = [chan EXCEPT ![p] = IoChan]
  /\ SwitchOut(c)
  /\ UNCHANGED <<pid, parent, killed, prioVars, ctlVars, nextpid, asked>>

\* wakeup of such a channel, by an interrupt or by a process that runs.
Wakeup ==
  /\ "sleep" \in Calls /\ ptlock = 0
  /\ state' = Woken(state, IoChan)
  /\ queue' = EnqueueAll(queue, Woken(state, IoChan))
  /\ hfs_priority' = HfsReset
  /\ UNCHANGED <<pid, parent, killed, chan, queueType, fp_priority, cpuVars, ctlVars, nextpid, asked>>

\* fork, first section: allocproc claims the first free slot. It leaves killed
\* as it is.
ForkAlloc(c, p) ==
  /\ Call(c, p, "fork")
  /\ nextpid <= MaxPid
  /\ \E n \in Slots :
       /\ state[n] = "UNUSED" /\ \A k \in Slots : k < n => state[k] # "UNUSED"
       /\ state' = [state EXCEPT ![n] = "EMBRYO"]
       /\ pid' = [pid EXCEPT ![n] = nextpid]
       /\ child' = [child EXCEPT ![p] = n]
  /\ nextpid' = nextpid + 1
  /\ pc' = [pc EXCEPT ![p] = "fork"]
  /\ UNCHANGED <<parent, killed, chan, prioVars, cpuVars, asked>>

\* kalloc or copyuvm runs out of memory: the slot is free again, under its pid.
ForkFail(c, p) ==
  /\ Runs(c, p) /\ pc[p] = "fork"
  /\ state' = [state EXCEPT ![child[p]] = "UNUSED"]
  /\ pc' = [pc EXCEPT ![p] = "user"]
  /\ child' = [child EXCEPT ![p] = 0]
  /\ UNCHANGED <<pid, parent, killed, chan, prioVars, cpuVars, nextpid, asked>>

\* Second section: the child inherits the policy and the priority of the parent.
ForkFinish(c, p) ==
  LET n    == child[p]
      fp   == queueType[p] = FP_POLICY
      prio == IF fp THEN fp_priority[p] ELSE hfs_priority[p]
  IN  /\ Runs(c, p) /\ pc[p] = "fork"
      /\ parent' = [parent EXCEPT ![n] = p]
      /\ state' = [state EXCEPT ![n] = "RUNNABLE"]
      /\ queueType' = [queueType EXCEPT ![n] = queueType[p]]
      /\ fp_priority' = [fp_priority EXCEPT ![n] = IF fp THEN prio ELSE @]
      /\ hfs_priority' = [hfs_priority EXCEPT ![n] = IF fp THEN @ ELSE prio]
      /\ queue' = Enqueue(queue, prio, n)
      /\ pc' = [pc EXCEPT ![p] = "user"]
      /\ child' = [child EXCEPT ![p] = 0]
      /\ UNCHANGED <<pid, killed, chan, cpuVars, nextpid, asked>>

Reparented(p) == [q \in Slots |-> IF parent[q] = p THEN initproc ELSE parent[q]]

\* init is not told of the zombies it gets.
InitWokenWrong(st, zombies) == st

InitWoken(st, zombies) == IF zombies = {} THEN st ELSE Woken(st, initproc)

\* The loop of exit over the table: a wakeup1 for every zombie that init gets.
InitQueues(qs, st, zombies) ==
  LET loop[n \in 0 .. NPROC] == IF n = 0 THEN qs
                                ELSE IF n \in zombies THEN EnqueueAll(loop[n - 1], st)
                                ELSE loop[n - 1]
  IN  loop[NPROC]

\* exit wakes the parent, gives the children to init, which it wakes for every
\* one of them that is a zombie, and becomes a zombie itself.
Exit(c, p) ==
  LET zombies == {q \in Slots : parent[q] = p /\ state[q] = "ZOMBIE"}
      first   == Woken(state, parent[p])
      final   == InitWoken(first, zombies)
  IN  /\ Runs(c, p) /\ pc[p] = "user" /\ p # initproc
      /\ killed[p] \/ "exit" \in Calls
      /\ state' = [final EXCEPT ![p] = "ZOMBIE"]
      /\ parent' = Reparented(p)
      /\ queue' = InitQueues(EnqueueAll(queue, first), final, zombies)
      /\ hfs_priority' = HfsReset
      /\ SwitchOut(c)
      /\ UNCHANGED <<pid, killed, chan, queueType, fp_priority, ctlVars, nextpid, asked>>
-----------------------------------------------------------------------------
(* wait, called, and resumed in its sleep with the lock held *)

InWait(c, p) ==
  \/ Call(c, p, "wait")
  \/ ptlock = c /\ cur[c] = p /\ pc[p] = "wait"

Children(p) == {q \in Slots : parent[q] = p}

\* The last slot is left out.
ZombiesWrong(p) == {q \in Children(p) : state[q] = "ZOMBIE" /\ q < NPROC}

Zombies(p) == {q \in Children(p) : state[q] = "ZOMBIE"}

WaitReap(c, p) ==
  /\ InWait(c, p)
  /\ \E q \in Zombies(p) :
       /\ \A r \in Zombies(p) : q <= r
       /\ state' = [state EXCEPT ![q] = "UNUSED"]
       /\ pid' = [pid EXCEPT ![q] = 0]
       /\ parent' = [parent EXCEPT ![q] = 0]
       /\ killed' = [killed EXCEPT ![q] = FALSE]
  /\ pc' = [pc EXCEPT ![p] = "user"]
  /\ ptlock' = 0
  /\ UNCHANGED <<chan, prioVars, cur, scan, child, nextpid, asked>>

WaitFail(c, p) ==
  /\ InWait(c, p)
  /\ Zombies(p) = {} /\ (Children(p) = {} \/ killed[p])
  /\ pc' = [pc EXCEPT ![p] = "user"]
  /\ ptlock' = 0
  /\ UNCHANGED <<tableVars, prioVars, cur, scan, child, nextpid, asked>>

WaitSleep(c, p) ==
  /\ InWait(c, p)
  /\ Zombies(p) = {} /\ Children(p) # {} /\ ~killed[p]
  /\ state' = [state EXCEPT ![p] = "SLEEPING"]
  /\ chan' = [chan EXCEPT ![p] = p]
  /\ pc' = [pc EXCEPT ![p] = "wait"]
  /\ SwitchOut(c)
  /\ UNCHANGED <<pid, parent, killed, prioVars, child, nextpid, asked>>
-----------------------------------------------------------------------------
(* kill and prio_set *)

RouseWrong(st) == st

Rouse(st) == IF st = "SLEEPING" THEN "RUNNABLE" ELSE st

\* The first slot with that pid is marked, whatever its state.
Kill(c, p, arg) ==
  /\ Call(c, p, "kill")
  /\ \E q \in Slots :
       /\ pid[q] = arg /\ \A k \in Slots : k < q => pid[k] # arg
       /\ killed' = [killed EXCEPT ![q] = TRUE]
       /\ state' = [state EXCEPT ![q] = Rouse(@)]
       /\ hfs_priority' = [hfs_priority EXCEPT ![q] = IF queueType[q] = HFS_POLICY THEN 0 ELSE @]
       /\ queue' = IF Rouse(state[q]) = "RUNNABLE"
                     THEN Enqueue(queue, IF queueType[q] = FP_POLICY THEN fp_priority[q] ELSE 0, q)
                     ELSE queue
  /\ asked' = asked \cup {arg}
  /\ UNCHANGED <<pid, parent, chan, queueType, fp_priority, cpuVars, ctlVars, nextpid>>

\* The caller moves to the FP policy even if the call then fails. Only the
\* caller itself or a child of it gets the priority; queue entries stay put.
\* The parent of init, and of a slot a fork gave up, is null: null says whether
\* what lies there equals the pid of the caller.
PrioSet(c, p, arg, prio) ==
  /\ Call(c, p, "prio_set")
  /\ 0 <= prio /\ prio <= PRIO_MAX
  /\ queueType' = [queueType EXCEPT ![p] = FP_POLICY]
  /\ \E null \in BOOLEAN :
       LET first  == {q \in Slots : pid[q] = arg /\ \A k \in Slots : k < q => pid[k] # arg}
           mine(q) == IF parent[q] = 0 THEN null ELSE pid[parent[q]] = pid[p]
           target == IF pid[p] = arg THEN {p} ELSE {q \in first : mine(q)}
       IN  fp_priority' = [q \in Slots |-> IF q \in target /\ fp_priority[p] <= prio
                                             THEN prio ELSE fp_priority[q]]
  /\ UNCHANGED <<tableVars, hfs_priority, queue, cpuVars, ctlVars, nextpid, asked>>
-----------------------------------------------------------------------------
Scheduler(c) == SchedTop(c) \/ SchedScan(c)

Waits(c, p) == WaitReap(c, p) \/ WaitFail(c, p) \/ WaitSleep(c, p)

Program(c, p) ==
  \/ Sleep(c, p) \/ ForkAlloc(c, p) \/ ForkFail(c, p) \/ ForkFinish(c, p) \/ Exit(c, p)
  \/ Waits(c, p)
  \/ \E arg \in KillArgs : Kill(c, p, arg)
  \/ \E arg \in 1 .. MaxPid, prio \in PrioArgs : PrioSet(c, p, arg, prio)

Next ==
  \/ \E c \in CPUs : Scheduler(c)
  \/ \E c \in CPUs, p \in Slots : Yield(c, p) \/ Program(c, p)
  \/ Wakeup

Spec == Init /\ [][Next]_vars

\* A CPU takes steps and the clock interrupts every process. Nothing is assumed
\* of programs but init, which gets on with its forks and with its loop around
\* wait whenever it runs again and again; it sleeps for the disk and for the log
\* only, never for a pipe or for a key, and so is woken in the end (an interrupt
\* that finds interrupts off stays pending).
Progress(c) == Scheduler(c) \/ \E p \in Slots : Yield(c, p) \/ (pc[p] = "wait" /\ Waits(c, p))

InitIoDone == state[initproc] = "SLEEPING" /\ chan[initproc] = IoChan /\ Wakeup

FairSpec ==
  /\ Spec
  /\ SF_vars(InitIoDone)
  /\ \A c \in CPUs :
       /\ WF_vars(Progress(c))
       /\ SF_vars(Waits(c, initproc))
       /\ SF_vars(ForkFinish(c, initproc))
-----------------------------------------------------------------------------
(* Properties *)

Live(p) == state[p] \in {"SLEEPING", "RUNNABLE", "RUNNING"}

\* A process runs on at most one CPU, and is RUNNING exactly while a CPU runs
\* it: entries that wakeup1 and kill leave in the queues never start a process
\* a second time.
RunsOnce ==
  /\ \A c, d \in CPUs : c # d /\ cur[c] = cur[d] => cur[c] = 0
  /\ \A p \in Slots : state[p] = "RUNNING" <=> \E c \in CPUs : cur[c] = p

\* A parent asleep in wait has no zombie among its children: the wakeup of an
\* exit is not lost, not even for children that init inherits as zombies.
NoSleepingParentOfZombie ==
  \A p, q \in Slots :
    state[p] = "SLEEPING" /\ chan[p] = p /\ state[q] = "ZOMBIE" => parent[q] # p

\* The parent of a process is alive, so that somebody can wait for it: exit
\* leaves no child behind, whatever fork and exit of other processes do.
ParentAlive ==
  \A q \in Slots : (Live(q) \/ state[q] = "ZOMBIE") /\ q # initproc =>
    parent[q] # 0 /\ Live(parent[q])

\* Every child is waited for: its parent is alive and does not sleep past its
\* death.
ChildrenAwaited == TypeOK /\ ParentAlive /\ NoSleepingParentOfZombie

\* Every process that can run does, whatever the queues have lost: the table
\* scan after each dequeue reaches it.
RunnableRuns == \A p \in Slots : state[p] = "RUNNABLE" ~> state[p] = "RUNNING"

\* A zombie that init has inherited is reaped.
OrphanReaped ==
  \A p \in Slots : state[p] = "ZOMBIE" /\ parent[p] = initproc ~> state[p] = "UNUSED"

\* A process that is killed in wait, asleep or about to sleep there, returns
\* from it, whatever its children do: kill makes a sleeper RUNNABLE, the
\* scheduler finds it, and wait tests killed under the lock that it keeps until
\* it sleeps.
KilledLeavesWait == \A p \in Slots : killed[p] /\ pc[p] = "wait" ~> pc[p] # "wait"

\* A process is killed only if somebody called kill with its pid.
KillsOnlyNamed == \A p \in Slots : killed[p] /\ Live(p) => pid[p] \in asked
=============================================================================
