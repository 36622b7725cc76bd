------------------------------- MODULE Mutex -------------------------------
(***************************************************************************)
(* The mutexes and condition variables of proc.c (mutex_create ..          *)
(* wseq_remove), with the parts of trap.c (clean-up after a user fault),   *)
(* exec.c (reset of proc_mutexes), sleep, wakeup and kill that they meet.  *)
(*                                                                         *)
(* Grain of atomicity.  With Smp every process may run on a CPU of its     *)
(* own, and two processes interleave wherever no spinlock orders them;     *)
(* without, a process is preempted only where it holds none.  A section    *)
(* that runs under one spinlock and touches only what that lock protects   *)
(* is one step; where the code reads a field under another lock than the   *)
(* one it is written under, or needs a second spinlock while it holds a    *)
(* first, the section is split there.  A process that is about to take a   *)
(* busy spinlock spins: its next step is disabled.  Calls that return an   *)
(* error without changing anything are stuttering.                         *)
(*                                                                         *)
(* An operator named ...Wrong is the operator that follows it with a       *)
(* mistake in it, to see that a property notices.                          *)
(***************************************************************************)
EXTENDS Integers, Sequences, FiniteSets, Wseq

CONSTANTS
  Procs,       \* pids; allocproc hands each one out once
  None,        \* no process: pid -1 of a mutex, a spinlock nobody holds
  MUX_MAXNUM,  \* entries of mutex_table, of cv.waiters and of proc_mutexes
  MuxArgs,     \* the muxids processes pass to the system calls
  Namespace,   \* p->namespace of every process
  Forked,      \* processes that run without having called exec
  Smp,         \* more than one CPU (the Makefile's CPUS; 1 by default)
  Calls        \* the system calls and traps that happen in an instance

ASSUME MutexAssumption ==
  /\ None \notin Procs
  /\ MUX_MAXNUM \in Nat \ {0}
  /\ MuxArgs \subseteq Int
  /\ Namespace \in [Procs -> Nat]
  /\ Forked \subseteq Procs
  /\ Smp \in BOOLEAN

Mux == 0 .. MUX_MAXNUM - 1

VARIABLES
  used, locked, pid, nameSpace, waiters, \* the fields of struct mutex, by muxid
  muxLock, tableLock, ptableLock,        \* who holds mutex->lock, mutex_table.lock, ptable.lock
  state, killed, procMutexes,            \* the fields of struct proc, by pid
  pc, arg, slot,                         \* where each process is, with which muxid and loop index
  kernel,                                \* "ok", or how the kernel stopped being defined
  owns                                   \* history: the mutexes p locked and has not unlocked

muxVars  == <<used, locked, pid, nameSpace, waiters>>
spinVars == <<muxLock, tableLock, ptableLock>>
procVars == <<state, killed, procMutexes>>
ctlVars  == <<pc, arg, slot>>
vars     == <<muxVars, spinVars, procVars, ctlVars, kernel, owns>>

Labels ==
  {"user", "create_ns", "del_waiters", "del_clear",
   "lock_acq", "lock_sleep", "lock_slept", "unlock_wake",
   "cvw_pt", "cvw_slept", "cvw_relock",
   "fault", "fault_wake", "fault_wseq", "exiting", "dead"}

TypeOK ==
  /\ used \in [Mux -> BOOLEAN]
  /\ locked \in [Mux -> BOOLEAN]
  /\ pid \in [Mux -> Procs \cup {None}]
  /\ nameSpace \in [Mux -> Nat]
  /\ waiters \in [Mux -> Seq(Procs)]
  /\ \A m \in Mux : Len(waiters[m]) <= MUX_MAXNUM
  /\ muxLock \in [Mux -> Procs \cup {None}]
  /\ tableLock \in Procs \cup {None}
  /\ ptableLock \in Procs \cup {None}
  /\ state \in [Procs -> {"RUNNING", "RUNNABLE", "SLEEPING", "ZOMBIE"}]
  /\ killed \in [Procs -> BOOLEAN]
  /\ procMutexes \in [Procs -> [Mux -> Mux \cup {-1}]]
  /\ pc \in [Procs -> Labels]
  /\ arg \in [Procs -> Mux]
  /\ slot \in [Procs -> 0 .. MUX_MAXNUM]
  /\ kernel \in {"ok", "panic", "oob"}
  /\ owns \in [Procs -> SUBSET Mux]

\* The table is zero until somebody calls mutex_init or mutex_create. exec
\* leaves proc_mutexes full of -1; a child that only forked keeps the zeros
\* of a fresh slot of the process table.
Init ==
  /\ used = [m \in Mux |-> FALSE]
  /\ locked = [m \in Mux |-> FALSE]
  /\ pid = [m \in Mux |-> None]
  /\ nameSpace = [m \in Mux |-> 0]
  /\ waiters = [m \in Mux |-> << >>]
  /\ muxLock = [m \in Mux |-> None]
  /\ tableLock = None
  /\ ptableLock = None
  /\ state = [p \in Procs |-> "RUNNING"]
  /\ killed = [p \in Procs |-> FALSE]
  /\ procMutexes = [p \in Procs |-> [i \in Mux |-> IF p \in Forked THEN 0 ELSE -1]]
  /\ pc = [p \in Procs |-> "user"]
  /\ arg = [p \in Procs |-> 0]
  /\ slot = [p \in Procs |-> 0]
  /\ kernel = "ok"
  /\ owns = [p \in Procs |-> {}]
-----------------------------------------------------------------------------
(* Control *)

At(p, label) == pc[p] = label

Goto(p, label, m) ==
  /\ pc' = [pc EXCEPT ![p] = label]
  /\ arg' = [arg EXCEPT ![p] = m]
  /\ UNCHANGED slot

\* The way out of a system call: trap() calls exit() if the process was
\* killed meanwhile.
Return(p) == Goto(p, IF killed[p] THEN "exiting" ELSE "user", 0)

\* A process back in user mode that still holds a spinlock. ncli is 1 on its
\* CPU, so that its next yield, sleep or exit panics in acquire or sched.
Leaked(p) == At(p, "user") /\ p \in {tableLock, ptableLock}

\* trap() on the way into a system call; the range check every call starts with.
Enter(p, call) == call \in Calls /\ At(p, "user") /\ ~killed[p] /\ ~Leaked(p)

Reject(m) == m < 0 \/ m > MUX_MAXNUM

EnterMux(p, call, m) == Enter(p, call) /\ ~Reject(m) /\ m \in Mux
-----------------------------------------------------------------------------
(* Helpers of several handlers *)

\* A slot that is free is taken to hold 0.
ReplaceFirstWrong(slots, v, w) ==
  [i \in Mux |-> IF slots[i] = (IF v = -1 THEN 0 ELSE v) THEN w ELSE slots[i]]

\* The first slot of proc_mutexes that holds v becomes w, if there is one.
ReplaceFirst(slots, v, w) ==
  [i \in Mux |-> IF slots[i] = v /\ \A j \in Mux : j < i => slots[j] # v
                   THEN w ELSE slots[i]]

\* Set locked, pid and the record of the owner: the end of mutex_lock and cv_wait.
Take(p, m) ==
  /\ locked' = [locked EXCEPT ![m] = TRUE]
  /\ pid' = [pid EXCEPT ![m] = p]
  /\ procMutexes' = [procMutexes EXCEPT ![p] = ReplaceFirst(@, -1, m)]
  /\ owns' = [owns EXCEPT ![p] = @ \cup {m}]

\* Any process may unlock.
OwnedWrong(p, m) == used[m]

\* The part of mutex_unlock that succeeds, under mutex->lock.
Owned(p, m) == used[m] /\ pid[m] = p

Drop(p, m) ==
  /\ locked' = [locked EXCEPT ![m] = FALSE]
  /\ pid' = [pid EXCEPT ![m] = None]
  /\ procMutexes' = [procMutexes EXCEPT ![p] = ReplaceFirst(@, m, -1)]
  /\ owns' = [owns EXCEPT ![p] = @ \ {m}]

\* Only one of the sleepers is woken.
SleepsOnWrong(q, m) ==
  /\ state[q] = "SLEEPING" /\ At(q, "lock_slept") /\ arg[q] = m
  /\ q = CHOOSE r \in Procs : state[r] = "SLEEPING" /\ At(r, "lock_slept") /\ arg[r] = m

\* wakeup(mutex): everyone asleep in mutex_lock on m becomes RUNNABLE.
SleepsOn(q, m) == state[q] = "SLEEPING" /\ At(q, "lock_slept") /\ arg[q] = m

\* Called with ptable.lock held, so that it spins for ever.
WakeupWrong(m) == ptableLock # None /\ UNCHANGED state

Wakeup(m) ==
  /\ ptableLock = None
  /\ state' = [q \in Procs |-> IF SleepsOn(q, m) THEN "RUNNABLE" ELSE state[q]]

\* The end of a sleep that cv_signal and kill cause.
RouseWrong(s) == s

Rouse(s) == IF s = "SLEEPING" THEN "RUNNABLE" ELSE s

\* No room for another waiter in the array.
FullWrong(m) == Len(waiters[m]) > MUX_MAXNUM

Full(m) == Len(waiters[m]) = MUX_MAXNUM
-----------------------------------------------------------------------------
(* mutex_init, mutex_create, mutex_delete *)

\* mutex_init, a system call that shm_get also makes: everything is reset,
\* the spinlocks included, whoever holds them.
MutexInit(p) ==
  /\ Enter(p, "mutex_init")
  /\ used' = [m \in Mux |-> FALSE]
  /\ locked' = [m \in Mux |-> FALSE]
  /\ pid' = [m \in Mux |-> None]
  /\ nameSpace' = [m \in Mux |-> 0]
  /\ waiters' = [m \in Mux |-> << >>]
  /\ muxLock' = [m \in Mux |-> None]
  /\ tableLock' = None
  /\ UNCHANGED <<ptableLock, procVars, ctlVars, kernel, owns>>

\* used is visible to the other calls, which do not take mutex_table.lock,
\* before nameSpace is set.
MutexCreate(p) ==
  /\ Enter(p, "create")
  /\ tableLock = None
  /\ \E m \in Mux :
       /\ ~used[m] /\ \A k \in Mux : k < m => used[k]
       /\ used' = [used EXCEPT ![m] = TRUE]
       /\ Goto(p, "create_ns", m)
  /\ tableLock' = p
  /\ UNCHANGED <<locked, pid, nameSpace, waiters, muxLock, ptableLock, procVars, kernel, owns>>

CreateNamespace(p) ==
  /\ At(p, "create_ns") /\ tableLock = p
  /\ nameSpace' = [nameSpace EXCEPT ![arg[p]] = Namespace[p]]
  /\ tableLock' = None
  /\ Return(p)
  /\ UNCHANGED <<used, locked, pid, waiters, muxLock, ptableLock, procVars, kernel, owns>>

Deletable(m) == used[m] /\ ~locked[m]

\* locked and num_waiters are written under other locks than mutex_table.lock.
MutexDelete(p, m) ==
  /\ EnterMux(p, "delete", m)
  /\ tableLock = None
  /\ Deletable(m)
  /\ tableLock' = p
  /\ Goto(p, "del_waiters", m)
  /\ UNCHANGED <<muxVars, muxLock, ptableLock, procVars, kernel, owns>>

\* The return of -4 does not release mutex_table.lock.
DeleteWaiters(p) ==
  /\ At(p, "del_waiters") /\ tableLock = p
  /\ IF waiters[arg[p]] = << >> THEN Goto(p, "del_clear", arg[p]) ELSE Return(p)
  /\ UNCHANGED <<muxVars, spinVars, procVars, kernel, owns>>

DeleteClear(p) ==
  /\ At(p, "del_clear") /\ tableLock = p
  /\ locked' = [locked EXCEPT ![arg[p]] = FALSE]
  /\ used' = [used EXCEPT ![arg[p]] = FALSE]
  /\ tableLock' = None
  /\ Return(p)
  /\ UNCHANGED <<pid, nameSpace, waiters, muxLock, ptableLock, procVars, kernel, owns>>
-----------------------------------------------------------------------------
(* mutex_lock, with the sleep it calls, and mutex_unlock *)

\* The checks that precede acquire(&mutex->lock).
MutexLock(p, m) ==
  /\ EnterMux(p, "lock", m)
  /\ used[m] /\ nameSpace[m] = Namespace[p] /\ pid[m] # p
  /\ Goto(p, "lock_acq", m)
  /\ UNCHANGED <<muxVars, spinVars, procVars, kernel, owns>>

LockTake(p) ==
  /\ At(p, "lock_acq") /\ muxLock[arg[p]] = None
  /\ ~locked[arg[p]]
  /\ Take(p, arg[p])
  /\ Return(p)
  /\ UNCHANGED <<used, nameSpace, waiters, spinVars, state, killed, kernel>>

LockBusy(p) ==
  /\ At(p, "lock_acq") /\ muxLock[arg[p]] = None
  /\ locked[arg[p]]
  /\ muxLock' = [muxLock EXCEPT ![arg[p]] = p]
  /\ Goto(p, "lock_sleep", arg[p])
  /\ UNCHANGED <<muxVars, tableLock, ptableLock, procVars, kernel, owns>>

\* sleep(mutex, &mutex->lock) takes ptable.lock before it gives mutex->lock up.
LockSleep(p) ==
  /\ At(p, "lock_sleep") /\ muxLock[arg[p]] = p
  /\ ptableLock = None
  /\ state' = [state EXCEPT ![p] = "SLEEPING"]
  /\ muxLock' = [muxLock EXCEPT ![arg[p]] = None]
  /\ Goto(p, "lock_slept", arg[p])
  /\ UNCHANGED <<muxVars, tableLock, ptableLock, killed, procMutexes, kernel, owns>>

\* The scheduler runs the process, which leaves sleep and tests locked again.
LockResume(p) ==
  /\ At(p, "lock_slept") /\ state[p] = "RUNNABLE"
  /\ ptableLock = None
  /\ state' = [state EXCEPT ![p] = "RUNNING"]
  /\ Goto(p, "lock_acq", arg[p])
  /\ UNCHANGED <<muxVars, spinVars, killed, procMutexes, kernel, owns>>

MutexUnlock(p, m) ==
  /\ EnterMux(p, "unlock", m)
  /\ muxLock[m] = None
  /\ Owned(p, m)
  /\ Drop(p, m)
  /\ Goto(p, "unlock_wake", m)
  /\ UNCHANGED <<used, nameSpace, waiters, spinVars, state, killed, kernel>>

UnlockWakeup(p) ==
  /\ At(p, "unlock_wake")
  /\ Wakeup(arg[p])
  /\ Return(p)
  /\ UNCHANGED <<muxVars, spinVars, killed, procMutexes, kernel, owns>>
-----------------------------------------------------------------------------
(* cv_wait and cv_signal *)

CvWait(p, m) ==
  /\ EnterMux(p, "cv_wait", m)
  /\ muxLock[m] = None
  /\ muxLock' = [muxLock EXCEPT ![m] = p]
  /\ Goto(p, "cvw_pt", m)
  /\ UNCHANGED <<muxVars, tableLock, ptableLock, procVars, kernel, owns>>

\* Under mutex->lock and ptable.lock: the two refusals.
CvWaitRefuse(p) ==
  /\ At(p, "cvw_pt") /\ muxLock[arg[p]] = p
  /\ ptableLock = None
  /\ ~used[arg[p]] \/ pid[arg[p]] = p
  /\ muxLock' = [muxLock EXCEPT ![arg[p]] = None]
  /\ Return(p)
  /\ UNCHANGED <<muxVars, tableLock, ptableLock, procVars, kernel, owns>>

\* The waiters array is full: the return releases neither lock.
CvWaitFull(p) ==
  /\ At(p, "cvw_pt") /\ muxLock[arg[p]] = p
  /\ ptableLock = None
  /\ used[arg[p]] /\ pid[arg[p]] # p
  /\ Full(arg[p])
  /\ ptableLock' = p
  /\ Return(p)
  /\ UNCHANGED <<muxVars, muxLock, tableLock, procVars, kernel, owns>>

CvWaitSleep(p) ==
  /\ At(p, "cvw_pt") /\ muxLock[arg[p]] = p
  /\ ptableLock = None
  /\ used[arg[p]] /\ pid[arg[p]] # p
  /\ ~Full(arg[p])
  /\ waiters' = [waiters EXCEPT ![arg[p]] = Append(@, p)]
  /\ state' = [state EXCEPT ![p] = "SLEEPING"]
  /\ muxLock' = [muxLock EXCEPT ![arg[p]] = None]
  /\ Goto(p, "cvw_slept", arg[p])
  /\ UNCHANGED <<used, locked, pid, nameSpace, tableLock, ptableLock, killed, procMutexes, kernel, owns>>

\* sched returns with ptable.lock held, and cv_wait keeps it while it spins
\* for mutex->lock.
CvWaitResume(p) ==
  /\ At(p, "cvw_slept") /\ state[p] = "RUNNABLE"
  /\ ptableLock = None
  /\ state' = [state EXCEPT ![p] = "RUNNING"]
  /\ ptableLock' = p
  /\ Goto(p, "cvw_relock", arg[p])
  /\ UNCHANGED <<muxVars, muxLock, tableLock, killed, procMutexes, kernel, owns>>

\* The mutex is taken whether or not it is locked.
CvWaitRelock(p) ==
  /\ At(p, "cvw_relock") /\ ptableLock = p
  /\ muxLock[arg[p]] = None
  /\ Take(p, arg[p])
  /\ ptableLock' = None
  /\ Return(p)
  /\ UNCHANGED <<used, nameSpace, waiters, muxLock, tableLock, state, killed, kernel>>

\* The head of the wait sequence is woken if it is asleep, wherever it sleeps.
CvSignal(p, m) ==
  /\ EnterMux(p, "cv_signal", m)
  /\ ptableLock = None
  /\ waiters[m] # << >>
  /\ waiters' = [waiters EXCEPT ![m] = Tail(@)]
  /\ state' = [state EXCEPT ![Head(waiters[m])] = Rouse(@)]
  /\ UNCHANGED <<used, locked, pid, nameSpace, spinVars, killed, procMutexes, ctlVars, kernel, owns>>
-----------------------------------------------------------------------------
(* exec, kill, exit, and a fault in user mode *)

Exec(p) ==
  /\ Enter(p, "exec")
  /\ procMutexes' = [procMutexes EXCEPT ![p] = [i \in Mux |-> -1]]
  /\ UNCHANGED <<muxVars, spinVars, state, killed, ctlVars, kernel, owns>>

Kill(p, q) ==
  /\ Enter(p, "kill")
  /\ ptableLock = None
  /\ state[q] # "ZOMBIE"
  /\ killed' = [killed EXCEPT ![q] = TRUE]
  /\ state' = [state EXCEPT ![q] = Rouse(@)]
  /\ UNCHANGED <<muxVars, spinVars, procMutexes, ctlVars, kernel, owns>>

\* exit gives up no mutex.
Die(p) ==
  /\ ptableLock = None
  /\ state' = [state EXCEPT ![p] = "ZOMBIE"]
  /\ owns' = [owns EXCEPT ![p] = {}]
  /\ pc' = [pc EXCEPT ![p] = "dead"]
  /\ arg' = [arg EXCEPT ![p] = 0]
  /\ slot' = [slot EXCEPT ![p] = 0]

Exit(p) ==
  /\ \/ At(p, "exiting")
     \/ At(p, "user") /\ killed[p]
     \/ Enter(p, "exit")
  /\ p \notin {tableLock, ptableLock}
  /\ Die(p)
  /\ UNCHANGED <<muxVars, spinVars, killed, procMutexes, kernel>>

Fault(p) ==
  /\ "fault" \in Calls
  /\ At(p, "user") /\ ~Leaked(p)
  /\ killed' = [killed EXCEPT ![p] = TRUE]
  /\ pc' = [pc EXCEPT ![p] = "fault"]
  /\ UNCHANGED <<muxVars, spinVars, state, procMutexes, arg, slot, kernel, owns>>

\* One round of the loop over proc_mutexes: nothing recorded in the slot.
FaultSkip(p) ==
  /\ At(p, "fault")
  /\ slot[p] < MUX_MAXNUM /\ procMutexes[p][slot[p]] = -1
  /\ slot' = [slot EXCEPT ![p] = @ + 1]
  /\ UNCHANGED <<muxVars, spinVars, procVars, pc, arg, kernel, owns>>

\* mutex_unlock(proc_mutexes[i]) that succeeds, then one that is refused.
FaultUnlock(p) ==
  /\ At(p, "fault")
  /\ slot[p] < MUX_MAXNUM /\ procMutexes[p][slot[p]] # -1
  /\ LET m == procMutexes[p][slot[p]]
     IN  muxLock[m] = None /\ Owned(p, m) /\ Drop(p, m) /\ Goto(p, "fault_wake", m)
  /\ UNCHANGED <<used, nameSpace, waiters, spinVars, state, killed, kernel>>

FaultRefused(p) ==
  /\ At(p, "fault")
  /\ slot[p] < MUX_MAXNUM /\ procMutexes[p][slot[p]] # -1
  /\ LET m == procMutexes[p][slot[p]]
     IN  muxLock[m] = None /\ ~Owned(p, m) /\ Goto(p, "fault_wseq", m)
  /\ UNCHANGED <<muxVars, spinVars, procVars, kernel, owns>>

FaultWakeup(p) ==
  /\ At(p, "fault_wake")
  /\ Wakeup(arg[p])
  /\ Goto(p, "fault_wseq", arg[p])
  /\ UNCHANGED <<muxVars, spinVars, killed, procMutexes, kernel, owns>>

\* wseq_remove(i, pid): i is the slot, not the mutex it names.
FaultWseq(p) ==
  /\ At(p, "fault_wseq")
  /\ ptableLock = None
  /\ waiters' = [waiters EXCEPT ![slot[p]] = WseqRemove(@, p)]
  /\ slot' = [slot EXCEPT ![p] = @ + 1]
  /\ pc' = [pc EXCEPT ![p] = "fault"]
  /\ arg' = [arg EXCEPT ![p] = 0]
  /\ UNCHANGED <<used, locked, pid, nameSpace, spinVars, procVars, kernel, owns>>

FaultExit(p) ==
  /\ At(p, "fault") /\ slot[p] = MUX_MAXNUM
  /\ Die(p)
  /\ UNCHANGED <<muxVars, spinVars, killed, procMutexes, kernel>>
-----------------------------------------------------------------------------
(* Where the kernel stops *)

\* The checks of sched and acquire, on behalf of a process that returned to
\* user mode, or goes to exit, with a spinlock.
SchedPanic(p) ==
  /\ pc[p] \in {"user", "exiting"} /\ p \in {tableLock, ptableLock}
  /\ kernel' = "panic"
  /\ UNCHANGED <<muxVars, spinVars, procVars, ctlVars, owns>>

\* The check of release, when mutex_init has reset a lock under its holder.
ReleasePanic(p) ==
  /\ \/ pc[p] \in {"create_ns", "del_waiters", "del_clear"} /\ tableLock # p
     \/ pc[p] \in {"lock_sleep", "cvw_pt"} /\ muxLock[arg[p]] # p /\ ptableLock = None
  /\ kernel' = "panic"
  /\ UNCHANGED <<muxVars, spinVars, procVars, ctlVars, owns>>

\* A muxid that passes the range check and lies outside the table.
OutOfBounds(p, m) ==
  /\ \E call \in {"delete", "lock", "unlock", "cv_wait", "cv_signal"} : Enter(p, call)
  /\ ~Reject(m) /\ m \notin Mux
  /\ kernel' = "oob"
  /\ UNCHANGED <<muxVars, spinVars, procVars, ctlVars, owns>>
-----------------------------------------------------------------------------
\* On one CPU a process that holds a spinlock, and so has interrupts off, runs
\* until it lets go of it.
HoldsSpin(p) == p \in {tableLock, ptableLock} \/ \E m \in Mux : muxLock[m] = p

MayRun(p) == kernel = "ok" /\ (Smp \/ \A q \in Procs \ {p} : ~HoldsSpin(q))

\* What a process does on its own once it is in the kernel.
KernelStep(p) ==
  /\ MayRun(p)
  /\ \/ CreateNamespace(p) \/ DeleteWaiters(p) \/ DeleteClear(p)
     \/ LockTake(p) \/ LockBusy(p) \/ LockSleep(p) \/ LockResume(p) \/ UnlockWakeup(p)
     \/ CvWaitRefuse(p) \/ CvWaitFull(p) \/ CvWaitSleep(p) \/ CvWaitResume(p) \/ CvWaitRelock(p)
     \/ FaultSkip(p) \/ FaultUnlock(p) \/ FaultRefused(p) \/ FaultWakeup(p) \/ FaultWseq(p)
     \/ FaultExit(p) \/ SchedPanic(p) \/ ReleasePanic(p)

\* What the program, its user or its memory accesses make it do.
UserStep(p) ==
  /\ MayRun(p)
  /\ \/ MutexInit(p) \/ MutexCreate(p) \/ Exec(p) \/ Exit(p) \/ Fault(p)
     \/ \E m \in MuxArgs :
          \/ MutexDelete(p, m) \/ MutexLock(p, m) \/ MutexUnlock(p, m)
          \/ CvWait(p, m) \/ CvSignal(p, m) \/ OutOfBounds(p, m)
     \/ \E q \in Procs : Kill(p, q)

Next == \E p \in Procs : KernelStep(p) \/ UserStep(p)

Spec == Init /\ [][Next]_vars

\* The scheduler runs every RUNNABLE process, so that a process in the kernel
\* goes on; a program that holds a mutex gets around to unlocking it, though
\* the spinlock may be busy when it tries; the clock interrupt makes
\* a process that was killed exit.
Unlocks(p) == MayRun(p) /\ \E m \in MuxArgs : MutexUnlock(p, m)

Expires(p) == MayRun(p) /\ killed[p] /\ Exit(p)

FairSpec ==
  /\ Spec
  /\ \A p \in Procs : WF_vars(KernelStep(p)) /\ SF_vars(Unlocks(p)) /\ WF_vars(Expires(p))
-----------------------------------------------------------------------------
(* Properties *)

Blocked(p) == At(p, "lock_slept") /\ state[p] = "SLEEPING"

\* Two processes never both hold a mutex: between a mutex_lock that returned 1
\* and the mutex_unlock that follows, no other lock of that mutex succeeds.
MutualExclusion ==
  \A p, q \in Procs : p # q => owns[p] \cap owns[q] = {}

\* A process asleep in mutex_lock on a mutex that is free is about to be woken:
\* some process that gave the mutex up has yet to make its call of wakeup.
NoLostWakeup ==
  \A p \in Procs : Blocked(p) /\ ~locked[arg[p]] =>
    \E q \in Procs : pc[q] \in {"unlock_wake", "fault_wake"} /\ arg[q] = arg[p]

\* A process that a fault has ended holds no mutex: the loop in trap found
\* every mutex the process had locked.
FaultUnlocksAll ==
  \A p \in Procs, m \in Mux : At(p, "fault") /\ slot[p] = MUX_MAXNUM => pid[m] # p

InCv(p) == At(p, "cvw_slept") /\ state[p] = "SLEEPING"

InWseq(p) == \E i \in DOMAIN waiters[arg[p]] : waiters[arg[p]][i] = p

\* A process blocked in cv_wait enters the wait sequence of that mutex and
\* stays there, within reach of a cv_signal, until it is woken; only
\* mutex_init forgets it.
CvStaysQueued ==
  [][\A p \in Procs : InCv(p)' =>
       InWseq(p)' \/ (InCv(p) /\ ~InWseq(p)) \/ \E q \in Procs : MutexInit(q)]_vars

\* A process asleep in mutex_lock is woken, unless the owner of the mutex has
\* ended, which gives up no mutex: no wakeup of mutex_unlock, nor of the
\* clean-up after a fault, is lost on the way.
BlockedIsWoken ==
  \A p \in Procs :
    Blocked(p) ~> ~Blocked(p) \/ \E q \in Procs : At(q, "dead") /\ pid[arg[p]] = q
=============================================================================
