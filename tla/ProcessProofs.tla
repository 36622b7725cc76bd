--------------------------- MODULE ProcessProofs ---------------------------
(***************************************************************************)
(* The safety of Process, for any number of slots, CPUs, priorities and    *)
(* pids and rings of any size.                                             *)
(***************************************************************************)
EXTENDS Process, WellFoundedInduction, TLAPS

\* prio_set lets PRIO_MAX through (proc.c:1042), for which there is no ring. The theorems
\* are about programs that do not pass it.
RingForEach == PRIO_MAX \notin PrioArgs

States == {"UNUSED", "EMBRYO", "SLEEPING", "RUNNABLE", "RUNNING", "ZOMBIE"}

Ring == [head : 0 .. QUEUESIZE - 1, entries : {s \in Seq(Slots) : Len(s) < QUEUESIZE}]

\* TypeOK but for the rings, in two parts: what the rest of the invariant is about, and
\* what it is not.
Tables ==
  /\ state \in [Slots -> States]
  /\ parent \in [Slots -> 0 .. NPROC]
  /\ chan \in [Slots -> 0 .. IoChan]
  /\ cur \in [CPUs -> 0 .. NPROC]
  /\ pc \in [Slots -> {"user", "fork", "wait"}]
  /\ child \in [Slots -> 0 .. NPROC]

Others ==
  /\ pid \in [Slots -> 0 .. MaxPid]
  /\ killed \in [Slots -> BOOLEAN]
  /\ queueType \in [Slots -> {FP_POLICY, HFS_POLICY}]
  /\ nextpid \in 1 .. MaxPid + 1
  /\ ptlock \in CPUs \cup {0}
  /\ scan \in [CPUs -> 0 .. NPROC + 1]
  /\ asked \subseteq KillArgs

\* Every priority that is stored has a ring, and that of the HFS policy stays 0: yield
\* tests it against PRIO_MAX (proc.c:468) and nothing raises it.
RingInv ==
  /\ queue \in [Prios -> Ring]
  /\ fp_priority \in [Slots -> Prios]
  /\ hfs_priority = [p \in Slots |-> 0]

\* A fork has a slot of its own for the child, which nobody else moves (proc.c:93).
ForkInv ==
  /\ \A p \in Slots : pc[p] = "fork" => child[p] \in Slots \ {initproc} /\ state[child[p]] = "EMBRYO"
  /\ \A p, q \in Slots : pc[p] = "fork" /\ pc[q] = "fork" /\ child[p] = child[q] => p = q

\* init lives, and is nobody's child; nobody is its own.
InitInv ==
  /\ Live(initproc) /\ parent[initproc] = 0
  /\ \A p \in Slots : parent[p] # p

Family == InitInv /\ ParentAlive /\ NoSleepingParentOfZombie

IInv == Tables /\ Others /\ RingInv /\ RunsOnce /\ ForkInv /\ Family
-----------------------------------------------------------------------------
(* Loops over the table *)

\* A set that has 0, and the successor of each number below N that it has, has 0 .. N.
LEMMA LoopInduction ==
  ASSUME NEW N \in Nat, NEW S, 0 \in S, \A n \in 1 .. N : n - 1 \in S => n \in S
  PROVE  \A n \in 0 .. N : n \in S
<1> DEFINE T == (0 .. N) \ S
<1>1. SUFFICES ASSUME T # {} PROVE FALSE
  OBVIOUS
<1>2. T \in SUBSET Nat
  OBVIOUS
<1> HIDE DEF T
<1>3. PICK n \in T : \A m \in T : ~(<<m, n>> \in OpToRel(<, Nat))
  BY Zenon, <1>1, <1>2, NatLessThanWellFounded, WFMin
<1>4. \A m \in T : m < n => <<m, n>> \in OpToRel(<, Nat)
  BY <1>2 DEF OpToRel
<1>5. \A m \in T : ~(m < n)
  BY Zenon, <1>3, <1>4
<1>6. n \in 1 .. N /\ n - 1 \in 0 .. N /\ n - 1 < n
  BY DEF T
<1>7. n - 1 \in S
  BY <1>5, <1>6 DEF T
<1> QED BY <1>6, <1>7 DEF T

\* f has the value of a loop after each of its N rounds.
Loop(f, N, base, round) == f[0] = base /\ \A i \in 1 .. N : f[i] = round[i][f[i - 1]]

\* The function by which a loop is written exists, and its values are of the type of what
\* the loop starts with if every round keeps the type.
LEMMA LoopExists ==
  ASSUME NEW N \in Nat, NEW T, NEW base \in T, NEW round \in [1 .. N -> [T -> T]]
  PROVE  \E f \in [0 .. N -> T] : Loop(f, N, base, round)
<1> DEFINE Good(n, f) == Loop(f, n, base, round)
           S == {n \in 0 .. N : \E f \in [0 .. N -> T] : Good(n, f)}
<1>1. 0 \in S
  <2>1. Good(0, [i \in 0 .. N |-> base]) /\ [i \in 0 .. N |-> base] \in [0 .. N -> T]
    BY DEF Loop
  <2>2. 0 \in 0 .. N
    OBVIOUS
  <2> QED BY Zenon, <2>1, <2>2
<1>2. ASSUME NEW n \in 1 .. N, n - 1 \in S PROVE n \in S
  <2>1. PICK f \in [0 .. N -> T] : Good(n - 1, f)
    BY <1>2
  <2> DEFINE g == [f EXCEPT ![n] = round[n][f[n - 1]]]
  <2>2. g \in [0 .. N -> T] /\ g[0] = base
    BY <2>1 DEF Loop
  <2>3. \A i \in 1 .. n : g[i] = round[i][g[i - 1]]
    BY <2>1 DEF Loop
  <2> HIDE DEF g
  <2> QED BY <2>2, <2>3 DEF Loop
<1>3. \A n \in 0 .. N : n \in S
  <2> HIDE DEF S
  <2> QED BY Zenon, <1>1, <1>2, LoopInduction
<1>4. N \in S
  BY <1>3, N \in 0 .. N
<1>5. PICK f \in [0 .. N -> T] : Good(N, f)
  BY Zenon, <1>4
<1> QED BY <1>5

\* What every round of a loop keeps, the loop keeps.
LEMMA LoopKeeps ==
  ASSUME NEW N \in Nat, NEW T, NEW f, f[0] \in T, \A n \in 1 .. N : f[n - 1] \in T => f[n] \in T
  PROVE  \A n \in 0 .. N : f[n] \in T
<1> DEFINE S == {n \in 0 .. N : f[n] \in T}
<1>1. 0 \in S
  OBVIOUS
<1>2. \A n \in 1 .. N : n - 1 \in S => n \in S
  OBVIOUS
<1> HIDE DEF S
<1>3. \A n \in 0 .. N : n \in S
  BY Zenon, <1>1, <1>2, LoopInduction
<1> QED BY <1>3 DEF S
-----------------------------------------------------------------------------
(* The rings *)

\* An enqueue at a priority with a ring keeps the rings within their arrays.
LEMMA EnqueueType ==
  ASSUME NEW qs \in [Prios -> Ring], NEW prio \in Prios, NEW p \in Slots
  PROVE  Enqueue(qs, prio, p) \in [Prios -> Ring]
<1> DEFINE s == qs[prio].entries
<1>1. s \in Seq(Slots) /\ Len(s) < QUEUESIZE /\ qs[prio].head \in 0 .. QUEUESIZE - 1
  BY DEF Ring
<1>2. Append(s, p) \in Seq(Slots) /\ Len(Append(s, p)) = Len(s) + 1
  BY <1>1
<1>3. << >> \in Seq(Slots) /\ Len(<< >>) = 0
  OBVIOUS
<1> DEFINE t == IF Len(s) = QUEUESIZE - 1 THEN << >> ELSE Append(s, p)
<1>4. t \in Seq(Slots) /\ Len(t) < QUEUESIZE
  BY <1>1, <1>2, <1>3, ProcessAssumption
<1> HIDE DEF t
<1>5. [qs[prio] EXCEPT !.entries = t] \in Ring
  BY <1>1, <1>4 DEF Ring
<1>6. [qs EXCEPT ![prio].entries = t] \in [Prios -> Ring]
  BY <1>5
<1>7. Enqueue(qs, prio, p) \in {qs, [qs EXCEPT ![prio].entries = t]}
  BY DEF Enqueue, t
<1> QED BY <1>6, <1>7

\* Every process has a priority with a ring.
LEMMA RingsThere ==
  ASSUME RingInv
  PROVE  0 \in Prios /\ \A p \in Slots : fp_priority[p] \in Prios /\ hfs_priority[p] = 0
BY ProcessAssumption DEF RingInv, Prios

\* The round of wakeup1 for one slot.
LEMMA EnqueueOneType ==
  ASSUME RingInv, NEW qs \in [Prios -> Ring], NEW st, NEW p \in Slots
  PROVE  EnqueueOne(qs, st, p) \in [Prios -> Ring]
<1>1. fp_priority[p] \in Prios /\ 0 \in Prios
  BY Zenon, RingsThere
<1> QED BY <1>1, EnqueueType DEF EnqueueOne

\* wakeup1 keeps the rings within their arrays, whatever it enqueues.
LEMMA EnqueueAllType ==
  ASSUME RingInv, NEW qs \in [Prios -> Ring], NEW st
  PROVE  EnqueueAll(qs, st) \in [Prios -> Ring]
<1> DEFINE T == [Prios -> Ring]
           Is(f) == f = [n \in 0 .. NPROC |-> IF n = 0 THEN qs ELSE EnqueueOne(f[n - 1], st, n)]
           round == [n \in 1 .. NPROC |-> [q \in T |-> EnqueueOne(q, st, n)]]
           loop == CHOOSE f : Is(f)
<1>0. NPROC \in Nat
  BY ProcessAssumption
<1>1. \A n \in 1 .. NPROC, q \in T : EnqueueOne(q, st, n) \in T
  BY EnqueueOneType DEF Slots
<1>2. round \in [1 .. NPROC -> [T -> T]]
  BY <1>1
<1>3. PICK f \in [0 .. NPROC -> T] : Loop(f, NPROC, qs, round)
  <2>1. qs \in T
    OBVIOUS
  <2> HIDE DEF round, T
  <2> QED BY Zenon, <1>0, <1>2, <2>1, LoopExists
<1>4. Is(f)
  <2>1. \A i \in 1 .. NPROC : i - 1 \in 0 .. NPROC /\ i # 0
    BY <1>0
  <2>2. \A i \in 1 .. NPROC : f[i - 1] \in T
    BY <1>3, <2>1
  <2>3. \A i \in 1 .. NPROC : round[i][f[i - 1]] = EnqueueOne(f[i - 1], st, i)
    BY Zenon, <2>2
  <2> HIDE DEF round, T
  <2>4. \A i \in 0 .. NPROC : i = 0 \/ i \in 1 .. NPROC
    BY <1>0
  <2>5. \A i \in 0 .. NPROC : f[i] = IF i = 0 THEN qs ELSE EnqueueOne(f[i - 1], st, i)
    BY <1>3, <2>3, <2>4 DEF Loop
  <2> QED BY <1>3, <2>5
<1>5. Is(loop)
  BY Zenon, <1>4
<1>6. EnqueueAll(qs, st) = loop[NPROC]
  BY DEF EnqueueAll
<1> HIDE DEF loop
<1> HIDE DEF T
<1>7. loop[0] \in T /\ \A n \in 1 .. NPROC : loop[n] = EnqueueOne(loop[n - 1], st, n)
  <2>1. 0 \in 0 .. NPROC /\ \A n \in 1 .. NPROC : n \in 0 .. NPROC /\ n # 0
    BY <1>0
  <2> QED BY Zenon, <1>5, <2>1 DEF T
<1>8. \A n \in 1 .. NPROC : loop[n - 1] \in T => loop[n] \in T
  BY <1>1, <1>7
<1>9. \A n \in 0 .. NPROC : loop[n] \in T
  BY Zenon, <1>0, <1>7, <1>8, LoopKeeps
<1> QED BY <1>0, <1>6, <1>9 DEF T

\* So does exit when it wakes init for the zombies that it leaves.
LEMMA InitQueuesType ==
  ASSUME RingInv, NEW qs \in [Prios -> Ring], NEW st, NEW zombies
  PROVE  InitQueues(qs, st, zombies) \in [Prios -> Ring]
<1> DEFINE T == [Prios -> Ring]
           Step(q, n) == IF n \in zombies THEN EnqueueAll(q, st) ELSE q
           Is(f) == f = [n \in 0 .. NPROC |-> IF n = 0 THEN qs
                                             ELSE IF n \in zombies THEN EnqueueAll(f[n - 1], st)
                                             ELSE f[n - 1]]
           round == [n \in 1 .. NPROC |-> [q \in T |-> Step(q, n)]]
           loop == CHOOSE f : Is(f)
<1>0. NPROC \in Nat
  BY ProcessAssumption
<1>1. \A n \in 1 .. NPROC, q \in T : Step(q, n) \in T
  BY EnqueueAllType
<1>2. round \in [1 .. NPROC -> [T -> T]]
  BY Zenon, <1>1
<1>3. PICK f \in [0 .. NPROC -> T] : Loop(f, NPROC, qs, round)
  <2>1. qs \in T
    OBVIOUS
  <2> HIDE DEF round, T
  <2> QED BY Zenon, <1>0, <1>2, <2>1, LoopExists
<1>4. Is(f)
  <2>1. \A i \in 1 .. NPROC : i - 1 \in 0 .. NPROC /\ i # 0
    BY <1>0
  <2>2. \A i \in 1 .. NPROC : f[i - 1] \in T
    BY <1>3, <2>1
  <2>3. \A i \in 1 .. NPROC : round[i][f[i - 1]] = Step(f[i - 1], i)
    BY Zenon, <2>2
  <2> HIDE DEF round, T
  <2>4. \A i \in 0 .. NPROC : i = 0 \/ i \in 1 .. NPROC
    BY <1>0
  <2>5. \A i \in 0 .. NPROC : f[i] = IF i = 0 THEN qs ELSE Step(f[i - 1], i)
    BY <1>3, <2>3, <2>4 DEF Loop
  <2> QED BY <1>3, <2>5
<1>5. Is(loop)
  BY Zenon, <1>4
<1>6. InitQueues(qs, st, zombies) = loop[NPROC]
  BY DEF InitQueues
<1> HIDE DEF loop, T
<1>7. loop[0] \in T /\ \A n \in 1 .. NPROC : loop[n] = Step(loop[n - 1], n)
  <2>1. 0 \in 0 .. NPROC /\ \A n \in 1 .. NPROC : n \in 0 .. NPROC /\ n # 0
    BY <1>0
  <2> QED BY Zenon, <1>5, <2>1 DEF T
<1>8. \A n \in 1 .. NPROC : loop[n - 1] \in T => loop[n] \in T
  <2> HIDE DEF Step
  <2> QED BY <1>1, <1>7
<1>9. \A n \in 0 .. NPROC : loop[n] \in T
  BY Zenon, <1>0, <1>7, <1>8, LoopKeeps
<1> QED BY <1>0, <1>6, <1>9 DEF T

\* A dequeue finds a slot of the table, and keeps the rings within their arrays.
LEMMA DequeueType ==
  ASSUME RingInv, NonEmpty # {}
  PROVE  Head(queue[TopPrio].entries) \in Slots /\ Dequeued \in [Prios -> Ring]
<1>1. NonEmpty \in SUBSET Nat
  BY DEF NonEmpty, Prios
<1>2. \E i \in NonEmpty : \A j \in NonEmpty : i <= j
  <2>1. PICK n \in NonEmpty : \A m \in NonEmpty : ~(<<m, n>> \in OpToRel(<, Nat))
    BY Zenon, <1>1, NatLessThanWellFounded, WFMin
  <2>2. \A m \in NonEmpty : m < n => <<m, n>> \in OpToRel(<, Nat)
    BY <1>1 DEF OpToRel
  <2>3. \A m \in NonEmpty : ~(m < n)
    BY Zenon, <2>1, <2>2
  <2> QED BY <1>1, <2>3
<1>3. TopPrio \in NonEmpty
  BY Zenon, <1>2 DEF TopPrio
<1> DEFINE i == TopPrio
           s == queue[i].entries
<1>4. i \in Prios /\ queue[i] \in Ring /\ s # << >>
  BY <1>3 DEF NonEmpty, RingInv
<1>5. s \in Seq(Slots) /\ Len(s) < QUEUESIZE /\ queue[i].head \in 0 .. QUEUESIZE - 1
  BY <1>4 DEF Ring
<1> DEFINE r == [head |-> (queue[i].head + 1) % QUEUESIZE, entries |-> Tail(s)]
<1>6. Head(s) \in Slots /\ Tail(s) \in Seq(Slots) /\ Len(Tail(s)) < QUEUESIZE
  <2> HIDE DEF s
  <2>1. Len(s) # 0 /\ Len(Tail(s)) = Len(s) - 1 /\ Len(s) \in Nat
    BY <1>4, <1>5
  <2> QED BY <1>4, <1>5, <2>1, ProcessAssumption
<1>7. (queue[i].head + 1) % QUEUESIZE \in 0 .. QUEUESIZE - 1
  BY <1>5, ProcessAssumption
<1>8. r \in Ring
  BY <1>6, <1>7 DEF Ring
<1>9. Dequeued = [queue EXCEPT ![i] = r]
  BY DEF Dequeued
<1> HIDE DEF i, r
<1>10. Dequeued \in [Prios -> Ring]
  BY Zenon, <1>8, <1>9 DEF RingInv
<1> QED BY <1>6, <1>10 DEF i
-----------------------------------------------------------------------------
(* exit *)

\* The slots are numbered from 1, and what is not a process is not a slot.
LEMMA Basics ==
  /\ 0 \in 0 .. NPROC /\ initproc \in Slots /\ 0 \notin Slots /\ IoChan \notin Slots /\ IoChan \in 0 .. IoChan
  /\ Slots \subseteq 0 .. NPROC /\ Slots \subseteq 0 .. IoChan
BY ProcessAssumption DEF Slots, initproc, IoChan

\* A parent is a process.
LEMMA ParentIsSlot ==
  ASSUME Tables
  PROVE  \A q \in Slots : parent[q] # 0 => parent[q] \in Slots
BY SMTT(60), ProcessAssumption DEF Tables, Slots

\* Such a process is RUNNING, and no other CPU runs it.
LEMMA RunnerIsRunning ==
  ASSUME RunsOnce, NEW c \in CPUs, NEW p \in Slots, cur[c] = p
  PROVE  state[p] = "RUNNING" /\ \A d \in CPUs : cur[d] = p => d = c
BY Basics DEF RunsOnce

\* What wakeup1 does to the table.
LEMMA WokenStates ==
  ASSUME NEW st \in [Slots -> States], NEW ch
  PROVE  /\ Woken(st, ch) \in [Slots -> States]
         /\ \A p \in Slots : Woken(st, ch)[p] = IF st[p] = "SLEEPING" /\ chan[p] = ch THEN "RUNNABLE" ELSE st[p]
BY DEF Woken, States

\* exit wakes the parent and gives the children to init.
LEMMA ExitInv ==
  ASSUME IInv, NEW c \in CPUs, NEW p \in Slots, Exit(c, p)
  PROVE  IInv'
<1> USE DEF Runs, SwitchOut, vars, tableVars, prioVars, cpuVars, ctlVars
<1>0. Tables /\ Others /\ RingInv /\ RunsOnce /\ ForkInv /\ Family
  BY DEF IInv
<1> DEFINE zombies == {q \in Slots : parent[q] = p /\ state[q] = "ZOMBIE"}
           first == Woken(state, parent[p])
           final == InitWoken(first, zombies)
<1>a. /\ Runs(c, p) /\ pc[p] = "user" /\ p # initproc
      /\ state' = [final EXCEPT ![p] = "ZOMBIE"]
      /\ parent' = [q \in Slots |-> IF parent[q] = p THEN initproc ELSE parent[q]]
      /\ queue' = InitQueues(EnqueueAll(queue, first), final, zombies)
      /\ hfs_priority' = HfsReset /\ SwitchOut(c)
      /\ UNCHANGED <<pid, killed, chan, queueType, fp_priority, ctlVars, nextpid, asked>>
  BY Zenon DEF Exit, Reparented
<1>b. /\ first \in [Slots -> States]
      /\ \A q \in Slots : first[q] = IF state[q] = "SLEEPING" /\ chan[q] = parent[p] THEN "RUNNABLE" ELSE state[q]
  BY SMTT(60), <1>0, WokenStates DEF Tables
<1>c. /\ final \in [Slots -> States]
      /\ \A q \in Slots : final[q] = IF first[q] = "SLEEPING" /\ zombies # {} /\ chan[q] = initproc
                                 THEN "RUNNABLE" ELSE first[q]
  <2> HIDE DEF first, zombies
  <2> QED BY SMTT(60), <1>b, WokenStates DEF InitWoken
<1> HIDE DEF first, final
<1>d. /\ state[p] = "RUNNING" /\ (\A d \in CPUs : cur[d] = p => d = c)
      /\ state' \in [Slots -> States] /\ state'[p] = "ZOMBIE"
      /\ \A q \in Slots \ {p} : state'[q] = state[q] \/ (state[q] = "SLEEPING" /\ state'[q] = "RUNNABLE")
  <2>1. cur[c] = p
    BY SMTT(60), <1>a
  <2>2. state[p] = "RUNNING" /\ (\A d \in CPUs : cur[d] = p => d = c)
    BY SMTT(60), <1>0, <2>1, RunnerIsRunning
  <2> QED BY <1>a, <1>b, <1>c, <2>2 DEF States
<1>1. Tables'
  BY <1>0, <1>d, <1>a, Basics DEF Tables
<1>2. Others'
  BY <1>0, <1>a DEF Others
<1>3. RingInv'
  <2>1. hfs_priority' = hfs_priority
    BY <1>0, <1>a DEF RingInv, HfsReset
  <2>2. PICK qs \in [Prios -> Ring] : qs = EnqueueAll(queue, first)
    BY <1>0, EnqueueAllType DEF RingInv
  <2>3. queue' \in [Prios -> Ring]
    BY SMTT(60), <1>0, <1>a, <2>2, InitQueuesType
  <2> QED BY <1>0, <1>a, <2>1, <2>3 DEF RingInv
<1>4. RunsOnce'
  BY SMTT(60), <1>0, <1>d, <1>a, Basics DEF RunsOnce, Tables
<1>5. ForkInv'
  BY <1>0, <1>d, <1>a, Basics DEF ForkInv, Tables
<1>6. Family'
  <2>0. \A q \in Slots : (Live(q)' <=> Live(q) /\ q # p) /\ (state'[q] = "ZOMBIE" <=> state[q] = "ZOMBIE" \/ q = p)
    BY <1>0, <1>d DEF Live, Tables
  <2>1. \A q \in Slots : parent'[q] = IF parent[q] = p THEN initproc ELSE parent[q]
    BY <1>a
  <2>2. InitInv'
    BY <1>0, <1>a, <2>0, <2>1, Basics DEF Family, InitInv
  <2>3. ParentAlive'
    <3>1. \A q \in Slots : parent[q] # 0 => parent[q] \in Slots
      BY Zenon, <1>0, ParentIsSlot
    <3>2. Live(p) /\ Live(initproc) /\ p # initproc /\ \A q \in Slots : parent[q] # q
      BY <1>0, <1>d, <1>a DEF Family, InitInv, Live
    <3>3. SUFFICES ASSUME NEW q \in Slots, (Live(q) \/ state[q] = "ZOMBIE")', q # initproc
                   PROVE  parent'[q] # 0 /\ Live(parent[q])'
      BY SMTT(60) DEF ParentAlive
    <3>4. Live(q) \/ state[q] = "ZOMBIE"
      BY <1>d, <2>0, <3>2, <3>3
    <3>5. parent[q] # 0 /\ Live(parent[q]) /\ parent[q] \in Slots
      BY <1>0, <3>1, <3>3, <3>4 DEF Family, ParentAlive
    <3>6. PICK r \in Slots : r = parent'[q] /\ Live(r) /\ r # p
      BY Zenon, <2>1, <3>2, <3>5, Basics
    <3>7. Live(r)'
      BY <2>0, <3>6
    <3> QED BY <3>6, <3>7, Basics DEF Live
  <2>4. NoSleepingParentOfZombie'
    <3>1. SUFFICES ASSUME NEW a \in Slots, NEW z \in Slots,
                          state'[a] = "SLEEPING", chan'[a] = a, state'[z] = "ZOMBIE"
                   PROVE  parent'[z] # a
      BY DEF NoSleepingParentOfZombie
    <3>2. /\ a # p /\ state[a] = "SLEEPING" /\ chan[a] = a /\ a # parent[p] /\ first[a] = "SLEEPING"
          /\ (zombies # {} => a # initproc)
      <4>1. a # p /\ chan[a] = a /\ final[a] = "SLEEPING"
        BY <1>d, <1>a, <1>c, <3>1
      <4>2. first[a] = "SLEEPING" /\ (zombies # {} => a # initproc)
        <5> HIDE DEF zombies
        <5> QED BY <1>c, <4>1
      <4> QED BY Zenon, <1>b, <4>1, <4>2
    <3>3. CASE z = p
      BY <1>0, <2>1, <3>2, <3>3 DEF Family, InitInv
    <3>4. CASE z # p /\ parent[z] = p
      BY SMTT(60), <2>0, <2>1, <3>1, <3>2, <3>4
    <3>5. CASE z # p /\ parent[z] # p
      BY <1>0, <2>0, <2>1, <3>1, <3>2, <3>5 DEF Family, NoSleepingParentOfZombie
    <3> QED BY <3>3, <3>4, <3>5
  <2> QED BY <2>2, <2>3, <2>4 DEF Family
<1> QED BY <1>1, <1>2, <1>3, <1>4, <1>5, <1>6 DEF IInv
-----------------------------------------------------------------------------
(* The scheduler *)

\* The switch into a RUNNABLE process, from the rings or from the scan.
LEMMA RunInv ==
  ASSUME IInv, NEW c \in CPUs, NEW p \in Slots, NEW next \in 0 .. NPROC + 1,
         cur[c] = 0, state[p] = "RUNNABLE", Run(c, p, next), queue' \in [Prios -> Ring],
         UNCHANGED <<pid, parent, killed, queueType, fp_priority, hfs_priority, ctlVars, nextpid, asked>>
  PROVE  IInv'
<1>0. Tables /\ Others /\ RingInv /\ RunsOnce /\ ForkInv /\ Family
  BY DEF IInv
<1>a. /\ state' = [state EXCEPT ![p] = "RUNNING"] /\ chan' = [chan EXCEPT ![p] = 0]
      /\ cur' = [cur EXCEPT ![c] = p] /\ UNCHANGED <<parent, pc, child>>
  BY DEF Run, ctlVars
<1>1. Tables'
  BY <1>0, <1>a, Basics DEF Tables, States
<1>2. Others'
  BY <1>0 DEF Run, ctlVars, Others
<1>3. RingInv'
  BY <1>0 DEF Run, ctlVars, RingInv
<1>4. RunsOnce'
  BY <1>0, <1>a, Basics DEF RunsOnce, Tables
<1>5. ForkInv'
  BY <1>0, <1>a, Basics DEF ForkInv, Tables
<1>6. Family'
  BY <1>0, <1>a, Basics DEF Family, InitInv, ParentAlive, NoSleepingParentOfZombie, Live, Tables
<1> QED BY <1>1, <1>2, <1>3, <1>4, <1>5, <1>6 DEF IInv

\* A step in which no state changes and no CPU turns to another process.
LEMMA QuietInv ==
  ASSUME IInv, Others', RingInv', UNCHANGED <<state, parent, chan, cur, ctlVars>>
  PROVE  IInv'
BY DEF IInv, Tables, RunsOnce, ForkInv, Family, InitInv, ParentAlive, NoSleepingParentOfZombie, Live, ctlVars

\* The scheduler tries the head of the rings.
LEMMA SchedTopInv == ASSUME IInv, NEW c \in CPUs, SchedTop(c) PROVE IInv'
<1>0. Tables /\ Others /\ RingInv
  BY DEF IInv
<1>1. queue' \in [Prios -> Ring]
  BY <1>0, DequeueType DEF SchedTop, RingInv
<1>2. CASE NonEmpty # {} /\ Ready(Head(queue[TopPrio].entries))
  <2>1. PICK p \in Slots : p = Head(queue[TopPrio].entries)
    BY <1>0, <1>2, DequeueType
  <2>2. cur[c] = 0 /\ state[p] = "RUNNABLE" /\ Run(c, p, 1) /\ 1 \in 0 .. NPROC + 1
    BY <1>2, <2>1, ProcessAssumption DEF SchedTop, Ready
  <2> QED BY <1>1, <2>2, RunInv DEF SchedTop
<1>3. CASE ~(NonEmpty # {} /\ Ready(Head(queue[TopPrio].entries)))
  <2>1. UNCHANGED <<state, parent, chan, cur, ctlVars>>
    BY <1>3 DEF SchedTop
  <2>2. Others' /\ RingInv'
    BY <1>0, <1>1, <1>3, ProcessAssumption DEF SchedTop, Others, RingInv
  <2> QED BY Zenon, <2>1, <2>2, QuietInv
<1> QED BY <1>2, <1>3

\* The scheduler scans the table.
LEMMA SchedScanInv == ASSUME IInv, NEW c \in CPUs, SchedScan(c) PROVE IInv'
<1>0. Tables /\ Others /\ RingInv
  BY DEF IInv
<1>1. queue' \in [Prios -> Ring]
  BY <1>0 DEF SchedScan, RingInv, prioVars
<1>2. CASE Scanned(c) # {}
  <2>1. PICK p \in Scanned(c) : Run(c, p, p + 1)
    BY <1>2 DEF SchedScan
  <2>2. p \in Slots /\ cur[c] = 0 /\ state[p] = "RUNNABLE" /\ p + 1 \in 0 .. NPROC + 1
    BY ProcessAssumption DEF SchedScan, Scanned, Slots
  <2> QED BY <1>1, <2>1, <2>2, RunInv DEF SchedScan, prioVars
<1>3. CASE Scanned(c) = {}
  <2>1. UNCHANGED <<state, parent, chan, cur, ctlVars>>
    BY <1>3 DEF SchedScan
  <2>2. Others' /\ RingInv'
    BY SMTT(60), <1>0, <1>1, <1>3, ProcessAssumption DEF SchedScan, Others, RingInv, prioVars
  <2> QED BY Zenon, <2>1, <2>2, QuietInv
<1> QED BY <1>2, <1>3
-----------------------------------------------------------------------------
(* The other calls of a process *)

\* The clock interrupt.
LEMMA YieldInv ==
  ASSUME IInv, NEW c \in CPUs, NEW p \in Slots, Yield(c, p)
  PROVE  IInv'
<1>0. Tables /\ Others /\ RingInv /\ RunsOnce /\ ForkInv /\ Family
  BY DEF IInv
<1>a. /\ state' = [state EXCEPT ![p] = "RUNNABLE"] /\ cur' = [cur EXCEPT ![c] = 0]
      /\ cur[c] = p /\ UNCHANGED <<parent, chan, pc, child>>
  BY DEF Yield, Runs, SwitchOut, ctlVars
<1>b. state[p] = "RUNNING" /\ \A d \in CPUs : cur[d] = p => d = c
  BY <1>0, RunnerIsRunning DEF Yield, Runs, SwitchOut, ctlVars
<1>1. Tables'
  BY <1>0, <1>a, Basics DEF Tables, States
<1>2. Others'
  BY <1>0 DEF Yield, Runs, SwitchOut, ctlVars, Others
<1>3. RingInv'
  <2>0. hfs_priority[p] = 0 /\ fp_priority[p] \in Prios
    BY Zenon, <1>0, RingsThere
  <2>1. ~(hfs_priority[p] > PRIO_MAX) /\ fp_priority[p] \in Prios
    BY <2>0, ProcessAssumption
  <2>2. queue' \in [Prios -> Ring]
    BY <1>0, <2>1, EnqueueType DEF Yield, Runs, SwitchOut, ctlVars, RingInv
  <2>3. hfs_priority' = hfs_priority
    BY <1>0, <2>1 DEF Yield, Runs, SwitchOut, ctlVars, RingInv
  <2> QED BY <1>0, <2>2, <2>3 DEF Yield, Runs, SwitchOut, ctlVars, RingInv
<1>4. RunsOnce'
  BY <1>0, <1>a, <1>b, Basics DEF RunsOnce, Tables
<1>5. ForkInv'
  BY Zenon, <1>0, <1>a, <1>b, Basics DEF ForkInv, Tables
<1>6. Family'
  BY SMTT(60), <1>0, <1>a, <1>b, Basics DEF Family, InitInv, ParentAlive, NoSleepingParentOfZombie, Live, Tables
<1> QED BY <1>1, <1>2, <1>3, <1>4, <1>5, <1>6 DEF IInv

\* sleep in a driver.
LEMMA SleepInv ==
  ASSUME IInv, NEW c \in CPUs, NEW p \in Slots, Sleep(c, p)
  PROVE  IInv'
<1>0. Tables /\ Others /\ RingInv /\ RunsOnce /\ ForkInv /\ Family
  BY DEF IInv
<1>a. /\ state' = [state EXCEPT ![p] = "SLEEPING"] /\ chan' = [chan EXCEPT ![p] = IoChan]
      /\ pc[p] = "user" /\ cur[c] = p /\ cur' = [cur EXCEPT ![c] = 0] /\ UNCHANGED <<parent, pc, child>>
  BY DEF Sleep, Runs, SwitchOut, prioVars, ctlVars
<1>b. state[p] = "RUNNING" /\ \A d \in CPUs : cur[d] = p => d = c
  BY <1>0, RunnerIsRunning DEF Sleep, Runs, SwitchOut, prioVars, ctlVars
<1>1. Tables'
  BY <1>0, <1>a, Basics DEF Tables, States
<1>2. Others'
  BY <1>0 DEF Sleep, Runs, SwitchOut, prioVars, ctlVars, Others
<1>3. RingInv'
  BY <1>0 DEF Sleep, Runs, SwitchOut, prioVars, ctlVars, RingInv
<1>4. RunsOnce'
  BY <1>0, <1>a, <1>b, Basics DEF RunsOnce, Tables
<1>5. ForkInv'
  BY Zenon, <1>0, <1>a, <1>b, Basics DEF ForkInv, Tables
<1>6. Family'
  BY <1>0, <1>a, <1>b, Basics DEF Family, InitInv, ParentAlive, NoSleepingParentOfZombie, Live, Tables
<1> QED BY <1>1, <1>2, <1>3, <1>4, <1>5, <1>6 DEF IInv

\* wakeup of a channel that is no process.
LEMMA WakeupInv ==
  ASSUME IInv, Wakeup
  PROVE  IInv'
<1>0. Tables /\ Others /\ RingInv /\ RunsOnce /\ ForkInv /\ Family
  BY DEF IInv
<1>a. UNCHANGED <<parent, chan, cur, pc, child>>
  BY DEF Wakeup, cpuVars, ctlVars
<1>b. /\ state' \in [Slots -> States]
      /\ \A q \in Slots : state'[q] = IF state[q] = "SLEEPING" /\ chan[q] = IoChan THEN "RUNNABLE" ELSE state[q]
  BY <1>0, WokenStates DEF Wakeup, cpuVars, ctlVars, Tables
<1>1. Tables'
  BY <1>0, <1>a, <1>b DEF Tables
<1>2. Others'
  BY <1>0 DEF Wakeup, cpuVars, ctlVars, Others
<1>3. RingInv'
  <2>1. queue' \in [Prios -> Ring]
    BY <1>0, EnqueueAllType DEF Wakeup, cpuVars, ctlVars, RingInv
  <2>2. hfs_priority' = hfs_priority
    BY <1>0 DEF Wakeup, cpuVars, ctlVars, RingInv, HfsReset
  <2> QED BY <1>0, <2>1, <2>2 DEF Wakeup, cpuVars, ctlVars, RingInv
<1>4. RunsOnce'
  BY Zenon, <1>0, <1>a, <1>b, Basics DEF RunsOnce, Tables
<1>5. ForkInv'
  BY <1>0, <1>a, <1>b, Basics DEF ForkInv, Tables
<1>6. Family'
  <2>1. \A q \in Slots : Live(q)' <=> Live(q)
    BY <1>0, <1>a, <1>b DEF Live, Tables
  <2>2. InitInv'
    BY <1>0, <1>a, <2>1, Basics DEF Family, InitInv
  <2>3. ParentAlive'
    <3>1. \A q \in Slots : parent[q] # 0 => parent[q] \in Slots
      BY Zenon, <1>0, ParentIsSlot
    <3> QED BY <1>0, <1>a, <1>b, <2>1, <3>1 DEF Family, ParentAlive
  <2>4. NoSleepingParentOfZombie'
    BY <1>0, <1>a, <1>b DEF Family, NoSleepingParentOfZombie
  <2> QED BY <1>a, <2>2, <2>3, <2>4 DEF Family
<1> QED BY <1>1, <1>2, <1>3, <1>4, <1>5, <1>6 DEF IInv

\* fork claims a slot.
LEMMA ForkAllocInv ==
  ASSUME IInv, NEW c \in CPUs, NEW p \in Slots, ForkAlloc(c, p)
  PROVE  IInv'
<1>0. Tables /\ Others /\ RingInv /\ RunsOnce /\ ForkInv /\ Family
  BY DEF IInv
<1>a. /\ pc[p] = "user" /\ pc' = [pc EXCEPT ![p] = "fork"] /\ UNCHANGED <<parent, chan, cur>>
      /\ \E n \in Slots : /\ state[n] = "UNUSED" /\ state' = [state EXCEPT ![n] = "EMBRYO"]
                         /\ child' = [child EXCEPT ![p] = n]
  BY Zenon DEF ForkAlloc, Call, Runs, prioVars, cpuVars
<1>b. state[p] = "RUNNING" /\ \A d \in CPUs : cur[d] = p => d = c
  BY <1>0, RunnerIsRunning DEF ForkAlloc, Call, Runs, prioVars, cpuVars
<1>1. Tables'
  <2>1. PICK n \in Slots : /\ state[n] = "UNUSED" /\ state' = [state EXCEPT ![n] = "EMBRYO"]
                           /\ child' = [child EXCEPT ![p] = n]
    BY Zenon, <1>a
  <2> QED BY <1>0, <1>a, <2>1, Basics DEF Tables, States
<1>2. Others'
  <2>1. nextpid \in 0 .. MaxPid /\ nextpid' \in 1 .. MaxPid + 1
    BY <1>0, ProcessAssumption DEF ForkAlloc, Call, Runs, prioVars, cpuVars, Others
  <2> QED BY <1>0, <2>1 DEF ForkAlloc, Call, Runs, prioVars, cpuVars, Others
<1>3. RingInv'
  BY <1>0 DEF ForkAlloc, Call, Runs, prioVars, cpuVars, RingInv
<1>4. RunsOnce'
  BY ZenonT(60), <1>0, <1>a, <1>b, Basics DEF RunsOnce, Tables
<1>5. ForkInv'
  <2>1. PICK n \in Slots : /\ state[n] = "UNUSED" /\ state' = [state EXCEPT ![n] = "EMBRYO"]
                           /\ child' = [child EXCEPT ![p] = n]
    BY Zenon, <1>a
  <2>2. n # initproc
    BY Zenon, <1>0, <1>a, <2>1 DEF Family, InitInv, Live
  <2> QED BY <1>0, <1>a, <1>b, <2>1, <2>2, Basics DEF ForkInv, Tables
<1>6. Family'
  BY <1>0, <1>a, <1>b, Basics DEF Family, InitInv, ParentAlive, NoSleepingParentOfZombie, Live, Tables
<1> QED BY <1>1, <1>2, <1>3, <1>4, <1>5, <1>6 DEF IInv

\* fork gives the slot back.
LEMMA ForkFailInv ==
  ASSUME IInv, NEW c \in CPUs, NEW p \in Slots, ForkFail(c, p)
  PROVE  IInv'
<1>0. Tables /\ Others /\ RingInv /\ RunsOnce /\ ForkInv /\ Family
  BY DEF IInv
<1>a. /\ pc[p] = "fork" /\ state' = [state EXCEPT ![child[p]] = "UNUSED"] /\ pc' = [pc EXCEPT ![p] = "user"]
      /\ child' = [child EXCEPT ![p] = 0] /\ UNCHANGED <<parent, chan, cur>>
  BY DEF ForkFail, Runs, prioVars, cpuVars
<1>b. child[p] \in Slots \ {initproc} /\ state[child[p]] = "EMBRYO"
  BY <1>0 DEF ForkFail, Runs, prioVars, cpuVars, ForkInv
<1>1. Tables'
  BY Zenon, <1>0, <1>a, Basics DEF Tables, States
<1>2. Others'
  BY <1>0 DEF ForkFail, Runs, prioVars, cpuVars, Others
<1>3. RingInv'
  BY Zenon, <1>0 DEF ForkFail, Runs, prioVars, cpuVars, RingInv
<1>4. RunsOnce'
  BY Zenon, <1>0, <1>a, <1>b, Basics DEF RunsOnce, Tables
<1>5. ForkInv'
  BY Zenon, <1>0, <1>a, <1>b, Basics DEF ForkInv, Tables
<1>6. Family'
  BY SMTT(60), <1>0, <1>a, <1>b, Basics DEF Family, InitInv, ParentAlive, NoSleepingParentOfZombie, Live, Tables
<1> QED BY <1>1, <1>2, <1>3, <1>4, <1>5, <1>6 DEF IInv

\* fork makes the child RUNNABLE.
LEMMA ForkFinishInv ==
  ASSUME IInv, NEW c \in CPUs, NEW p \in Slots, ForkFinish(c, p)
  PROVE  IInv'
<1>0. Tables /\ Others /\ RingInv /\ RunsOnce /\ ForkInv /\ Family
  BY DEF IInv
<1>a. /\ pc[p] = "fork" /\ parent' = [parent EXCEPT ![child[p]] = p]
      /\ state' = [state EXCEPT ![child[p]] = "RUNNABLE"] /\ pc' = [pc EXCEPT ![p] = "user"]
      /\ child' = [child EXCEPT ![p] = 0] /\ UNCHANGED <<chan, cur>>
  BY Zenon DEF ForkFinish, Runs, cpuVars
<1>b. /\ child[p] \in Slots \ {initproc} /\ state[child[p]] = "EMBRYO"
      /\ state[p] = "RUNNING" /\ \A d \in CPUs : cur[d] = p => d = c
  BY Zenon, <1>0, RunnerIsRunning DEF ForkFinish, Runs, cpuVars, ForkInv
<1>1. Tables'
  BY <1>0, <1>a, <1>b, Basics DEF Tables, States
<1>2. Others'
  BY Zenon, <1>0 DEF ForkFinish, Runs, cpuVars, Others
<1>3. RingInv'
  <2>1. fp_priority[p] \in Prios /\ hfs_priority[p] = 0 /\ 0 \in Prios
    BY Zenon, <1>0, RingsThere
  <2>2. queue' \in [Prios -> Ring]
    BY <1>0, <1>b, <2>1, EnqueueType DEF ForkFinish, Runs, cpuVars, RingInv
  <2>3. fp_priority' \in [Slots -> Prios]
    BY Zenon, <1>0, <2>1 DEF ForkFinish, Runs, cpuVars, RingInv
  <2>4. hfs_priority' = [q \in Slots |-> 0]
    BY Zenon, <1>0, <2>1 DEF ForkFinish, Runs, cpuVars, RingInv
  <2> QED BY <2>2, <2>3, <2>4 DEF RingInv
<1>4. RunsOnce'
  BY Zenon, <1>0, <1>a, <1>b, Basics DEF RunsOnce, Tables
<1>5. ForkInv'
  BY Zenon, <1>0, <1>a, <1>b, Basics DEF ForkInv, Tables
<1>6. Family'
  BY <1>0, <1>a, <1>b, Basics DEF Family, InitInv, ParentAlive, NoSleepingParentOfZombie, Live, Tables
<1> QED BY <1>1, <1>2, <1>3, <1>4, <1>5, <1>6 DEF IInv
-----------------------------------------------------------------------------
(* wait, kill and prio_set *)

\* wait frees the slot of a zombie.
LEMMA WaitReapInv ==
  ASSUME IInv, NEW c \in CPUs, NEW p \in Slots, WaitReap(c, p)
  PROVE  IInv'
<1>0. Tables /\ Others /\ RingInv /\ RunsOnce /\ ForkInv /\ Family
  BY DEF IInv
<1>a. /\ cur[c] = p /\ pc[p] # "fork" /\ pc' = [pc EXCEPT ![p] = "user"] /\ UNCHANGED <<chan, cur, child>>
  BY DEF WaitReap, InWait, Call, Runs, prioVars
<1>b. PICK q \in Slots : /\ parent[q] = p /\ state[q] = "ZOMBIE"
                         /\ state' = [state EXCEPT ![q] = "UNUSED"]
                         /\ pid' = [pid EXCEPT ![q] = 0]
                         /\ parent' = [parent EXCEPT ![q] = 0]
                         /\ killed' = [killed EXCEPT ![q] = FALSE]
  BY Zenon DEF WaitReap, InWait, Call, Runs, prioVars, Zombies, Children
<1>1. Tables'
  BY Zenon, <1>0, <1>a, <1>b, Basics DEF Tables, States
<1>2. Others'
  <2>0. 0 \in 0 .. MaxPid
    BY ProcessAssumption
  <2>1. pid' \in [Slots -> 0 .. MaxPid]
    BY Zenon, <1>0, <1>b, <2>0 DEF Others
  <2>2. killed' \in [Slots -> BOOLEAN]
    BY <1>0, <1>b DEF Others
  <2> QED BY <1>0, <2>1, <2>2 DEF WaitReap, InWait, Call, Runs, prioVars, Others
<1>3. RingInv'
  BY Zenon, <1>0 DEF WaitReap, InWait, Call, Runs, prioVars, RingInv
<1>4. RunsOnce'
  BY Zenon, <1>0, <1>a, <1>b, Basics DEF RunsOnce, Tables
<1>5. ForkInv'
  BY Zenon, <1>0, <1>a, <1>b, Basics DEF ForkInv, Tables
<1>6. Family'
  BY SMTT(60), <1>0, <1>a, <1>b, Basics DEF Family, InitInv, ParentAlive, NoSleepingParentOfZombie, Live, Tables
<1> QED BY Zenon, <1>1, <1>2, <1>3, <1>4, <1>5, <1>6 DEF IInv

\* wait goes to sleep when no child is a zombie.
LEMMA WaitSleepInv ==
  ASSUME IInv, NEW c \in CPUs, NEW p \in Slots, WaitSleep(c, p)
  PROVE  IInv'
<1>0. Tables /\ Others /\ RingInv /\ RunsOnce /\ ForkInv /\ Family
  BY DEF IInv
<1>a. /\ cur[c] = p /\ state' = [state EXCEPT ![p] = "SLEEPING"] /\ chan' = [chan EXCEPT ![p] = p]
      /\ pc[p] # "fork" /\ pc' = [pc EXCEPT ![p] = "wait"] /\ cur' = [cur EXCEPT ![c] = 0]
      /\ Zombies(p) = {} /\ UNCHANGED <<parent, child>>
  BY Zenon DEF WaitSleep, InWait, Call, Runs, SwitchOut, prioVars
<1>b. state[p] = "RUNNING" /\ \A d \in CPUs : cur[d] = p => d = c
  BY Zenon, <1>0, RunnerIsRunning DEF WaitSleep, InWait, Call, Runs, SwitchOut, prioVars
<1>1. Tables'
  BY Zenon, <1>0, <1>a, Basics DEF Tables, States
<1>2. Others'
  BY <1>0 DEF WaitSleep, InWait, Call, Runs, SwitchOut, prioVars, Others
<1>3. RingInv'
  BY <1>0 DEF WaitSleep, InWait, Call, Runs, SwitchOut, prioVars, RingInv
<1>4. RunsOnce'
  BY SMTT(60), <1>0, <1>a, <1>b, Basics DEF RunsOnce, Tables
<1>5. ForkInv'
  BY <1>0, <1>a, <1>b, Basics DEF ForkInv, Tables
<1>6. Family'
  <2>1. InitInv' /\ ParentAlive'
    BY <1>0, <1>a, <1>b, Basics DEF Family, InitInv, ParentAlive, Live, Tables
  <2>2. \A q \in Slots : state[q] = "ZOMBIE" => parent[q] # p
    BY <1>a DEF Zombies, Children
  <2>3. NoSleepingParentOfZombie'
    BY Zenon, <1>0, <1>a, <1>b, <2>2 DEF Family, NoSleepingParentOfZombie, Tables
  <2> QED BY Zenon, <2>1, <2>3 DEF Family
<1> QED BY <1>1, <1>2, <1>3, <1>4, <1>5, <1>6 DEF IInv

\* wait returns.
LEMMA WaitFailInv ==
  ASSUME IInv, NEW c \in CPUs, NEW p \in Slots, WaitFail(c, p)
  PROVE  IInv'
<1>0. Tables /\ Others /\ RingInv /\ RunsOnce /\ ForkInv /\ Family
  BY DEF IInv
<1>a. /\ pc[p] # "fork" /\ pc' = [pc EXCEPT ![p] = "user"] /\ UNCHANGED <<state, parent, chan, cur, child>>
  BY DEF WaitFail, InWait, Call, Runs, tableVars, prioVars
<1>1. Tables'
  BY Zenon, <1>0, <1>a, Basics DEF Tables, States
<1>2. Others'
  BY Zenon, <1>0 DEF WaitFail, InWait, Call, Runs, tableVars, prioVars, Others
<1>3. RingInv'
  BY <1>0 DEF WaitFail, InWait, Call, Runs, tableVars, prioVars, RingInv
<1>4. RunsOnce'
  BY Zenon, <1>0, <1>a, Basics DEF RunsOnce, Tables
<1>5. ForkInv'
  BY Zenon, <1>0, <1>a, Basics DEF ForkInv, Tables
<1>6. Family'
  BY <1>0, <1>a, Basics DEF Family, InitInv, ParentAlive, NoSleepingParentOfZombie, Live, Tables
<1> QED BY <1>1, <1>2, <1>3, <1>4, <1>5, <1>6 DEF IInv

\* kill marks a process and wakes it.
LEMMA KillInv ==
  ASSUME IInv, NEW c \in CPUs, NEW p \in Slots, NEW arg \in KillArgs, Kill(c, p, arg)
  PROVE  IInv'
<1>0. Tables /\ Others /\ RingInv /\ RunsOnce /\ ForkInv /\ Family
  BY Zenon DEF IInv
<1>a. UNCHANGED <<parent, chan, cur, pc, child, fp_priority>>
  BY DEF Kill, Call, Runs, cpuVars, ctlVars
<1>b. PICK q \in Slots :
        /\ killed' = [killed EXCEPT ![q] = TRUE]
        /\ state' = [state EXCEPT ![q] = IF @ = "SLEEPING" THEN "RUNNABLE" ELSE @]
        /\ hfs_priority' = [hfs_priority EXCEPT ![q] = IF queueType[q] = HFS_POLICY THEN 0 ELSE @]
        /\ queue' \in {queue, Enqueue(queue, IF queueType[q] = FP_POLICY THEN fp_priority[q] ELSE 0, q)}
  BY Zenon DEF Kill, Call, Runs, cpuVars, ctlVars, Rouse
<1>1. Tables'
  BY Zenon, <1>0, <1>a, <1>b, Basics DEF Tables, States
<1>2. Others'
  BY <1>0, <1>b DEF Kill, Call, Runs, cpuVars, ctlVars, Others
<1>3. RingInv'
  <2>1. fp_priority[q] \in Prios /\ 0 \in Prios
    BY Zenon, <1>0, RingsThere
  <2>2. queue' \in [Prios -> Ring]
    BY <1>0, <1>b, <2>1, EnqueueType DEF RingInv
  <2>3. hfs_priority' = hfs_priority
    BY Zenon, <1>0, <1>b DEF RingInv
  <2> QED BY <1>0, <1>a, <2>2, <2>3 DEF RingInv
<1>4. RunsOnce'
  BY Zenon, <1>0, <1>a, <1>b, Basics DEF RunsOnce, Tables
<1>5. ForkInv'
  BY Zenon, <1>0, <1>a, <1>b, Basics DEF ForkInv, Tables
<1>6. Family'
  BY <1>0, <1>a, <1>b, Basics DEF Family, InitInv, ParentAlive, NoSleepingParentOfZombie, Live, Tables
<1> QED BY <1>1, <1>2, <1>3, <1>4, <1>5, <1>6 DEF IInv

\* prio_set stores a priority that has a ring, if it is not given PRIO_MAX.
LEMMA PrioSetInv ==
  ASSUME IInv, RingForEach, NEW c \in CPUs, NEW p \in Slots, NEW arg, NEW prio \in PrioArgs,
         PrioSet(c, p, arg, prio)
  PROVE  IInv'
<1>0. Others /\ RingInv
  BY DEF IInv
<1>1. prio \in Prios
  BY ProcessAssumption DEF PrioSet, RingForEach, Prios
<1>2. fp_priority' \in [Slots -> Prios]
  BY Zenon, <1>0, <1>1 DEF PrioSet, RingInv
<1>3. UNCHANGED <<state, parent, chan, cur, ctlVars>>
  BY Zenon DEF PrioSet, tableVars, cpuVars
<1>4. Others'
  BY <1>0 DEF PrioSet, Others, tableVars, cpuVars
<1>5. UNCHANGED <<queue, hfs_priority>>
  BY DEF PrioSet
<1>6. RingInv'
  BY Zenon, <1>0, <1>2, <1>5 DEF RingInv
<1> QED BY Zenon, <1>3, <1>4, <1>6, QuietInv
-----------------------------------------------------------------------------
(* Theorems *)

\* The invariant holds after userinit.
LEMMA InitIInv == Init => IInv
<1> SUFFICES ASSUME Init PROVE IInv
  BY Zenon
<1>1. Tables
  BY SMTT(60), Basics DEF Init, Tables, States
<1>2. Others
  BY ProcessAssumption DEF Init, Others
<1>3. RingInv
  <2>1. [head |-> 0, entries |-> << >>] \in Ring /\ 0 \in Prios
    BY SMTT(60), ProcessAssumption DEF Ring, Prios
  <2> QED BY Zenon, <2>1 DEF Init, RingInv
<1>4. RunsOnce
  BY Zenon, Basics DEF Init, RunsOnce
<1>5. ForkInv
  BY Zenon DEF Init, ForkInv
<1>6. Family
  BY Basics DEF Init, Family, InitInv, ParentAlive, NoSleepingParentOfZombie, Live
<1> QED BY <1>1, <1>2, <1>3, <1>4, <1>5, <1>6 DEF IInv

\* Every step of a CPU, a process or an interrupt keeps it.
LEMMA NextIInv == ASSUME RingForEach, IInv, [Next]_vars PROVE IInv'
<1>1. ASSUME NEW c \in CPUs, Scheduler(c) PROVE IInv'
  BY Zenon, <1>1, SchedTopInv, SchedScanInv DEF Scheduler
<1>2. ASSUME NEW c \in CPUs, NEW p \in Slots, Yield(c, p) \/ Program(c, p) PROVE IInv'
  <2>1. CASE Waits(c, p)
    BY Zenon, <2>1, WaitReapInv, WaitFailInv, WaitSleepInv DEF Waits
  <2>2. CASE ForkAlloc(c, p) \/ ForkFail(c, p) \/ ForkFinish(c, p) \/ Exit(c, p)
    BY Zenon, <2>2, ForkAllocInv, ForkFailInv, ForkFinishInv, ExitInv
  <2>3. CASE Yield(c, p) \/ Sleep(c, p)
    BY Zenon, <2>3, YieldInv, SleepInv
  <2>4. ASSUME NEW arg \in KillArgs, Kill(c, p, arg) PROVE IInv'
    BY Zenon, <2>4, KillInv
  <2>5. ASSUME NEW arg \in 1 .. MaxPid, NEW prio \in PrioArgs, PrioSet(c, p, arg, prio) PROVE IInv'
    BY Zenon, <2>5, PrioSetInv
  <2> QED BY Zenon, <1>2, <2>1, <2>2, <2>3, <2>4, <2>5 DEF Program
<1>3. CASE Wakeup
  BY Zenon, <1>3, WakeupInv
<1>4. CASE UNCHANGED vars
  <2>1. UNCHANGED <<state, parent, chan, cur, ctlVars>>
    BY Zenon, <1>4 DEF vars, tableVars, cpuVars
  <2>2. Others' /\ RingInv'
    BY <1>4 DEF IInv, Others, RingInv, vars, tableVars, cpuVars, prioVars
  <2> QED BY Zenon, <2>1, <2>2, QuietInv
<1> QED BY Zenon, <1>1, <1>2, <1>3, <1>4 DEF Next

\* Every state of the process table satisfies the invariant.
THEOREM ProcessInductive == ASSUME RingForEach PROVE Spec => []IInv
<1>1. IInv /\ [Next]_vars => IInv'
  BY Zenon, NextIInv
<1> QED BY <1>1, InitIInv, PTL DEF Spec

\* No process runs on two CPUs, and one is RUNNING exactly while a CPU runs it, whatever
\* stale and duplicate entries wakeup1 and kill leave in the rings (proc.c:393, 420).
THEOREM ProcessRunsOnce == ASSUME RingForEach PROVE Spec => []RunsOnce
<1>1. IInv => RunsOnce
  BY DEF IInv
<1> QED BY <1>1, ProcessInductive, PTL

\* The parent of every process and of every zombie is alive, and none sleeps in wait while
\* a child of it is a zombie (proc.c:311, 317, 366).
THEOREM ProcessAwaited == ASSUME RingForEach PROVE Spec => []ChildrenAwaited
<1>1. IInv => ChildrenAwaited
  <2> SUFFICES ASSUME IInv PROVE ChildrenAwaited
    OBVIOUS
  <2>1. \A i \in Prios : /\ queue[i].head \in 0 .. QUEUESIZE - 1
                         /\ queue[i].entries \in Seq(Slots) /\ Len(queue[i].entries) < QUEUESIZE
    BY DEF IInv, RingInv, Ring
  <2>2. fp_priority \in [Slots -> 0 .. PRIO_MAX] /\ hfs_priority \in [Slots -> 0 .. PRIO_MAX]
    BY ProcessAssumption DEF IInv, RingInv, Prios
  <2>3. TypeOK
    BY Zenon, <2>1, <2>2 DEF IInv, Tables, Others, States, TypeOK
  <2> QED BY <2>3 DEF IInv, Family, ChildrenAwaited
<1> QED BY <1>1, ProcessInductive, PTL
=============================================================================
