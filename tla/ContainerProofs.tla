--------------------------- MODULE ContainerProofs --------------------------
(***************************************************************************)
(* A new container has a namespace of its own, for any process table, any  *)
(* file system to start from, any paths and any number of system calls.    *)
(***************************************************************************)
EXTENDS Container, FiniteSetTheorems, WellFoundedInduction, TLAPS

Fields == {"state", "parent", "cwd", "ofile", "in_newroot", "newroot", "in_container", "namespace"}

\* A slot that is not used is in no namespace that do_ce gives out: it does not
\* look at those slots.
NamespaceInv ==
  /\ DOMAIN proc = Procs /\ \A q \in Procs : DOMAIN proc[q] = Fields
  /\ namespace_id \in Nat \ {0}
  /\ \A q \in Procs : proc[q].state = "UNUSED" => proc[q].namespace = 0

\* The process that was outside a container and is in one is alone there.
EntersAlone(p) ==
  proc[p].state = "RUNNING" /\ ~proc[p].in_container /\ proc'[p].in_container =>
    \A q \in Procs \ {p} : proc'[q].namespace # proc'[p].namespace

Fresh == \A p \in Procs : EntersAlone(p)
-----------------------------------------------------------------------------
(* do_ce finds a namespace *)

LEMMA MinMember ==
  ASSUME NEW T \in SUBSET Nat, T # {}
  PROVE  Min(T) \in T
<1>1. PICK n \in T : \A m \in T : ~(<<m, n>> \in OpToRel(<, Nat))
  BY Zenon, NatLessThanWellFounded, WFMin
<1>2. \A m \in T : m < n => <<m, n>> \in OpToRel(<, Nat)
  BY DEF OpToRel
<1>3. \A m \in T : ~(m < n)
  BY Zenon, <1>1, <1>2
<1>4. \A m \in T : n =< m
  BY <1>3
<1> QED BY Zenon, <1>4 DEF Min

\* Each namespace that is taken needs a process of its own, so that one more
\* candidate than there are slots is enough.
LEMMA NamespaceLeft ==
  ASSUME NEW a \in Nat
  PROVE  \E m \in a .. a + Cardinality(Procs) : m \notin Taken
<1> DEFINE S == a .. a + Cardinality(Procs)
<1>1. IsFiniteSet(Procs) /\ Cardinality(Procs) \in Nat
  BY Zenon, InodeAssumption, FS_CardinalityType
<1>2. IsFiniteSet(S) /\ Cardinality(Procs) < Cardinality(S)
  <2> DEFINE b == a + Cardinality(Procs)
  <2>1. a \in Int /\ b \in Int /\ ~(a > b) /\ Cardinality(Procs) < b - a + 1
    BY <1>1
  <2> HIDE DEF b
  <2>2. IsFiniteSet(a .. b) /\ Cardinality(a .. b) = b - a + 1
    BY <2>1, FS_Interval
  <2> QED BY Zenon, <2>1, <2>2 DEF b
<1>3. SUFFICES ASSUME \A m \in S : m \in Taken PROVE FALSE
  BY Zenon
<1> HIDE DEF S
<1> DEFINE of(m) == CHOOSE q \in Procs : proc[q].namespace = m
           f     == [m \in S |-> of(m)]
<1>4. \A m \in S : of(m) \in Procs /\ proc[of(m)].namespace = m
  BY <1>3 DEF Taken
<1>5. f \in [S -> Procs]
  BY Zenon, <1>4
<1>6. \A x \in S : proc[f[x]].namespace = x
  BY Zenon, <1>4
<1> HIDE DEF f
<1>7. \E x, y \in S : x # y /\ f[x] = f[y]
  BY Zenon, <1>1, <1>2, <1>5, FS_PigeonHole
<1> QED BY Zenon, <1>6, <1>7

\* cm_create_and_enter puts the process, and nobody else, in that namespace.
LEMMA DoCeAlone ==
  ASSUME NamespaceInv, NEW p \in Procs, DoCe(p)
  PROVE  NamespaceInv' /\ Fresh
<1> DEFINE C == {m \in namespace_id .. namespace_id + Cardinality(Procs) : m \notin Taken}
           n == Min(C)
<1>1. Cardinality(Procs) \in Nat
  BY Zenon, InodeAssumption, FS_CardinalityType
<1>2. C # {} /\ C \in SUBSET (Nat \ {0})
  <2>1. namespace_id \in Nat \ {0}
    BY DEF NamespaceInv
  <2>2. \E m \in namespace_id .. namespace_id + Cardinality(Procs) : m \notin Taken
    BY Zenon, <2>1, NamespaceLeft
  <2>3. \A m \in namespace_id .. namespace_id + Cardinality(Procs) : m \in Nat \ {0}
    BY <1>1, <2>1
  <2> QED BY Zenon, <2>2, <2>3
<1>3. n \in C
  <2>1. C \in SUBSET Nat
    BY Zenon, <1>2
  <2> HIDE DEF C
  <2> QED BY Zenon, <1>2, <2>1, MinMember
<1>4. n \in Nat \ {0} /\ n \notin Taken
  BY Zenon, <1>2, <1>3
<1>5. /\ proc' = [proc EXCEPT ![p].in_container = TRUE, ![p].namespace = n] /\ namespace_id' = n + 1
      /\ proc[p].state = "RUNNING"
  BY Zenon DEF DoCe, Enter
<1> HIDE DEF n, C
<1>6. /\ DOMAIN proc' = Procs /\ \A q \in Procs : DOMAIN proc'[q] = Fields
      /\ proc'[p].state = "RUNNING" /\ proc'[p].namespace = n
      /\ \A q \in Procs \ {p} : proc'[q] = proc[q]
  BY <1>5 DEF NamespaceInv, Fields
<1>7. NamespaceInv'
  <2>1. namespace_id' \in Nat \ {0}
    BY <1>4, <1>5
  <2>2. \A q \in Procs : proc'[q].state = "UNUSED" => proc'[q].namespace = 0
    BY Zenon, <1>6 DEF NamespaceInv
  <2> QED BY Zenon, <1>6, <2>1, <2>2 DEF NamespaceInv
<1>8. \A q \in Procs \ {p} : proc'[q].namespace # n
  <2>1. ASSUME NEW q \in Procs \ {p} PROVE proc[q].namespace # n
    <3>1. CASE proc[q].state = "UNUSED"
      BY <1>4, <3>1 DEF NamespaceInv
    <3>2. CASE proc[q].state # "UNUSED"
      BY Zenon, <1>4, <3>2 DEF Taken
    <3> QED BY Zenon, <3>1, <3>2
  <2> QED BY Zenon, <1>6, <2>1
<1>9. Fresh
  BY Zenon, <1>6, <1>8 DEF Fresh, EntersAlone
<1> QED BY Zenon, <1>7, <1>9

-----------------------------------------------------------------------------
(* The other steps *)

\* What the namespaces depend on stays as it is for process q.
Stays(q) ==
  /\ DOMAIN proc'[q] = Fields
  /\ proc'[q].state = proc[q].state /\ proc'[q].namespace = proc[q].namespace
  /\ proc'[q].in_container = proc[q].in_container

Quiet == DOMAIN proc' = Procs /\ namespace_id' = namespace_id /\ \A q \in Procs : Stays(q)

LEMMA QuietKeeps ==
  ASSUME NamespaceInv, Quiet
  PROVE  NamespaceInv' /\ Fresh
BY Zenon DEF NamespaceInv, Quiet, Stays, Fresh, EntersAlone

\* The changes that a system call makes to its own process.
OwnFiles(p) ==
  \/ proc' = proc
  \/ \E fd, f : proc' = [proc EXCEPT ![p].ofile[fd] = f]
  \/ \E i : proc' = [proc EXCEPT ![p].cwd = i]
  \/ \E i : proc' = [proc EXCEPT ![p].newroot = i, ![p].in_newroot = TRUE]

LEMMA OwnFilesQuiet ==
  ASSUME NamespaceInv, NEW p \in Procs, OwnFiles(p), namespace_id' = namespace_id
  PROVE  Quiet
<1>1. CASE proc' = proc
  BY Zenon, <1>1 DEF NamespaceInv, Quiet, Stays
<1>2. ASSUME NEW fd, NEW f, proc' = [proc EXCEPT ![p].ofile[fd] = f] PROVE Quiet
  BY <1>2 DEF NamespaceInv, Quiet, Stays, Fields
<1>3. ASSUME NEW i, proc' = [proc EXCEPT ![p].cwd = i] PROVE Quiet
  BY <1>3 DEF NamespaceInv, Quiet, Stays, Fields
<1>4. ASSUME NEW i, proc' = [proc EXCEPT ![p].newroot = i, ![p].in_newroot = TRUE] PROVE Quiet
  BY <1>4 DEF NamespaceInv, Quiet, Stays, Fields
<1> QED BY Zenon, <1>1, <1>2, <1>3, <1>4 DEF OwnFiles

LEMMA FileSysOwn ==
  ASSUME NEW p \in Procs, FileSysCalls(p) \/ FileSysSteps(p)
  PROVE  OwnFiles(p)
<1>1. CASE FileSysCalls(p)
  BY Zenon, <1>1 DEF FileSysCalls, SysOpen, SysCreate, SysMkdir, SysMknod, SysLink, SysUnlink, SysClose, SysChdir,
                     Begin, OwnFiles
<1>2. ASSUME NEW c, NEW i, OpenFile(p, c, i) PROVE OwnFiles(p)
  BY Zenon, <1>2 DEF OpenFile, OwnFiles
<1>3. ASSUME NEW c, Panic(c) PROVE OwnFiles(p)
  BY Zenon, <1>3 DEF Panic, OwnFiles
<1>4. CASE Open(p)
  BY Zenon, <1>2, <1>3, <1>4 DEF Open, OwnFiles
<1>5. CASE Create(p)
  BY Zenon, <1>3, <1>5 DEF Create, OwnFiles
<1>6. CASE CreateOld(p)
  BY Zenon, <1>2, <1>3, <1>6 DEF CreateOld, OwnFiles
<1>7. CASE CreateNew(p)
  BY Zenon, <1>7 DEF CreateNew, OwnFiles
<1>8. CASE Created(p)
  BY Zenon, <1>2, <1>8 DEF Created, OwnFiles
<1>9. CASE Link(p)
  BY Zenon, <1>3, <1>9 DEF Link, OwnFiles
<1>10. CASE Link2(p)
  BY Zenon, <1>3, <1>10 DEF Link2, OwnFiles
<1>11. CASE LinkTaken(p) \/ Linked(p) \/ LinkBad(p)
  BY Zenon, <1>11 DEF LinkTaken, Linked, LinkBad, OwnFiles
<1>12. CASE Unlink(p) \/ UnlinkBad(p) \/ Unlinked(p)
  BY Zenon, <1>12 DEF Unlink, UnlinkBad, Unlinked, OwnFiles
<1>13. CASE Unlink2(p)
  BY Zenon, <1>3, <1>13 DEF Unlink2, OwnFiles
<1>14. CASE Chdir(p)
  BY Zenon, <1>3, <1>14 DEF Chdir, OwnFiles
<1>15. CASE InodeNext(p)
  <2>1. CASE Iput(p)
    BY Zenon, <2>1 DEF Iput, IputLinked, IputUnlinked, Iput2, OwnFiles
  <2>2. CASE Walk(p)
    BY Zenon, <1>3, <2>2 DEF Walk, OwnFiles
  <2> QED BY Zenon, <1>15, <2>1, <2>2 DEF InodeNext
<1> QED BY Zenon, <1>1, <1>4, <1>5, <1>6, <1>7, <1>8, <1>9, <1>10, <1>11, <1>12, <1>13, <1>14, <1>15 DEF FileSysSteps

LEMMA ContainerOwn ==
  ASSUME NEW p \in Procs,
         ForkFails(p) \/ Exit(p) \/ SysSetroot(p) \/ SysTestNewroot(p) \/ ExitClose(p) \/ Setroot(p) \/ TestNewroot(p)
  PROVE  OwnFiles(p) /\ namespace_id' = namespace_id
<1>1. CASE ForkFails(p) \/ Exit(p) \/ SysSetroot(p) \/ SysTestNewroot(p) \/ TestNewroot(p)
  BY Zenon, <1>1 DEF ForkFails, Exit, SysSetroot, SysTestNewroot, TestNewroot, Begin, OwnFiles
<1>2. CASE ExitClose(p)
  BY Zenon, <1>2 DEF ExitClose, OwnFiles
<1>3. CASE Setroot(p)
  BY Zenon, <1>3 DEF Setroot, Panic, OwnFiles
<1> QED BY Zenon, <1>1, <1>2, <1>3

\* The child is in the container of its parent, in a slot that was not used.
LEMMA ForkFresh ==
  ASSUME NamespaceInv, NEW p \in Procs, Fork(p)
  PROVE  NamespaceInv' /\ Fresh
<1>1. PICK q \in Procs : /\ proc[p].state = "RUNNING" /\ proc[q].state = "UNUSED"
                         /\ proc' = [proc EXCEPT ![q] = [proc[p] EXCEPT !.parent = p]]
                         /\ namespace_id' = namespace_id
  BY Zenon DEF Fork, Enter
<1>2. /\ DOMAIN proc' = Procs /\ \A r \in Procs \ {q} : proc'[r] = proc[r]
      /\ DOMAIN proc'[q] = Fields /\ proc'[q].state = "RUNNING"
  BY <1>1 DEF NamespaceInv, Fields
<1>3. "RUNNING" # "UNUSED"
  OBVIOUS
<1> QED BY Zenon, <1>1, <1>2, <1>3 DEF NamespaceInv, Fresh, EntersAlone

\* exit keeps the namespace of the process until wait empties the slot.
LEMMA ZombieFresh ==
  ASSUME NamespaceInv, NEW p \in Procs, Zombie(p)
  PROVE  NamespaceInv' /\ Fresh
<1>1. namespace_id' = namespace_id
  BY Zenon DEF Zombie
<1>2. /\ DOMAIN proc' = Procs
      /\ \A q \in Procs : /\ DOMAIN proc'[q] = Fields
                          /\ proc'[q].namespace = proc[q].namespace
                          /\ proc'[q].in_container = proc[q].in_container
                          /\ proc'[q].state = IF q = p THEN "ZOMBIE" ELSE proc[q].state
  <2>1. DOMAIN proc' = Procs
    BY Zenon DEF Zombie
  <2>2. ASSUME NEW q \in Procs
        PROVE  \/ q = p /\ proc'[q] = [proc[q] EXCEPT !.state = "ZOMBIE", !.newroot = 0]
               \/ q # p /\ proc'[q] = [proc[q] EXCEPT !.parent = Nobody]
               \/ q # p /\ proc'[q] = proc[q]
    BY Zenon DEF Zombie
  <2>3. \A q \in Procs : DOMAIN proc[q] = Fields
    BY Zenon DEF NamespaceInv
  <2> QED BY Zenon, <2>1, <2>2, <2>3 DEF Fields
<1>3. "ZOMBIE" # "UNUSED"
  OBVIOUS
<1> QED BY Zenon, <1>1, <1>2, <1>3 DEF NamespaceInv, Fresh, EntersAlone

LEMMA WaitFresh ==
  ASSUME NamespaceInv, NEW p \in Procs, Wait(p)
  PROVE  NamespaceInv' /\ Fresh
<1>1. PICK q \in Procs : proc' = [proc EXCEPT ![q] = NoProc] /\ namespace_id' = namespace_id
  BY Zenon DEF Wait
<1>2. /\ DOMAIN proc' = Procs /\ \A r \in Procs \ {q} : proc'[r] = proc[r]
      /\ DOMAIN proc'[q] = Fields /\ proc'[q].namespace = 0 /\ proc'[q].in_container = FALSE
  BY <1>1 DEF NamespaceInv, Fields, NoProc
<1> QED BY Zenon, <1>1, <1>2 DEF NamespaceInv, Fresh, EntersAlone
-----------------------------------------------------------------------------
LEMMA NamespaceStep ==
  ASSUME NamespaceInv, [Next]_vars
  PROVE  NamespaceInv' /\ (Fresh \/ UNCHANGED vars)
<1>1. CASE UNCHANGED vars
  <2>1. proc' = proc /\ namespace_id' = namespace_id
    BY Zenon, <1>1 DEF vars, fsVars
  <2> QED BY Zenon, <1>1, <2>1 DEF NamespaceInv
<1>2. ASSUME NEW p \in Procs, (FileSysCalls(p) \/ FileSysSteps(p)) /\ namespace_id' = namespace_id
      PROVE  NamespaceInv' /\ Fresh
  BY Zenon, <1>2, FileSysOwn, OwnFilesQuiet, QuietKeeps
<1>3. ASSUME NEW p \in Procs, Calls(p) PROVE NamespaceInv' /\ Fresh
  BY Zenon, <1>2, <1>3, ContainerOwn, OwnFilesQuiet, QuietKeeps, ForkFresh, DoCeAlone DEF Calls
<1>4. ASSUME NEW p \in Procs, Steps(p) PROVE NamespaceInv' /\ Fresh
  BY Zenon, <1>2, <1>4, ContainerOwn, OwnFilesQuiet, QuietKeeps, ZombieFresh, WaitFresh DEF Steps
<1> QED BY Zenon, <1>1, <1>3, <1>4 DEF Next

\* Whoever creates a container is alone in its namespace: do_ce always finds a namespace
\* that no used slot is in, whatever forks, exits and waits happened before, and nobody is
\* put in a container in any other way than by its parent's fork (proc.c).
THEOREM ContainerNamespaceFresh == Spec => NamespaceFresh
<1>1. Init => NamespaceInv
  <2> SUFFICES ASSUME Init PROVE NamespaceInv
    OBVIOUS
  <2>1. PICK s \in Starts : proc = [p \in Procs |-> [NoProc EXCEPT !.state = "RUNNING", !.cwd = s.cwd[p],
                     !.ofile = [fd \in Fd |-> IF fd \in DOMAIN s.open THEN fd ELSE 0]]]
    BY Zenon DEF Init
  <2>2. namespace_id = 1
    BY Zenon DEF Init
  <2>3. DOMAIN proc = Procs
    BY Zenon, <2>1
  <2>4. ASSUME NEW q \in Procs
        PROVE  DOMAIN proc[q] = Fields /\ proc[q].namespace = 0
    BY Zenon, <2>1 DEF NoProc, Fields
  <2>5. namespace_id \in Nat \ {0}
    BY <2>2
  <2> QED BY Zenon, <2>3, <2>4, <2>5 DEF NamespaceInv
<1>2. NamespaceInv /\ [Next]_vars => NamespaceInv'
  BY Zenon, NamespaceStep
<1>3. NamespaceInv /\ [Next]_vars =>
        [\A p \in Procs : proc[p].state = "RUNNING" /\ ~proc[p].in_container /\ proc'[p].in_container =>
           \A q \in Procs \ {p} : proc'[q].namespace # proc'[p].namespace]_vars
  BY Zenon, NamespaceStep DEF Fresh, EntersAlone
<1> QED BY <1>1, <1>2, <1>3, PTL DEF Spec, NamespaceFresh
=============================================================================
