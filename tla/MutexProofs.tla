---------------------------- MODULE MutexProofs ----------------------------
(***************************************************************************)
(* Theorems about Mutex, for any number of processes and mutexes: the      *)
(* lock, the wait sequences of cv_wait, and proc_mutexes, the record of    *)
(* what the clean-up after a fault has to unlock.                          *)
(***************************************************************************)
EXTENDS Mutex, WellFoundedInduction, TLAPS

-----------------------------------------------------------------------------
(* Induction on the natural numbers, for a set in place of a predicate *)

\* A set of natural numbers that is not empty has a least element.
LEMMA LeastElement ==
  ASSUME NEW T \in SUBSET Nat, T # {}
  PROVE  \E n \in T : \A m \in T : n <= m
<1>1. PICK n \in T : \A m \in T : ~(<<m, n>> \in OpToRel(<, Nat))
  BY Zenon, NatLessThanWellFounded, WFMin
<1>2. \A m \in T : m < n => <<m, n>> \in OpToRel(<, Nat)
  BY DEF OpToRel
<1>3. \A m \in T : ~(m < n)
  BY Zenon, <1>1, <1>2, Zenon
<1>4. \A m \in T : n <= m
  BY <1>3
<1> QED BY <1>4

\* A set with 0 that has the successor of each of its elements has every
\* natural number.
LEMMA NatSetInduction ==
  ASSUME NEW S \in SUBSET Nat, 0 \in S, \A n \in Nat : n \in S => n + 1 \in S
  PROVE  \A n \in Nat : n \in S
<1>1. SUFFICES ASSUME Nat \ S # {} PROVE FALSE
  OBVIOUS
<1>2. PICK n \in Nat \ S : \A m \in Nat \ S : n <= m
  BY Zenon, <1>1, LeastElement
<1>3. n # 0 /\ n - 1 \in Nat /\ n - 1 \in S
  BY <1>2
<1> QED BY <1>2, <1>3
-----------------------------------------------------------------------------
(* wseq_remove *)

\* The inner loop keeps waiters of the sequence only, and adds none.
LEMMA RemoveAtType ==
  ASSUME NEW P, NEW v \in Seq(P), NEW i \in 0 .. Len(v) - 1
  PROVE  RemoveAt(v, i) \in Seq(P) /\ Len(RemoveAt(v, i)) <= Len(v)
<1> DEFINE moved == (Len(v) - i) \div 2
<1>1. moved \in 0 .. Len(v) /\ 2 * moved <= Len(v)
  OBVIOUS
<1> HIDE DEF moved
<1> DEFINE r == [j \in 1 .. Len(v) - moved |-> IF j <= moved THEN v[j + 1] ELSE v[j]]
<1>2. RemoveAt(v, i) = r
  BY DEF RemoveAt, moved
<1>3. Len(v) - moved \in Nat /\ Len(v) - moved <= Len(v)
  BY <1>1
<1>4. \A j \in 1 .. Len(v) - moved : r[j] \in P
  BY <1>1
<1>5. r \in Seq(P) /\ Len(r) = Len(v) - moved
  BY <1>3, <1>4
<1> QED BY <1>2, <1>3, <1>5

\* A round of the outer loop, which runs the inner one if it finds the pid, keeps
\* waiters of the sequence only, and adds none.
LEMMA RoundType ==
  ASSUME NEW P, NEW v \in Seq(P), NEW i \in Nat \ {0}, NEW p
  PROVE  Round(v, i, p) \in Seq(P) /\ Len(Round(v, i, p)) <= Len(v)
<1>1. CASE i <= Len(v) /\ v[i] = p
  <2>1. i - 1 \in 0 .. Len(v) - 1
    BY <1>1
  <2> QED BY <1>1, <2>1, RemoveAtType DEF Round
<1>2. CASE ~(i <= Len(v) /\ v[i] = p)
  BY <1>2 DEF Round
<1> QED BY <1>1, <1>2

\* The function by which the outer loop is written exists: rounds 1 .. n of it
\* extend rounds 1 .. n - 1.
LEMMA ScanExists ==
  ASSUME NEW w, NEW p
  PROVE  \A n \in Nat : \E f : f = [i \in 0 .. n |-> IF i = 0 THEN w ELSE Round(f[i - 1], i, p)]
<1> DEFINE Good(f, n) == f = [i \in 0 .. n |-> IF i = 0 THEN w ELSE Round(f[i - 1], i, p)]
           S == {n \in Nat : \E f : Good(f, n)}
<1>1. 0 \in S
  <2>1. Good([i \in 0 .. 0 |-> w], 0)
    OBVIOUS
  <2> QED BY Zenon, <2>1
<1>2. ASSUME NEW n \in Nat, n \in S PROVE n + 1 \in S
  <2>1. PICK f : Good(f, n)
    BY <1>2
  <2> DEFINE g == [i \in 0 .. n + 1 |-> IF i = n + 1 THEN Round(f[n], n + 1, p) ELSE f[i]]
  <2>2. ASSUME NEW i \in 0 .. n + 1
        PROVE  g[i] = IF i = 0 THEN w ELSE Round(g[i - 1], i, p)
    <3>1. CASE i = n + 1
      BY <3>1
    <3>2. CASE i \in 0 .. n
      <4>1. i # n + 1 /\ (i # 0 => i - 1 \in 0 .. n + 1 /\ i - 1 # n + 1)
        BY <3>2
      <4>2. g[i] = f[i] /\ (i # 0 => g[i - 1] = f[i - 1])
        BY <4>1
      <4>3. f[i] = IF i = 0 THEN w ELSE Round(f[i - 1], i, p)
        BY <2>1, <3>2
      <4> QED BY <4>2, <4>3
    <3> QED BY <3>1, <3>2
  <2> HIDE DEF g
  <2>3. Good(g, n + 1)
    BY <2>2 DEF g
  <2> QED BY <2>3
<1>3. \A n \in Nat : n \in S
  BY Zenon, <1>1, <1>2, NatSetInduction
<1> QED BY Zenon, <1>3

\* wseq_remove leaves a wait sequence of the same processes that is no longer
\* than the one it was given, however many rounds find the pid.
THEOREM WseqRemoveType ==
  ASSUME NEW P, NEW w \in Seq(P), NEW p
  PROVE  WseqRemove(w, p) \in Seq(P) /\ Len(WseqRemove(w, p)) <= Len(w)
<1> DEFINE scan == CHOOSE f : f = [i \in 0 .. Len(w) |-> IF i = 0 THEN w ELSE Round(f[i - 1], i, p)]
           S == {n \in Nat : n <= Len(w) => scan[n] \in Seq(P) /\ Len(scan[n]) <= Len(w)}
<1>1. Len(w) \in Nat
  OBVIOUS
<1>2. scan = [i \in 0 .. Len(w) |-> IF i = 0 THEN w ELSE Round(scan[i - 1], i, p)]
  BY <1>1, ScanExists
<1>3. WseqRemove(w, p) = scan[Len(w)]
  BY DEF WseqRemove
<1> HIDE DEF scan
<1>4. 0 \in S
  BY <1>1, <1>2
<1>5. ASSUME NEW n \in Nat, n \in S PROVE n + 1 \in S
  <2>1. SUFFICES ASSUME n + 1 <= Len(w)
                 PROVE  scan[n + 1] \in Seq(P) /\ Len(scan[n + 1]) <= Len(w)
    OBVIOUS
  <2>2. scan[n] \in Seq(P) /\ Len(scan[n]) <= Len(w)
    BY <1>5, <2>1, <1>1
  <2>3. scan[n + 1] = Round(scan[n], n + 1, p)
    BY <1>1, <1>2, <2>1
  <2>4. Len(scan[n]) \in Nat /\ n + 1 \in Nat \ {0}
    BY <2>2
  <2>5. Round(scan[n], n + 1, p) \in Seq(P) /\ Len(Round(scan[n], n + 1, p)) <= Len(scan[n])
    BY <2>2, <2>4, RoundType
  <2>6. Len(Round(scan[n], n + 1, p)) \in Nat
    BY <2>5
  <2> QED BY <1>1, <2>2, <2>3, <2>4, <2>5, <2>6
<1>6. \A n \in Nat : n \in S
  BY Zenon, <1>4, <1>5, NatSetInduction
<1> QED BY <1>1, <1>3, <1>6
-----------------------------------------------------------------------------
(* Facts about the helpers *)

\* The muxids are the naturals below MUX_MAXNUM; -1, the mark of a free slot of
\* proc_mutexes, is none of them, and a loop index that has not reached the end
\* is one.
LEMMA MuxFacts ==
  /\ MUX_MAXNUM \in Nat \ {0} /\ \A p \in Procs : Namespace[p] \in Nat
  /\ 0 \in Mux /\ -1 \notin Mux /\ Mux \subseteq Nat
  /\ \A m \in Mux : m < MUX_MAXNUM
  /\ \A n \in 0 .. MUX_MAXNUM : n # MUX_MAXNUM => n \in Mux
BY MutexAssumption DEF Mux

\* The search of mutex_lock and mutex_unlock in proc_mutexes leaves it an array
\* of muxids and -1.
LEMMA ReplaceFirstType ==
  ASSUME NEW s \in [Mux -> Mux \cup {-1}], NEW v, NEW w \in Mux \cup {-1}
  PROVE  ReplaceFirst(s, v, w) \in [Mux -> Mux \cup {-1}]
BY DEF ReplaceFirst

\* Control stays at a label of the code, with a muxid of the table.
LEMMA GotoType ==
  ASSUME TypeOK, NEW p \in Procs, NEW label \in Labels, NEW m \in Mux, Goto(p, label, m)
  PROVE  pc' \in [Procs -> Labels] /\ arg' \in [Procs -> Mux] /\ slot' \in [Procs -> 0 .. MUX_MAXNUM]
BY DEF TypeOK, Goto

\* So does the return from a system call, to user mode or to exit.
LEMMA ReturnType ==
  ASSUME TypeOK, NEW p \in Procs, Return(p)
  PROVE  pc' \in [Procs -> Labels] /\ arg' \in [Procs -> Mux] /\ slot' \in [Procs -> 0 .. MUX_MAXNUM]
<1>1. \A l \in Labels : Goto(p, l, 0) =>
        pc' \in [Procs -> Labels] /\ arg' \in [Procs -> Mux] /\ slot' \in [Procs -> 0 .. MUX_MAXNUM]
  BY GotoType, MuxFacts
<1>2. (IF killed[p] THEN "exiting" ELSE "user") \in Labels
  BY DEF Labels
<1> QED BY <1>1, <1>2 DEF Return

\* Taking a mutex, in mutex_lock and cv_wait, keeps the types of what it sets.
LEMMA TakeType ==
  ASSUME TypeOK, NEW p \in Procs, NEW m \in Mux, Take(p, m)
  PROVE  /\ locked' \in [Mux -> BOOLEAN] /\ pid' \in [Mux -> Procs \cup {None}]
         /\ procMutexes' \in [Procs -> [Mux -> Mux \cup {-1}]]
         /\ owns' \in [Procs -> SUBSET Mux]
<1>1. ReplaceFirst(procMutexes[p], -1, m) \in [Mux -> Mux \cup {-1}]
  BY Zenon, ReplaceFirstType DEF TypeOK
<1> QED BY Zenon, <1>1 DEF TypeOK, Take

\* Giving a mutex up, in mutex_unlock, keeps the types of what it sets.
LEMMA DropType ==
  ASSUME TypeOK, NEW p \in Procs, NEW m \in Mux, Drop(p, m)
  PROVE  /\ locked' \in [Mux -> BOOLEAN] /\ pid' \in [Mux -> Procs \cup {None}]
         /\ procMutexes' \in [Procs -> [Mux -> Mux \cup {-1}]]
         /\ owns' \in [Procs -> SUBSET Mux]
<1>1. ReplaceFirst(procMutexes[p], m, -1) \in [Mux -> Mux \cup {-1}]
  BY ZenonT(60), ReplaceFirstType DEF TypeOK
<1> QED BY Zenon, <1>1 DEF TypeOK, Drop

\* Control leaves the clean-up after a fault with the loop index in range.
SlotOK == \A p \in Procs : pc[p] \in {"fault_wake", "fault_wseq"} => slot[p] < MUX_MAXNUM

\* A wait sequence of processes that fits its array may replace another.
LEMMA WaitersType ==
  ASSUME TypeOK, NEW m \in Mux, NEW w \in Seq(Procs), Len(w) <= MUX_MAXNUM,
         waiters' = [waiters EXCEPT ![m] = w]
  PROVE  waiters' \in [Mux -> Seq(Procs)] /\ \A k \in Mux : Len(waiters'[k]) <= MUX_MAXNUM
BY DEF TypeOK

\* The loop index of the clean-up after a fault may advance while it is in range.
LEMMA SlotType ==
  ASSUME TypeOK, NEW p \in Procs, slot[p] < MUX_MAXNUM, slot' = [slot EXCEPT ![p] = @ + 1]
  PROVE  slot' \in [Procs -> 0 .. MUX_MAXNUM]
<1>1. slot[p] \in 0 .. MUX_MAXNUM /\ MUX_MAXNUM \in Nat
  BY MuxFacts DEF TypeOK
<1>2. slot[p] + 1 \in 0 .. MUX_MAXNUM
  BY <1>1
<1> QED BY <1>2 DEF TypeOK

-----------------------------------------------------------------------------
(* Types *)

\* Every step of the calls, of the clean-up and of the panics keeps the types.
LEMMA TypeStep == TypeOK /\ SlotOK /\ [Next]_vars => TypeOK'
<1> SUFFICES ASSUME TypeOK, SlotOK, [Next]_vars PROVE TypeOK'
  OBVIOUS
<1> USE MuxFacts
<1>0. CASE UNCHANGED vars
  BY Zenon, <1>0 DEF TypeOK, vars, muxVars, spinVars, procVars, ctlVars
<1>1. ASSUME NEW p \in Procs, CreateNamespace(p) PROVE TypeOK'
  BY Zenon, <1>1, ReturnType DEF TypeOK, CreateNamespace, muxVars, spinVars, procVars, ctlVars, At
<1>2. ASSUME NEW p \in Procs, DeleteWaiters(p) PROVE TypeOK'
  <2>1. "del_clear" \in Labels /\ arg[p] \in Mux
    BY DEF Labels, TypeOK
  <2>2. pc' \in [Procs -> Labels] /\ arg' \in [Procs -> Mux] /\ slot' \in [Procs -> 0 .. MUX_MAXNUM]
    BY Zenon, <1>2, <2>1, GotoType, ReturnType DEF DeleteWaiters
  <2> QED BY Zenon, <1>2, <2>2 DEF TypeOK, DeleteWaiters, muxVars, spinVars, procVars, ctlVars
<1>3. ASSUME NEW p \in Procs, DeleteClear(p) PROVE TypeOK'
  BY Zenon, <1>3, ReturnType DEF TypeOK, DeleteClear, muxVars, spinVars, procVars, ctlVars, At
<1>4. ASSUME NEW p \in Procs, LockTake(p) PROVE TypeOK'
  BY Zenon, <1>4, ReturnType, TakeType DEF TypeOK, LockTake, muxVars, spinVars, procVars, ctlVars, At
<1>5. ASSUME NEW p \in Procs, LockBusy(p) PROVE TypeOK'
  <2>1. "lock_sleep" \in Labels /\ arg[p] \in Mux
    BY DEF Labels, TypeOK
  <2>2. pc' \in [Procs -> Labels] /\ arg' \in [Procs -> Mux] /\ slot' \in [Procs -> 0 .. MUX_MAXNUM]
    BY Zenon, <1>5, <2>1, GotoType DEF LockBusy
  <2> QED BY Zenon, <1>5, <2>2 DEF TypeOK, LockBusy, muxVars, spinVars, procVars, ctlVars, At
<1>6. ASSUME NEW p \in Procs, LockSleep(p) PROVE TypeOK'
  <2>1. "lock_slept" \in Labels /\ arg[p] \in Mux
    BY DEF Labels, TypeOK
  <2>2. pc' \in [Procs -> Labels] /\ arg' \in [Procs -> Mux] /\ slot' \in [Procs -> 0 .. MUX_MAXNUM]
    BY Zenon, <1>6, <2>1, GotoType DEF LockSleep
  <2> QED BY Zenon, <1>6, <2>2 DEF TypeOK, LockSleep, muxVars, spinVars, procVars, ctlVars, At
<1>7. ASSUME NEW p \in Procs, LockResume(p) PROVE TypeOK'
  <2>1. "lock_acq" \in Labels /\ arg[p] \in Mux
    BY DEF Labels, TypeOK
  <2>2. pc' \in [Procs -> Labels] /\ arg' \in [Procs -> Mux] /\ slot' \in [Procs -> 0 .. MUX_MAXNUM]
    BY Zenon, <1>7, <2>1, GotoType DEF LockResume
  <2> QED BY Zenon, <1>7, <2>2 DEF TypeOK, LockResume, muxVars, spinVars, procVars, ctlVars, At
<1>8. ASSUME NEW p \in Procs, UnlockWakeup(p) PROVE TypeOK'
  BY Zenon, <1>8, ReturnType DEF TypeOK, UnlockWakeup, muxVars, spinVars, procVars, ctlVars, At, Wakeup
<1>9. ASSUME NEW p \in Procs, CvWaitRefuse(p) PROVE TypeOK'
  BY Zenon, <1>9, ReturnType DEF TypeOK, CvWaitRefuse, muxVars, spinVars, procVars, ctlVars, At
<1>10. ASSUME NEW p \in Procs, CvWaitFull(p) PROVE TypeOK'
  BY Zenon, <1>10, ReturnType DEF TypeOK, CvWaitFull, muxVars, spinVars, procVars, ctlVars, At
<1>11. ASSUME NEW p \in Procs, CvWaitSleep(p) PROVE TypeOK'
  <2>1. "cvw_slept" \in Labels /\ arg[p] \in Mux
    BY DEF Labels, TypeOK
  <2>2. pc' \in [Procs -> Labels] /\ arg' \in [Procs -> Mux] /\ slot' \in [Procs -> 0 .. MUX_MAXNUM]
    BY Zenon, <1>11, <2>1, GotoType DEF CvWaitSleep
  <2> DEFINE w == Append(waiters[arg[p]], p)
  <2>3. waiters[arg[p]] \in Seq(Procs) /\ Len(waiters[arg[p]]) <= MUX_MAXNUM
    BY Zenon, <2>1 DEF TypeOK
  <2>4. Len(waiters[arg[p]]) # MUX_MAXNUM
    BY <1>11 DEF CvWaitSleep, Full
  <2>5. w \in Seq(Procs) /\ Len(w) <= MUX_MAXNUM
    BY <2>3, <2>4
  <2> HIDE DEF w
  <2>6. waiters' = [waiters EXCEPT ![arg[p]] = w]
    BY <1>11 DEF CvWaitSleep, w
  <2>7. waiters' \in [Mux -> Seq(Procs)] /\ \A k \in Mux : Len(waiters'[k]) <= MUX_MAXNUM
    BY Zenon, <2>1, <2>5, <2>6, WaitersType
  <2> QED BY Zenon, <1>11, <2>2, <2>7 DEF TypeOK, CvWaitSleep, muxVars, spinVars, procVars, ctlVars
<1>12. ASSUME NEW p \in Procs, CvWaitResume(p) PROVE TypeOK'
  <2>1. "cvw_relock" \in Labels /\ arg[p] \in Mux
    BY DEF Labels, TypeOK
  <2>2. pc' \in [Procs -> Labels] /\ arg' \in [Procs -> Mux] /\ slot' \in [Procs -> 0 .. MUX_MAXNUM]
    BY Zenon, <1>12, <2>1, GotoType DEF CvWaitResume
  <2> QED BY Zenon, <1>12, <2>2 DEF TypeOK, CvWaitResume, muxVars, spinVars, procVars, ctlVars, At
<1>13. ASSUME NEW p \in Procs, CvWaitRelock(p) PROVE TypeOK'
  BY Zenon, <1>13, ReturnType, TakeType DEF TypeOK, CvWaitRelock, muxVars, spinVars, procVars, ctlVars, At
<1>14. ASSUME NEW p \in Procs, FaultSkip(p) PROVE TypeOK'
  BY Zenon, <1>14, SlotType DEF TypeOK, FaultSkip, muxVars, spinVars, procVars, ctlVars, Labels, At
<1>15. ASSUME NEW p \in Procs, FaultUnlock(p) PROVE TypeOK'
  <2> DEFINE m == procMutexes[p][slot[p]]
  <2>1. m \in Mux /\ "fault_wake" \in Labels
    BY <1>15 DEF FaultUnlock, TypeOK, Labels
  <2>2. pc' \in [Procs -> Labels] /\ arg' \in [Procs -> Mux] /\ slot' \in [Procs -> 0 .. MUX_MAXNUM]
    BY Zenon, <1>15, <2>1, GotoType DEF FaultUnlock
  <2>3. /\ locked' \in [Mux -> BOOLEAN] /\ pid' \in [Mux -> Procs \cup {None}]
        /\ procMutexes' \in [Procs -> [Mux -> Mux \cup {-1}]]
        /\ owns' \in [Procs -> SUBSET Mux]
    BY Zenon, <1>15, <2>1, DropType DEF FaultUnlock
  <2> QED BY Zenon, <1>15, <2>2, <2>3 DEF TypeOK, FaultUnlock, muxVars, spinVars, procVars, ctlVars
<1>16. ASSUME NEW p \in Procs, FaultRefused(p) PROVE TypeOK'
  <2> DEFINE m == procMutexes[p][slot[p]]
  <2>1. m \in Mux /\ "fault_wseq" \in Labels
    BY <1>16 DEF FaultRefused, TypeOK, Labels
  <2>2. pc' \in [Procs -> Labels] /\ arg' \in [Procs -> Mux] /\ slot' \in [Procs -> 0 .. MUX_MAXNUM]
    BY Zenon, <1>16, <2>1, GotoType DEF FaultRefused
  <2> QED BY Zenon, <1>16, <2>2 DEF TypeOK, FaultRefused, muxVars, spinVars, procVars, ctlVars
<1>17. ASSUME NEW p \in Procs, FaultWakeup(p) PROVE TypeOK'
  <2>1. "fault_wseq" \in Labels /\ arg[p] \in Mux
    BY DEF Labels, TypeOK
  <2>2. pc' \in [Procs -> Labels] /\ arg' \in [Procs -> Mux] /\ slot' \in [Procs -> 0 .. MUX_MAXNUM]
    BY SMTT(60), <1>17, <2>1, GotoType DEF FaultWakeup
  <2> QED BY Zenon, <1>17, <2>2 DEF TypeOK, FaultWakeup, muxVars, spinVars, procVars, ctlVars, At, Wakeup
<1>18. ASSUME NEW p \in Procs, FaultWseq(p) PROVE TypeOK'
  <2>1. slot[p] \in Mux
    BY <1>18 DEF FaultWseq, At, TypeOK, SlotOK
  <2> DEFINE w == WseqRemove(waiters[slot[p]], p)
  <2>2. waiters[slot[p]] \in Seq(Procs) /\ Len(waiters[slot[p]]) <= MUX_MAXNUM
    BY <2>1 DEF TypeOK
  <2>3. w \in Seq(Procs) /\ Len(w) <= Len(waiters[slot[p]])
    BY <2>2, WseqRemoveType
  <2>4. Len(w) \in Nat /\ Len(waiters[slot[p]]) \in Nat /\ MUX_MAXNUM \in Nat
    BY <2>2, <2>3, MutexAssumption
  <2>5. Len(w) <= MUX_MAXNUM
    BY <2>2, <2>3, <2>4
  <2> HIDE DEF w
  <2>6. waiters' = [waiters EXCEPT ![slot[p]] = w]
    BY <1>18 DEF FaultWseq, w
  <2>7. waiters' \in [Mux -> Seq(Procs)] /\ \A m \in Mux : Len(waiters'[m]) <= MUX_MAXNUM
    BY Zenon, <2>1, <2>3, <2>5, <2>6, WaitersType
  <2>8. slot' \in [Procs -> 0 .. MUX_MAXNUM] /\ pc' \in [Procs -> Labels] /\ arg' \in [Procs -> Mux]
    BY Zenon, <1>18, <2>1, SlotType DEF FaultWseq, TypeOK, Labels
  <2> QED BY Zenon, <1>18, <2>7, <2>8 DEF TypeOK, FaultWseq, muxVars, spinVars, procVars, ctlVars
<1>19. ASSUME NEW p \in Procs, FaultExit(p) PROVE TypeOK'
  BY <1>19 DEF TypeOK, FaultExit, muxVars, spinVars, procVars, ctlVars, Labels, At, Die
<1>20. ASSUME NEW p \in Procs, SchedPanic(p) PROVE TypeOK'
  BY Zenon, <1>20 DEF TypeOK, SchedPanic, muxVars, spinVars, procVars, ctlVars, Labels
<1>21. ASSUME NEW p \in Procs, ReleasePanic(p) PROVE TypeOK'
  BY Zenon, <1>21 DEF TypeOK, ReleasePanic, muxVars, spinVars, procVars, ctlVars, Labels
<1>22. ASSUME NEW p \in Procs, MutexInit(p) PROVE TypeOK'
  BY SMTT(60), <1>22 DEF TypeOK, MutexInit, muxVars, spinVars, procVars, ctlVars, Labels
<1>23. ASSUME NEW p \in Procs, MutexCreate(p) PROVE TypeOK'
  <2>1. PICK m \in Mux : used' = [used EXCEPT ![m] = TRUE] /\ Goto(p, "create_ns", m)
    BY Zenon, <1>23 DEF MutexCreate
  <2>2. pc' \in [Procs -> Labels] /\ arg' \in [Procs -> Mux] /\ slot' \in [Procs -> 0 .. MUX_MAXNUM]
    BY <2>1, GotoType DEF Labels
  <2> QED BY Zenon, <1>23, <2>1, <2>2 DEF TypeOK, MutexCreate, muxVars, spinVars, procVars, ctlVars
<1>24. ASSUME NEW p \in Procs, Exec(p) PROVE TypeOK'
  BY ZenonT(60), <1>24 DEF TypeOK, Exec, muxVars, spinVars, procVars, ctlVars, Labels
<1>25. ASSUME NEW p \in Procs, Exit(p) PROVE TypeOK'
  BY SMTT(60), <1>25 DEF TypeOK, Exit, muxVars, spinVars, procVars, ctlVars, Labels, Die
<1>26. ASSUME NEW p \in Procs, Fault(p) PROVE TypeOK'
  BY Zenon, <1>26 DEF TypeOK, Fault, muxVars, spinVars, procVars, ctlVars, Labels
<1>27. ASSUME NEW p \in Procs, NEW m \in MuxArgs, MutexDelete(p, m) PROVE TypeOK'
  <2>1. m \in Mux /\ "del_waiters" \in Labels
    BY <1>27 DEF MutexDelete, EnterMux, Labels
  <2>2. pc' \in [Procs -> Labels] /\ arg' \in [Procs -> Mux] /\ slot' \in [Procs -> 0 .. MUX_MAXNUM]
    BY Zenon, <1>27, <2>1, GotoType DEF MutexDelete
  <2> QED BY Zenon, <1>27, <2>2 DEF TypeOK, MutexDelete, muxVars, spinVars, procVars, ctlVars
<1>28. ASSUME NEW p \in Procs, NEW m \in MuxArgs, MutexLock(p, m) PROVE TypeOK'
  <2>1. m \in Mux /\ "lock_acq" \in Labels
    BY <1>28 DEF MutexLock, EnterMux, Labels
  <2>2. pc' \in [Procs -> Labels] /\ arg' \in [Procs -> Mux] /\ slot' \in [Procs -> 0 .. MUX_MAXNUM]
    BY Zenon, <1>28, <2>1, GotoType DEF MutexLock
  <2> QED BY Zenon, <1>28, <2>2 DEF TypeOK, MutexLock, muxVars, spinVars, procVars, ctlVars
<1>29. ASSUME NEW p \in Procs, NEW m \in MuxArgs, MutexUnlock(p, m) PROVE TypeOK'
  <2>1. m \in Mux /\ "unlock_wake" \in Labels
    BY <1>29 DEF MutexUnlock, EnterMux, Labels
  <2>2. pc' \in [Procs -> Labels] /\ arg' \in [Procs -> Mux] /\ slot' \in [Procs -> 0 .. MUX_MAXNUM]
    BY Zenon, <1>29, <2>1, GotoType DEF MutexUnlock
  <2>3. /\ locked' \in [Mux -> BOOLEAN] /\ pid' \in [Mux -> Procs \cup {None}]
        /\ procMutexes' \in [Procs -> [Mux -> Mux \cup {-1}]]
        /\ owns' \in [Procs -> SUBSET Mux]
    BY Zenon, <1>29, <2>1, DropType DEF MutexUnlock
  <2> QED BY Zenon, <1>29, <2>2, <2>3 DEF TypeOK, MutexUnlock, muxVars, spinVars, procVars, ctlVars
<1>30. ASSUME NEW p \in Procs, NEW m \in MuxArgs, CvWait(p, m) PROVE TypeOK'
  <2>1. m \in Mux /\ "cvw_pt" \in Labels
    BY <1>30 DEF CvWait, EnterMux, Labels
  <2>2. pc' \in [Procs -> Labels] /\ arg' \in [Procs -> Mux] /\ slot' \in [Procs -> 0 .. MUX_MAXNUM]
    BY Zenon, <1>30, <2>1, GotoType DEF CvWait
  <2> QED BY Zenon, <1>30, <2>2 DEF TypeOK, CvWait, muxVars, spinVars, procVars, ctlVars
<1>31. ASSUME NEW p \in Procs, NEW m \in MuxArgs, CvSignal(p, m) PROVE TypeOK'
  <2>1. m \in Mux /\ waiters[m] \in Seq(Procs) /\ waiters[m] # << >>
    BY <1>31 DEF CvSignal, EnterMux, TypeOK
  <2>2. /\ Tail(waiters[m]) \in Seq(Procs) /\ Len(Tail(waiters[m])) = Len(waiters[m]) - 1
        /\ Head(waiters[m]) \in Procs
    BY <2>1
  <2>3. Len(Tail(waiters[m])) <= MUX_MAXNUM
    BY <2>1, <2>2 DEF TypeOK
  <2>4. waiters' \in [Mux -> Seq(Procs)] /\ \A k \in Mux : Len(waiters'[k]) <= MUX_MAXNUM
    BY ZenonT(60), <1>31, <2>1, <2>2, <2>3, WaitersType DEF CvSignal
  <2>5. state' \in [Procs -> {"RUNNING", "RUNNABLE", "SLEEPING", "ZOMBIE"}]
    BY Zenon, <1>31, <2>2 DEF CvSignal, TypeOK, Rouse
  <2> QED BY Zenon, <1>31, <2>5, <2>4 DEF TypeOK, CvSignal, muxVars, spinVars, procVars, ctlVars
<1>32. ASSUME NEW p \in Procs, NEW m \in MuxArgs, OutOfBounds(p, m) PROVE TypeOK'
  BY Zenon, <1>32 DEF TypeOK, OutOfBounds, muxVars, spinVars, procVars, ctlVars
<1>33. ASSUME NEW p \in Procs, NEW q \in Procs, Kill(p, q) PROVE TypeOK'
  BY Zenon, <1>33 DEF TypeOK, Kill, Rouse, muxVars, spinVars, procVars, ctlVars
<1> QED BY Zenon, <1>0, <1>1, <1>2, <1>3, <1>4, <1>5, <1>6, <1>7, <1>8, <1>9, <1>10, <1>11, <1>12,
         <1>13, <1>14, <1>15, <1>16, <1>17, <1>18, <1>19, <1>20, <1>21, <1>22, <1>23,
         <1>24, <1>25, <1>26, <1>27, <1>28, <1>29, <1>30, <1>31, <1>32, <1>33 DEF Next, KernelStep, UserStep

\* The loop index of the clean-up stays in range.
LEMMA SlotStep == TypeOK /\ SlotOK /\ [Next]_vars => SlotOK'
<1> SUFFICES ASSUME TypeOK, SlotOK, [Next]_vars PROVE SlotOK'
  OBVIOUS
<1> USE DEF TypeOK, SlotOK, At, Goto, Return
<1>0. CASE UNCHANGED vars
  BY <1>0 DEF vars, ctlVars
<1>1. ASSUME NEW p \in Procs, FaultSkip(p) \/ FaultUnlock(p) \/ FaultRefused(p)
      PROVE  SlotOK'
  BY Zenon, <1>1 DEF FaultSkip, FaultUnlock, FaultRefused
<1>2. ASSUME NEW p \in Procs, FaultWakeup(p) \/ FaultWseq(p) \/ FaultExit(p) \/ Exit(p) \/ Fault(p)
      PROVE  SlotOK'
  BY <1>2 DEF FaultWakeup, FaultWseq, FaultExit, Exit, Fault, Die
<1>3. ASSUME NEW p \in Procs,
             CreateNamespace(p) \/ DeleteWaiters(p) \/ DeleteClear(p) \/ UnlockWakeup(p)
      PROVE  SlotOK'
  BY Zenon, <1>3 DEF CreateNamespace, DeleteWaiters, DeleteClear, UnlockWakeup
<1>4. ASSUME NEW p \in Procs, LockTake(p) \/ LockBusy(p) \/ LockSleep(p) \/ LockResume(p)
      PROVE  SlotOK'
  BY Zenon, <1>4 DEF LockTake, LockBusy, LockSleep, LockResume
<1>5. ASSUME NEW p \in Procs, CvWaitRefuse(p) \/ CvWaitFull(p) \/ CvWaitSleep(p)
                                \/ CvWaitResume(p) \/ CvWaitRelock(p)
      PROVE  SlotOK'
  BY SMTT(60), <1>5 DEF CvWaitRefuse, CvWaitFull, CvWaitSleep, CvWaitResume, CvWaitRelock
<1>6. ASSUME NEW p \in Procs, SchedPanic(p) \/ ReleasePanic(p) \/ MutexInit(p) \/ MutexCreate(p) \/ Exec(p)
      PROVE  SlotOK'
  BY Zenon, <1>6 DEF SchedPanic, ReleasePanic, MutexInit, MutexCreate, Exec, ctlVars
<1>7. ASSUME NEW p \in Procs, NEW m \in MuxArgs,
             \/ MutexDelete(p, m) \/ MutexLock(p, m) \/ MutexUnlock(p, m)
             \/ CvWait(p, m) \/ CvSignal(p, m) \/ OutOfBounds(p, m)
      PROVE  SlotOK'
  BY <1>7 DEF MutexDelete, MutexLock, MutexUnlock, CvWait, CvSignal, OutOfBounds, ctlVars
<1>8. ASSUME NEW p \in Procs, NEW q \in Procs, Kill(p, q) PROVE SlotOK'
  BY <1>8 DEF Kill, ctlVars
<1> QED BY Zenon, <1>0, <1>1, <1>2, <1>3, <1>4, <1>5, <1>6, <1>7, <1>8, Zenon DEF Next, KernelStep, UserStep

\* The types, and the bound on the loop index that they rest on.
LEMMA TypeAndSlot == Spec => [](TypeOK /\ SlotOK)
<1>1. Init => TypeOK /\ SlotOK
  BY MutexAssumption, MuxFacts DEF Init, TypeOK, SlotOK, Labels
<1>2. TypeOK /\ SlotOK /\ [Next]_vars => (TypeOK /\ SlotOK)'
  BY TypeStep, SlotStep
<1> QED BY <1>1, <1>2, PTL DEF Spec


\* In every reachable state the table, the locks and the processes have their
\* types: no wait sequence outgrows the array, and the loop of the clean-up
\* stays inside proc_mutexes.
THEOREM TypeCorrect == Spec => []TypeOK
BY TypeAndSlot, PTL
-----------------------------------------------------------------------------
(* Mutual exclusion and wakeups. The programs neither call cv_wait, which takes
   a mutex whether or not it is locked, nor reset the table, and delete
   mutexes only on a machine with one CPU. *)

SafeCalls ==
  /\ "cv_wait" \notin Calls /\ "mutex_init" \notin Calls
  /\ Smp => "delete" \notin Calls

\* A process that holds a mutex is the one recorded in it.
OwnerRecorded == \A p \in Procs : \A m \in owns[p] : locked[m] /\ pid[m] = p

\* A process in mutex_delete keeps everyone else off the CPU, and the mutex is free.
InDelete(p) == pc[p] \in {"del_waiters", "del_clear"}

DeletesFree ==
  \A p \in Procs : InDelete(p) => ~Smp /\ tableLock = p /\ ~locked[arg[p]]

\* Between its test of locked and its sleep a process has mutex->lock, so that
\* nobody unlocks the mutex.
SleepsLocked ==
  \A p \in Procs : pc[p] = "lock_sleep" => muxLock[arg[p]] = p /\ locked[arg[p]]

NotInCv == \A p \in Procs : pc[p] \notin {"cvw_pt", "cvw_slept", "cvw_relock"}

SafeInv == OwnerRecorded /\ DeletesFree /\ SleepsLocked /\ NotInCv /\ NoLostWakeup

\* While a process deletes, no other process takes a step.
LEMMA DeletesAlone ==
  ASSUME TypeOK, DeletesFree, NEW p \in Procs, MayRun(p), NEW q \in Procs, InDelete(q)
  PROVE  q = p
BY DEF DeletesFree, MayRun, HoldsSpin

\* Where a step may lead without a claim of SafeInv about the place.
Plain == {"user", "create_ns", "lock_acq", "fault", "fault_wseq", "exiting", "dead"}

Waking == {"unlock_wake", "fault_wake"}

\* A step of p that leaves the mutexes alone and puts nobody to sleep.
LEMMA QuietStep ==
  ASSUME TypeOK, SafeInv, NEW p \in Procs, MayRun(p), pc[p] \notin Waking,
         UNCHANGED <<locked, pid, owns, muxLock>>,
         \A q \in Procs : state'[q] = "SLEEPING" => state[q] = "SLEEPING",
         NEW l \in Plain, NEW m \in Mux,
         pc' = [pc EXCEPT ![p] = l], arg' = [arg EXCEPT ![p] = m]
  PROVE  SafeInv'
<1> USE DEF SafeInv
<1>1. OwnerRecorded'
  BY SMTT(60) DEF OwnerRecorded
<1>2. DeletesFree'
  BY Zenon, DeletesAlone DEF TypeOK, DeletesFree, InDelete, Plain
<1>3. SleepsLocked' /\ NotInCv'
  BY SMTT(60) DEF TypeOK, SleepsLocked, NotInCv, Plain
<1>4. NoLostWakeup'
  <2> SUFFICES ASSUME NEW q \in Procs, Blocked(q)', ~locked'[arg'[q]]
               PROVE  \E r \in Procs : pc'[r] \in Waking /\ arg'[r] = arg'[q]
    BY DEF NoLostWakeup, Waking
  <2>1. q # p /\ Blocked(q) /\ arg'[q] = arg[q] /\ ~locked[arg[q]]
    BY DEF TypeOK, Blocked, At, Plain
  <2>2. PICK r \in Procs : pc[r] \in Waking /\ arg[r] = arg[q]
    BY <2>1 DEF NoLostWakeup, Waking
  <2> QED BY Zenon, <2>1, <2>2 DEF TypeOK, Waking
<1> QED BY SMTT(60), <1>1, <1>2, <1>3, <1>4

\* A step of p that calls wakeup on the mutex it has given up.
LEMMA WakeStep ==
  ASSUME TypeOK, SafeInv, NEW p \in Procs, MayRun(p), pc[p] \in Waking,
         UNCHANGED <<locked, pid, owns, muxLock, tableLock>>, Wakeup(arg[p]),
         NEW l \in Plain, NEW m \in Mux,
         pc' = [pc EXCEPT ![p] = l], arg' = [arg EXCEPT ![p] = m]
  PROVE  SafeInv'
<1> USE DEF SafeInv
<1>1. OwnerRecorded'
  BY DEF OwnerRecorded
<1>2. DeletesFree' /\ SleepsLocked' /\ NotInCv'
  BY DEF TypeOK, DeletesFree, InDelete, SleepsLocked, NotInCv, Plain
<1>3. NoLostWakeup'
  <2> SUFFICES ASSUME NEW q \in Procs, Blocked(q)', ~locked'[arg'[q]]
               PROVE  \E r \in Procs : pc'[r] \in Waking /\ arg'[r] = arg'[q]
    BY DEF NoLostWakeup, Waking
  <2>1. q # p /\ At(q, "lock_slept") /\ arg'[q] = arg[q] /\ ~locked[arg[q]]
    BY DEF TypeOK, Blocked, At, Plain
  <2>2. state[q] = "SLEEPING" /\ arg[q] # arg[p]
    BY Zenon, <2>1 DEF Wakeup, SleepsOn, Blocked, At
  <2>3. PICK r \in Procs : pc[r] \in Waking /\ arg[r] = arg[q]
    BY <2>1, <2>2 DEF NoLostWakeup, Waking, Blocked
  <2> QED BY <2>1, <2>2, <2>3 DEF TypeOK, Waking
<1> QED BY Zenon, <1>1, <1>2, <1>3

\* A step of p that gives a mutex up, with the wakeup still to come.
LEMMA DropStep ==
  ASSUME TypeOK, SafeInv, NEW p \in Procs, MayRun(p), pc[p] \in Plain,
         NEW m \in Mux, muxLock[m] = None, Owned(p, m), Drop(p, m),
         UNCHANGED <<muxLock, tableLock, state>>, NEW l \in Waking,
         pc' = [pc EXCEPT ![p] = l], arg' = [arg EXCEPT ![p] = m]
  PROVE  SafeInv'
<1> USE DEF SafeInv
<1>1. OwnerRecorded'
  BY DEF TypeOK, OwnerRecorded, Drop, Owned
<1>2. DeletesFree'
  BY DEF TypeOK, DeletesFree, InDelete, Waking, Drop
<1>3. SleepsLocked'
  BY SMTT(60), MutexAssumption DEF TypeOK, SleepsLocked, Waking, Drop
<1>4. NotInCv'
  BY DEF TypeOK, NotInCv, Waking
<1>5. NoLostWakeup'
  <2> SUFFICES ASSUME NEW q \in Procs, Blocked(q)', ~locked'[arg'[q]]
               PROVE  \E r \in Procs : pc'[r] \in Waking /\ arg'[r] = arg'[q]
    BY DEF NoLostWakeup, Waking
  <2>1. q # p /\ Blocked(q) /\ arg'[q] = arg[q]
    BY DEF TypeOK, Blocked, At, Waking
  <2>2. CASE arg[q] = m
    BY Zenon, <2>1, <2>2 DEF TypeOK
  <2>3. CASE arg[q] # m
    <3>1. ~locked[arg[q]]
      BY Zenon, <2>1, <2>3 DEF TypeOK, Drop
    <3>2. PICK r \in Procs : pc[r] \in Waking /\ arg[r] = arg[q]
      BY Zenon, <2>1, <3>1 DEF NoLostWakeup, Waking
    <3>3. r # p
      BY <3>2 DEF Plain, Waking
    <3> QED BY SMTT(60), <2>1, <3>2, <3>3 DEF TypeOK
  <2> QED BY Zenon, <2>2, <2>3
<1> QED BY Zenon, <1>1, <1>2, <1>3, <1>4, <1>5

\* A step of p that takes a free mutex.
LEMMA TakeStep ==
  ASSUME TypeOK, SafeInv, NEW p \in Procs, MayRun(p), pc[p] \in Plain,
         NEW m \in Mux, ~locked[m], Take(p, m),
         UNCHANGED <<muxLock, tableLock, state>>, NEW l \in Plain,
         pc' = [pc EXCEPT ![p] = l], arg' = [arg EXCEPT ![p] = 0]
  PROVE  SafeInv'
<1> USE DEF SafeInv
<1>1. OwnerRecorded'
  BY DEF TypeOK, OwnerRecorded, Take
<1>2. DeletesFree'
  <2>1. ~InDelete(p)
    BY DEF InDelete, Plain
  <2>2. \A q \in Procs : ~InDelete(q)
    BY SMTT(60), <2>1, DeletesAlone
  <2> QED BY <2>2 DEF TypeOK, DeletesFree, InDelete, Plain
<1>3. SleepsLocked' /\ NotInCv'
  BY Zenon DEF TypeOK, SleepsLocked, NotInCv, Plain, Take
<1>4. NoLostWakeup'
  <2> SUFFICES ASSUME NEW q \in Procs, Blocked(q)', ~locked'[arg'[q]]
               PROVE  \E r \in Procs : pc'[r] \in Waking /\ arg'[r] = arg'[q]
    BY DEF NoLostWakeup, Waking
  <2>1. q # p /\ Blocked(q) /\ arg'[q] = arg[q]
    BY Zenon DEF TypeOK, Blocked, At, Plain
  <2>2. ~locked[arg[q]]
    BY <2>1 DEF TypeOK, Take
  <2>3. PICK r \in Procs : pc[r] \in Waking /\ arg[r] = arg[q]
    BY <2>1, <2>2 DEF NoLostWakeup, Waking
  <2>4. r # p
    BY <2>3 DEF Plain, Waking
  <2> QED BY <2>1, <2>3, <2>4 DEF TypeOK
<1> QED BY Zenon, <1>1, <1>2, <1>3, <1>4

\* A step of p that ends it.
LEMMA DieStep ==
  ASSUME TypeOK, SafeInv, NEW p \in Procs, MayRun(p), pc[p] \in Plain, Die(p),
         UNCHANGED <<locked, pid, muxLock, tableLock>>
  PROVE  SafeInv'
<1> USE DEF SafeInv
<1>1. OwnerRecorded'
  BY Zenon DEF TypeOK, OwnerRecorded, Die
<1>2. DeletesFree' /\ SleepsLocked' /\ NotInCv'
  BY ZenonT(60) DEF TypeOK, DeletesFree, InDelete, SleepsLocked, NotInCv, Die
<1>3. NoLostWakeup'
  <2> SUFFICES ASSUME NEW q \in Procs, Blocked(q)', ~locked'[arg'[q]]
               PROVE  \E r \in Procs : pc'[r] \in Waking /\ arg'[r] = arg'[q]
    BY DEF NoLostWakeup, Waking
  <2>1. q # p /\ Blocked(q) /\ arg'[q] = arg[q] /\ ~locked[arg[q]]
    BY Zenon DEF TypeOK, Blocked, At, Die
  <2>2. PICK r \in Procs : pc[r] \in Waking /\ arg[r] = arg[q]
    BY <2>1 DEF NoLostWakeup, Waking
  <2>3. r # p
    BY <2>2 DEF Plain, Waking
  <2> QED BY Zenon, <2>1, <2>2, <2>3 DEF TypeOK, Die
<1> QED BY Zenon, <1>1, <1>2, <1>3

\* Every step that programs with SafeCalls cause keeps the inductive invariant.
LEMMA SafeStep ==
  ASSUME SafeCalls, TypeOK, SafeInv, [Next]_vars
  PROVE  SafeInv'
<1>0. CASE UNCHANGED vars
  BY SMTT(60), <1>0 DEF SafeInv, vars, muxVars, spinVars, procVars, ctlVars, Blocked, InDelete, At,
              OwnerRecorded, DeletesFree, SleepsLocked, NotInCv, NoLostWakeup
<1>1. ASSUME NEW p \in Procs, MayRun(p), CreateNamespace(p) PROVE SafeInv'
  <2>1. (IF killed[p] THEN "exiting" ELSE "user") \in Plain
    BY DEF Plain
  <2> QED BY ZenonT(60), <1>1, <2>1, QuietStep, MuxFacts DEF CreateNamespace, At, Return, Goto, procVars, Waking
<1>2. ASSUME NEW p \in Procs, MayRun(p), DeleteWaiters(p), waiters[arg[p]] = << >> PROVE SafeInv'
  <2>1. pc' = [pc EXCEPT ![p] = "del_clear"] /\ arg' = arg
    BY Zenon, <1>2 DEF DeleteWaiters, Goto, TypeOK
  <2>2. At(p, "del_waiters") /\ UNCHANGED <<locked, pid, owns, muxLock, tableLock, state>>
    BY Zenon, <1>2 DEF DeleteWaiters, muxVars, spinVars, procVars
  <2>3. OwnerRecorded' /\ DeletesFree' /\ SleepsLocked' /\ NotInCv'
    BY SMTT(60), <2>1, <2>2 DEF SafeInv, TypeOK, At, InDelete, OwnerRecorded, DeletesFree, SleepsLocked, NotInCv
  <2>4. NoLostWakeup'
    BY Zenon, <2>1, <2>2 DEF SafeInv, TypeOK, At, Blocked, NoLostWakeup
  <2> QED BY Zenon, <2>3, <2>4 DEF SafeInv
<1>3. ASSUME NEW p \in Procs, MayRun(p), DeleteWaiters(p), waiters[arg[p]] # << >> PROVE SafeInv'
  <2>1. (IF killed[p] THEN "exiting" ELSE "user") \in Plain
    BY DEF Plain
  <2> QED BY <1>3, <2>1, QuietStep, MuxFacts DEF DeleteWaiters, At, Return, Goto, muxVars, spinVars, procVars, Waking
<1>4. ASSUME NEW p \in Procs, MayRun(p), DeleteClear(p) PROVE SafeInv'
  <2>1. ~locked[arg[p]]
    BY Zenon, <1>4 DEF DeleteClear, At, InDelete, SafeInv, DeletesFree
  <2>2. locked' = locked
    BY <1>4, <2>1 DEF DeleteClear, TypeOK
  <2>3. (IF killed[p] THEN "exiting" ELSE "user") \in Plain
    BY DEF Plain
  <2> QED BY ZenonT(60), <1>4, <2>2, <2>3, QuietStep, MuxFacts DEF DeleteClear, At, Return, Goto, procVars, Waking
<1>5. ASSUME NEW p \in Procs, MayRun(p), LockTake(p) PROVE SafeInv'
  <2>1. (IF killed[p] THEN "exiting" ELSE "user") \in Plain
    BY DEF Plain
  <2>2. arg[p] \in Mux /\ pc[p] \in Plain
    BY <1>5 DEF LockTake, At, TypeOK, Plain
  <2> QED BY ZenonT(60), <1>5, <2>1, <2>2, TakeStep DEF LockTake, Return, Goto, spinVars
<1>6. ASSUME NEW p \in Procs, MayRun(p), LockBusy(p) PROVE SafeInv'
  <2>1. At(p, "lock_acq") /\ locked[arg[p]] /\ arg[p] \in Mux /\ muxLock[arg[p]] = None
    BY <1>6 DEF LockBusy, TypeOK
  <2>2. /\ pc' = [pc EXCEPT ![p] = "lock_sleep"] /\ arg' = arg
        /\ muxLock' = [muxLock EXCEPT ![arg[p]] = p]
        /\ UNCHANGED <<locked, pid, owns, tableLock, state>>
    BY Zenon, <1>6 DEF LockBusy, Goto, TypeOK, muxVars, procVars
  <2>3. OwnerRecorded' /\ DeletesFree' /\ NotInCv'
    BY Zenon, <2>1, <2>2 DEF SafeInv, TypeOK, At, InDelete, OwnerRecorded, DeletesFree, NotInCv
  <2>4. SleepsLocked'
    BY SMTT(60), <2>1, <2>2, MutexAssumption DEF SafeInv, TypeOK, At, SleepsLocked
  <2>5. NoLostWakeup'
    BY ZenonT(60), <2>1, <2>2 DEF SafeInv, TypeOK, At, Blocked, NoLostWakeup
  <2> QED BY Zenon, <2>3, <2>4, <2>5 DEF SafeInv
<1>7. ASSUME NEW p \in Procs, MayRun(p), LockSleep(p) PROVE SafeInv'
  <2>1. At(p, "lock_sleep") /\ locked[arg[p]] /\ arg[p] \in Mux
    BY SMTT(60), <1>7 DEF LockSleep, TypeOK, SafeInv, SleepsLocked, At
  <2>2. /\ pc' = [pc EXCEPT ![p] = "lock_slept"] /\ arg' = arg
        /\ muxLock' = [muxLock EXCEPT ![arg[p]] = None]
        /\ state' = [state EXCEPT ![p] = "SLEEPING"]
        /\ UNCHANGED <<locked, pid, owns, tableLock>>
    BY Zenon, <1>7 DEF LockSleep, Goto, TypeOK, muxVars
  <2>3. OwnerRecorded' /\ DeletesFree' /\ NotInCv'
    BY Zenon, <2>1, <2>2 DEF SafeInv, TypeOK, At, InDelete, OwnerRecorded, DeletesFree, NotInCv
  <2>4. SleepsLocked'
    BY SMTT(60), <2>1, <2>2, MutexAssumption DEF SafeInv, TypeOK, At, SleepsLocked
  <2>5. NoLostWakeup'
    BY <2>1, <2>2 DEF SafeInv, TypeOK, At, Blocked, NoLostWakeup
  <2> QED BY <2>3, <2>4, <2>5 DEF SafeInv
<1>8. ASSUME NEW p \in Procs, MayRun(p), LockResume(p) PROVE SafeInv'
  <2>1. \A q \in Procs : state'[q] = "SLEEPING" => state[q] = "SLEEPING"
    BY <1>8 DEF TypeOK, LockResume
  <2>2. "lock_acq" \in Plain /\ arg[p] \in Mux
    BY DEF Plain, TypeOK
  <2> QED BY ZenonT(60), <1>8, <2>1, <2>2, QuietStep DEF LockResume, At, Goto, muxVars, spinVars, Waking
<1>9. ASSUME NEW p \in Procs, MayRun(p), UnlockWakeup(p) PROVE SafeInv'
  <2>1. (IF killed[p] THEN "exiting" ELSE "user") \in Plain
    BY DEF Plain
  <2> QED BY ZenonT(60), <1>9, <2>1, WakeStep, MuxFacts DEF UnlockWakeup, At, Return, Goto, muxVars, spinVars, Waking
<1>10. ASSUME NEW p \in Procs, MayRun(p), FaultSkip(p) PROVE SafeInv'
  <2>1. pc' = pc /\ arg' = arg /\ UNCHANGED <<locked, pid, owns, muxLock, tableLock, state>>
    BY Zenon, <1>10 DEF FaultSkip, muxVars, spinVars, procVars
  <2> QED BY <2>1 DEF SafeInv, At, Blocked, InDelete,
                      OwnerRecorded, DeletesFree, SleepsLocked, NotInCv, NoLostWakeup
<1>11. ASSUME NEW p \in Procs, MayRun(p), FaultUnlock(p) PROVE SafeInv'
  <2>1. procMutexes[p][slot[p]] \in Mux /\ "fault_wake" \in Waking /\ pc[p] \in Plain
    BY SMTT(60), <1>11, MuxFacts DEF FaultUnlock, At, TypeOK, Waking, Plain
  <2> QED BY ZenonT(60), <1>11, <2>1, DropStep DEF FaultUnlock, Goto, spinVars
<1>12. ASSUME NEW p \in Procs, MayRun(p), FaultRefused(p) PROVE SafeInv'
  <2>1. procMutexes[p][slot[p]] \in Mux /\ "fault_wseq" \in Plain
    BY <1>12, MuxFacts DEF FaultRefused, TypeOK, Plain
  <2> QED BY ZenonT(60), <1>12, <2>1, QuietStep DEF FaultRefused, At, Goto, muxVars, spinVars, procVars, Waking
<1>13. ASSUME NEW p \in Procs, MayRun(p), FaultWakeup(p) PROVE SafeInv'
  <2>1. "fault_wseq" \in Plain /\ arg[p] \in Mux
    BY DEF Plain, TypeOK
  <2> QED BY Zenon, <1>13, <2>1, WakeStep DEF FaultWakeup, At, Goto, muxVars, spinVars, Waking
<1>14. ASSUME NEW p \in Procs, MayRun(p), FaultWseq(p) PROVE SafeInv'
  <2>1. "fault" \in Plain
    BY DEF Plain
  <2> QED BY Zenon, <1>14, <2>1, QuietStep, MuxFacts DEF FaultWseq, At, spinVars, procVars, Waking
<1>15. ASSUME NEW p \in Procs, MayRun(p), FaultExit(p) \/ Exit(p) PROVE SafeInv'
  <2>1. pc[p] \in Plain /\ Die(p) /\ UNCHANGED <<locked, pid, muxLock, tableLock>>
    BY SMTT(60), <1>15 DEF FaultExit, Exit, Enter, At, Plain, muxVars, spinVars
  <2> QED BY Zenon, <1>15, <2>1, DieStep
<1>16. ASSUME NEW p \in Procs, MayRun(p), CvWaitRefuse(p) \/ CvWaitFull(p) \/ CvWaitSleep(p) \/ CvWaitResume(p) \/ CvWaitRelock(p) PROVE SafeInv'
  BY ZenonT(60), <1>16 DEF CvWaitRefuse, CvWaitFull, CvWaitSleep, CvWaitResume, CvWaitRelock, At, SafeInv, NotInCv
<1>17. ASSUME NEW p \in Procs, MayRun(p), SchedPanic(p) \/ ReleasePanic(p) \/ Exec(p) PROVE SafeInv'
  <2>1. pc' = pc /\ arg' = arg /\ UNCHANGED <<locked, pid, owns, muxLock, tableLock, state>>
    BY Zenon, <1>17 DEF SchedPanic, ReleasePanic, Exec, muxVars, spinVars, procVars, ctlVars
  <2> QED BY <2>1 DEF SafeInv, At, Blocked, InDelete,
                      OwnerRecorded, DeletesFree, SleepsLocked, NotInCv, NoLostWakeup
<1>18. ASSUME NEW p \in Procs, MayRun(p), MutexInit(p) PROVE SafeInv'
  BY SMTT(60), <1>18 DEF MutexInit, Enter, SafeCalls
<1>19. ASSUME NEW p \in Procs, MayRun(p), MutexCreate(p) PROVE SafeInv'
  <2>1. PICK m \in Mux : Goto(p, "create_ns", m)
    BY <1>19 DEF MutexCreate
  <2>2. "create_ns" \in Plain
    BY DEF Plain
  <2> QED BY Zenon, <1>19, <2>1, <2>2, QuietStep DEF MutexCreate, Enter, At, Goto, procVars, Waking
<1>20. ASSUME NEW p \in Procs, MayRun(p), Fault(p) PROVE SafeInv'
  <2>1. "fault" \in Plain /\ arg[p] \in Mux /\ arg' = [arg EXCEPT ![p] = arg[p]]
    BY <1>20 DEF Plain, Fault, TypeOK
  <2> QED BY Zenon, <1>20, <2>1, QuietStep DEF Fault, At, muxVars, spinVars, Waking
<1>21. ASSUME NEW p \in Procs, MayRun(p), NEW m \in MuxArgs, MutexDelete(p, m) PROVE SafeInv'
  <2>1. m \in Mux /\ At(p, "user") /\ ~Smp /\ ~locked[m]
    BY <1>21 DEF MutexDelete, EnterMux, Enter, Deletable, SafeCalls, MayRun
  <2>2. /\ pc' = [pc EXCEPT ![p] = "del_waiters"] /\ arg' = [arg EXCEPT ![p] = m] /\ tableLock' = p
        /\ UNCHANGED <<locked, pid, owns, muxLock, state>>
    BY <1>21 DEF MutexDelete, Goto, muxVars, procVars
  <2>3. \A q \in Procs : ~InDelete(q)
    BY Zenon, <1>21, <2>1, DeletesAlone DEF SafeInv, InDelete, At
  <2>4. OwnerRecorded' /\ SleepsLocked' /\ NotInCv'
    BY ZenonT(60), <2>1, <2>2 DEF SafeInv, TypeOK, At, OwnerRecorded, SleepsLocked, NotInCv
  <2>5. DeletesFree'
    BY SMTT(60), <2>1, <2>2, <2>3 DEF TypeOK, DeletesFree, InDelete
  <2>6. NoLostWakeup'
    BY ZenonT(60), <2>1, <2>2 DEF SafeInv, TypeOK, At, Blocked, NoLostWakeup
  <2> QED BY Zenon, <2>4, <2>5, <2>6 DEF SafeInv
<1>22. ASSUME NEW p \in Procs, MayRun(p), NEW m \in MuxArgs, MutexLock(p, m) PROVE SafeInv'
  <2>1. m \in Mux /\ "lock_acq" \in Plain
    BY <1>22 DEF MutexLock, EnterMux, Plain
  <2> QED BY Zenon, <1>22, <2>1, QuietStep DEF MutexLock, EnterMux, Enter, At, Goto, muxVars, spinVars, procVars, Waking
<1>23. ASSUME NEW p \in Procs, MayRun(p), NEW m \in MuxArgs, MutexUnlock(p, m) PROVE SafeInv'
  <2>1. m \in Mux /\ "unlock_wake" \in Waking /\ pc[p] \in Plain
    BY Zenon, <1>23 DEF MutexUnlock, EnterMux, Enter, At, Plain, Waking
  <2> QED BY Zenon, <1>23, <2>1, DropStep DEF MutexUnlock, Goto, spinVars
<1>24. ASSUME NEW p \in Procs, MayRun(p), NEW m \in MuxArgs, CvWait(p, m) PROVE SafeInv'
  BY <1>24 DEF CvWait, EnterMux, Enter, SafeCalls
<1>25. ASSUME NEW p \in Procs, MayRun(p), NEW m \in MuxArgs, CvSignal(p, m) \/ OutOfBounds(p, m) PROVE SafeInv'
  <2>1. \A q \in Procs : state'[q] = "SLEEPING" => state[q] = "SLEEPING"
    BY ZenonT(60), <1>25 DEF TypeOK, CvSignal, OutOfBounds, Rouse, procVars
  <2>2. pc' = pc /\ arg' = arg /\ UNCHANGED <<locked, pid, owns, muxLock, tableLock>>
    BY Zenon, <1>25 DEF CvSignal, OutOfBounds, muxVars, spinVars, procVars, ctlVars
  <2>3. OwnerRecorded' /\ DeletesFree' /\ SleepsLocked' /\ NotInCv'
    BY Zenon, <2>2 DEF SafeInv, InDelete, OwnerRecorded, DeletesFree, SleepsLocked, NotInCv
  <2>4. NoLostWakeup'
    BY <2>1, <2>2 DEF SafeInv, At, Blocked, NoLostWakeup
  <2> QED BY SMTT(60), <2>3, <2>4 DEF SafeInv
<1>26. ASSUME NEW p \in Procs, MayRun(p), NEW q \in Procs, Kill(p, q) PROVE SafeInv'
  <2>1. \A r \in Procs : state'[r] = "SLEEPING" => state[r] = "SLEEPING"
    BY <1>26 DEF TypeOK, Kill, Rouse
  <2>2. pc' = pc /\ arg' = arg /\ UNCHANGED <<locked, pid, owns, muxLock, tableLock>>
    BY Zenon, <1>26 DEF Kill, muxVars, spinVars, procVars, ctlVars
  <2>3. OwnerRecorded' /\ DeletesFree' /\ SleepsLocked' /\ NotInCv'
    BY ZenonT(60), <2>2 DEF SafeInv, InDelete, OwnerRecorded, DeletesFree, SleepsLocked, NotInCv
  <2>4. NoLostWakeup'
    BY <2>1, <2>2 DEF SafeInv, At, Blocked, NoLostWakeup
  <2> QED BY Zenon, <2>3, <2>4 DEF SafeInv
<1> QED BY ZenonT(60), <1>0, <1>1, <1>2, <1>3, <1>4, <1>5, <1>6, <1>7, <1>8, <1>9, <1>10, <1>11, <1>12,
         <1>13, <1>14, <1>15, <1>16, <1>17, <1>18, <1>19, <1>20, <1>21, <1>22, <1>23,
         <1>24, <1>25, <1>26, Zenon DEF Next, KernelStep, UserStep

\* The inductive invariant holds in every state that such programs reach.
LEMMA SafeInvariant == SafeCalls => (Spec => [](TypeOK /\ SafeInv))
<1> SUFFICES ASSUME SafeCalls PROVE Spec => [](TypeOK /\ SafeInv)
  BY Zenon
<1>1. Init => SafeInv
  BY DEF Init, SafeInv, OwnerRecorded, DeletesFree, InDelete, SleepsLocked, NotInCv,
         NoLostWakeup, Blocked, At
<1>2. TypeOK /\ SafeInv /\ [Next]_vars => SafeInv'
  BY SafeStep
<1> QED BY <1>1, <1>2, TypeCorrect, PTL DEF Spec

\* Two processes never hold a mutex at once, as long as nobody calls cv_wait or
\* resets the table, and nobody deletes a mutex on a machine with several CPUs:
\* mutex_lock, mutex_unlock, kill, exit, exec and the clean-up after a fault
\* keep the owner that is recorded in a mutex the only one.
THEOREM MutexExclusive == SafeCalls => (Spec => []MutualExclusion)
<1>1. SafeInv => MutualExclusion
  BY DEF SafeInv, OwnerRecorded, MutualExclusion
<1> QED BY <1>1, SafeInvariant, PTL

\* Under the same condition no process sleeps in mutex_lock on a free mutex
\* with nobody about to wake it.
THEOREM MutexNoLostWakeup == SafeCalls => (Spec => []NoLostWakeup)
<1>1. SafeInv => NoLostWakeup
  BY DEF SafeInv
<1> QED BY <1>1, SafeInvariant, PTL

-----------------------------------------------------------------------------
(* Who is in a wait sequence. This is about programs that make any calls. *)

Queued(p, m) == \E i \in DOMAIN waiters[m] : waiters[m][i] = p

\* Whoever is in a wait sequence sleeps there, or was killed and will never be in user
\* mode again: cv_signal takes out whom it wakes, kill does not (proc.c:981, 585). Nobody
\* is in one twice.
CvInv ==
  /\ \A p \in Procs, m \in Mux : Queued(p, m) =>
       \/ pc[p] = "cvw_slept" /\ arg[p] = m /\ (state[p] = "SLEEPING" \/ killed[p])
       \/ pc[p] \in {"cvw_relock", "exiting", "dead"} /\ killed[p]
  /\ \A m \in Mux : \A i, j \in DOMAIN waiters[m] : waiters[m][i] = waiters[m][j] => i = j

\* What CvStaysQueued asks of a step that is not a mutex_init.
CvStep == \A q \in Procs : InCv(q)' => InWseq(q)' \/ (InCv(q) /\ ~InWseq(q))

\* A step of p, which is in no wait sequence, that puts nobody into one or to sleep in one,
\* and wakes nobody there but by kill.
CvQuiet(p) ==
  /\ waiters' = waiters
  /\ pc[p] \notin {"cvw_slept", "cvw_relock", "exiting", "dead"} /\ pc'[p] # "cvw_slept"
  /\ \A q \in Procs \ {p} : pc'[q] = pc[q] /\ arg'[q] = arg[q]
  /\ \A q \in Procs : killed[q] => killed'[q]
  /\ \A q \in Procs : pc[q] = "cvw_slept" =>
       state'[q] = state[q] \/ (killed'[q] /\ state'[q] # "SLEEPING")

\* Such a step keeps the invariant.
LEMMA CvQuietStep ==
  ASSUME TypeOK, CvInv, NEW p \in Procs, CvQuiet(p)
  PROVE  CvInv' /\ CvStep
<1>1. \A q \in Procs, m \in Mux : Queued(q, m)' <=> Queued(q, m)
  BY Zenon DEF Queued, CvQuiet
<1>2. \A m \in Mux : ~Queued(p, m)
  BY Zenon DEF CvInv, CvQuiet
<1>3. CvInv'
  <2>1. ASSUME NEW q \in Procs, NEW m \in Mux, Queued(q, m)
        PROVE  \/ pc'[q] = "cvw_slept" /\ arg'[q] = m /\ (state'[q] = "SLEEPING" \/ killed'[q])
               \/ pc'[q] \in {"cvw_relock", "exiting", "dead"} /\ killed'[q]
    <3>1. q # p
      BY Zenon, <1>2, <2>1
    <3> QED BY Zenon, <2>1, <3>1 DEF CvInv, CvQuiet
  <2>2. \A m \in Mux : \A i, j \in DOMAIN waiters'[m] : waiters'[m][i] = waiters'[m][j] => i = j
    BY Zenon DEF CvInv, CvQuiet
  <2> QED BY Zenon, <1>1, <2>1, <2>2 DEF CvInv
<1>4. CvStep
  <2>1. SUFFICES ASSUME NEW q \in Procs, InCv(q)'
                 PROVE  InWseq(q)' \/ (InCv(q) /\ ~InWseq(q))
    BY DEF CvStep
  <2>2. q # p /\ pc[q] = "cvw_slept" /\ arg'[q] = arg[q] /\ state'[q] = "SLEEPING"
    BY Zenon, <2>1 DEF CvQuiet, InCv, At
  <2>3. InCv(q)
    BY Zenon, <2>2 DEF CvQuiet, InCv, At
  <2>4. InWseq(q) => InWseq(q)'
    BY Zenon, <2>2 DEF CvQuiet, InWseq
  <2> QED BY Zenon, <2>3, <2>4
<1> QED BY <1>3, <1>4

\* wseq_remove of a process that is not in the sequence changes nothing.
LEMMA WseqRemoveNothing ==
  ASSUME NEW P, NEW w \in Seq(P), NEW p, \A i \in DOMAIN w : w[i] # p
  PROVE  WseqRemove(w, p) = w
<1> DEFINE scan == CHOOSE f : f = [i \in 0 .. Len(w) |-> IF i = 0 THEN w ELSE Round(f[i - 1], i, p)]
           S == {n \in Nat : n <= Len(w) => scan[n] = w}
<1>1. Len(w) \in Nat /\ DOMAIN w = 1 .. Len(w)
  OBVIOUS
<1>2. scan = [i \in 0 .. Len(w) |-> IF i = 0 THEN w ELSE Round(scan[i - 1], i, p)]
  BY <1>1, ScanExists
<1>3. WseqRemove(w, p) = scan[Len(w)]
  BY DEF WseqRemove
<1> HIDE DEF scan
<1>4. 0 \in S
  BY <1>1, <1>2
<1>5. ASSUME NEW n \in Nat, n \in S PROVE n + 1 \in S
  <2>1. SUFFICES ASSUME n + 1 <= Len(w) PROVE scan[n + 1] = w
    OBVIOUS
  <2>2. scan[n] = w
    BY <1>1, <1>5, <2>1
  <2>3. scan[n + 1] = Round(w, n + 1, p)
    BY <1>1, <1>2, <2>1, <2>2
  <2>4. n + 1 \in DOMAIN w
    BY <1>1, <2>1
  <2> QED BY Zenon, <2>3, <2>4 DEF Round
<1>6. \A n \in Nat : n \in S
  BY Zenon, <1>4, <1>5, NatSetInduction
<1> QED BY <1>1, <1>3, <1>6

\* What EXCEPT does to a function.
LEMMA ExceptAt ==
  ASSUME NEW A, NEW B, NEW g \in [A -> B], NEW a \in A, NEW v
  PROVE  /\ [g EXCEPT ![a] = v][a] = v
         /\ \A i \in A \ {a} : [g EXCEPT ![a] = v][i] = g[i]
OBVIOUS

\* A step that only goes to another label, and one that does not go anywhere.
LEMMA CvSwitches ==
  ASSUME TypeOK, NEW p \in Procs, NEW label, NEW m, Goto(p, label, m), label # "cvw_slept",
         pc[p] \notin {"cvw_slept", "cvw_relock", "exiting", "dead"}, UNCHANGED <<waiters, killed>>,
         \A q \in Procs : pc[q] = "cvw_slept" => state'[q] = state[q]
  PROVE  CvQuiet(p)
<1>1. pc \in [Procs -> Labels] /\ arg \in [Procs -> Mux]
  BY Zenon DEF TypeOK
<1>2. pc'[p] = label /\ \A q \in Procs \ {p} : pc'[q] = pc[q]
  BY Zenon, <1>1, ExceptAt DEF Goto
<1>3. \A q \in Procs \ {p} : arg'[q] = arg[q]
  BY Zenon, <1>1, ExceptAt DEF Goto
<1> QED BY Zenon, <1>2, <1>3 DEF CvQuiet

LEMMA CvGoes ==
  ASSUME TypeOK, NEW p \in Procs, NEW label, NEW m, Goto(p, label, m), label # "cvw_slept",
         pc[p] \notin {"cvw_slept", "cvw_relock", "exiting", "dead"}, UNCHANGED <<waiters, state, killed>>
  PROVE  CvQuiet(p)
  BY Zenon, CvSwitches

LEMMA CvReturns ==
  ASSUME TypeOK, NEW p \in Procs, Return(p), pc[p] \notin {"cvw_slept", "cvw_relock", "exiting", "dead"},
         UNCHANGED <<waiters, state, killed>>
  PROVE  CvQuiet(p)
<1> DEFINE label == IF killed[p] THEN "exiting" ELSE "user"
<1>1. Goto(p, label, 0)
  BY Zenon DEF Return
<1>2. label # "cvw_slept"
  OBVIOUS
<1> HIDE DEF label
<1> QED BY Zenon, <1>1, <1>2, CvGoes

LEMMA CvWakes ==
  ASSUME TypeOK, NEW p \in Procs, NEW m, Wakeup(m)
  PROVE  \A q \in Procs : pc[q] = "cvw_slept" => state'[q] = state[q]
<1>1. \A q \in Procs : pc[q] = "cvw_slept" => ~SleepsOn(q, m)
  BY DEF SleepsOn, At
<1> QED BY Zenon, <1>1 DEF Wakeup

LEMMA CvStands ==
  ASSUME NEW p \in Procs, pc[p] = "user", UNCHANGED <<waiters, pc, arg>>,
         \A q \in Procs : killed[q] => killed'[q],
         \A q \in Procs : pc[q] = "cvw_slept" => state'[q] = state[q] \/ (killed'[q] /\ state'[q] # "SLEEPING")
  PROVE  CvQuiet(p)
<1>1. "user" \notin {"cvw_slept", "cvw_relock", "exiting", "dead"} /\ "user" # "cvw_slept"
  OBVIOUS
<1> QED BY Zenon, <1>1 DEF CvQuiet

\* The steps that leave the wait sequences alone, but for three.
LEMMA CvKernelQuiet ==
  ASSUME TypeOK, NEW p \in Procs,
         \/ CreateNamespace(p) \/ DeleteWaiters(p) \/ DeleteClear(p)
         \/ LockTake(p) \/ LockBusy(p) \/ LockSleep(p) \/ LockResume(p) \/ UnlockWakeup(p)
         \/ CvWaitRefuse(p) \/ CvWaitFull(p)
         \/ FaultSkip(p) \/ FaultUnlock(p) \/ FaultRefused(p) \/ FaultWakeup(p) \/ FaultExit(p)
  PROVE  CvQuiet(p)
<1>u. /\ \A label \in {"create_ns", "del_waiters", "del_clear", "lock_acq", "lock_sleep", "lock_slept",
                       "unlock_wake", "cvw_pt", "fault", "fault_wake"} :
           label \notin {"cvw_slept", "cvw_relock", "exiting", "dead"}
      /\ "cvw_slept" \notin {"del_clear", "lock_sleep", "lock_slept", "lock_acq", "fault_wake", "fault_wseq"}
  OBVIOUS
<1>1. CASE CreateNamespace(p)
  <2>1. pc[p] = "create_ns" /\ Return(p) /\ UNCHANGED <<waiters, state, killed>>
    BY Zenon, <1>1 DEF CreateNamespace, At, procVars
  <2> QED BY Zenon, <1>u, <2>1, CvReturns
<1>2. CASE DeleteWaiters(p)
  <2>1. /\ pc[p] = "del_waiters" /\ UNCHANGED <<waiters, state, killed>>
        /\ Goto(p, "del_clear", arg[p]) \/ Return(p)
    BY Zenon, <1>2 DEF DeleteWaiters, At, muxVars, procVars
  <2> QED BY Zenon, <1>u, <2>1, CvGoes, CvReturns
<1>3. CASE DeleteClear(p)
  <2>1. pc[p] = "del_clear" /\ Return(p) /\ UNCHANGED <<waiters, state, killed>>
    BY Zenon, <1>3 DEF DeleteClear, At, procVars
  <2> QED BY Zenon, <1>u, <2>1, CvReturns
<1>4. CASE LockTake(p)
  <2>1. pc[p] = "lock_acq" /\ Return(p) /\ UNCHANGED <<waiters, state, killed>>
    BY Zenon, <1>4 DEF LockTake, At
  <2> QED BY Zenon, <1>u, <2>1, CvReturns
<1>5. CASE LockBusy(p)
  <2>1. pc[p] = "lock_acq" /\ Goto(p, "lock_sleep", arg[p]) /\ UNCHANGED <<waiters, state, killed>>
    BY Zenon, <1>5 DEF LockBusy, At, muxVars, procVars
  <2> QED BY Zenon, <1>u, <2>1, CvGoes
<1>6. CASE LockSleep(p)
  <2>1. /\ pc[p] = "lock_sleep" /\ Goto(p, "lock_slept", arg[p]) /\ UNCHANGED <<waiters, killed>>
        /\ state' = [state EXCEPT ![p] = "SLEEPING"]
    BY Zenon, <1>6 DEF LockSleep, At, muxVars
  <2>2. \A q \in Procs : pc[q] = "cvw_slept" => state'[q] = state[q]
    BY <2>1 DEF TypeOK
  <2> QED BY Zenon, <1>u, <2>1, <2>2, CvSwitches
<1>7. CASE LockResume(p)
  <2>1. /\ pc[p] = "lock_slept" /\ Goto(p, "lock_acq", arg[p]) /\ UNCHANGED <<waiters, killed>>
        /\ state' = [state EXCEPT ![p] = "RUNNING"]
    BY Zenon, <1>7 DEF LockResume, At, muxVars
  <2>2. \A q \in Procs : pc[q] = "cvw_slept" => state'[q] = state[q]
    BY <2>1 DEF TypeOK
  <2> QED BY Zenon, <1>u, <2>1, <2>2, CvSwitches
<1>8. CASE UnlockWakeup(p)
  <2> DEFINE label == IF killed[p] THEN "exiting" ELSE "user"
  <2>1. pc[p] = "unlock_wake" /\ Goto(p, label, 0) /\ UNCHANGED <<waiters, killed>>
    BY Zenon, <1>8 DEF UnlockWakeup, Return, At, muxVars
  <2>2. label # "cvw_slept"
    OBVIOUS
  <2>3. \A q \in Procs : pc[q] = "cvw_slept" => state'[q] = state[q]
    BY Zenon, <1>8, CvWakes DEF UnlockWakeup
  <2> HIDE DEF label
  <2> QED BY Zenon, <1>u, <2>1, <2>2, <2>3, CvSwitches
<1>9. CASE CvWaitRefuse(p)
  <2>1. pc[p] = "cvw_pt" /\ Return(p) /\ UNCHANGED <<waiters, state, killed>>
    BY Zenon, <1>9 DEF CvWaitRefuse, At, muxVars, procVars
  <2> QED BY Zenon, <1>u, <2>1, CvReturns
<1>10. CASE CvWaitFull(p)
  <2>1. pc[p] = "cvw_pt" /\ Return(p) /\ UNCHANGED <<waiters, state, killed>>
    BY Zenon, <1>10 DEF CvWaitFull, At, muxVars, procVars
  <2> QED BY Zenon, <1>u, <2>1, CvReturns
<1>11. CASE FaultSkip(p)
  <2>1. pc[p] = "fault" /\ UNCHANGED <<waiters, pc, arg, state, killed>>
    BY Zenon, <1>11 DEF FaultSkip, At, muxVars, procVars
  <2> QED BY Zenon, <1>u, <2>1 DEF CvQuiet
<1>12. CASE FaultUnlock(p)
  <2>1. pc[p] = "fault" /\ Goto(p, "fault_wake", procMutexes[p][slot[p]]) /\ UNCHANGED <<waiters, state, killed>>
    BY Zenon, <1>12 DEF FaultUnlock, At
  <2> QED BY Zenon, <1>u, <2>1, CvGoes
<1>13. CASE FaultRefused(p)
  <2>1. pc[p] = "fault" /\ Goto(p, "fault_wseq", procMutexes[p][slot[p]]) /\ UNCHANGED <<waiters, state, killed>>
    BY Zenon, <1>13 DEF FaultRefused, At, muxVars, procVars
  <2> QED BY Zenon, <1>u, <2>1, CvGoes
<1>14. CASE FaultWakeup(p)
  <2>1. pc[p] = "fault_wake" /\ Goto(p, "fault_wseq", arg[p]) /\ UNCHANGED <<waiters, killed>>
    BY Zenon, <1>14 DEF FaultWakeup, At, muxVars
  <2>2. \A q \in Procs : pc[q] = "cvw_slept" => state'[q] = state[q]
    BY ZenonT(60), <1>14, CvWakes DEF FaultWakeup
  <2> QED BY Zenon, <1>u, <2>1, <2>2, CvSwitches
<1>15. CASE FaultExit(p)
  BY SMTT(60), <1>15 DEF FaultExit, CvQuiet, Return, Goto, At, TypeOK, muxVars, spinVars, procVars, ctlVars, Die
<1> QED BY Zenon, <1>1, <1>2, <1>3, <1>4, <1>5, <1>6, <1>7, <1>8, <1>9, <1>10, <1>11, <1>12, <1>13, <1>14, <1>15

LEMMA CvUserQuiet ==
  ASSUME TypeOK, NEW p \in Procs,
         \/ MutexCreate(p) \/ Exec(p) \/ Fault(p)
         \/ \E m \in MuxArgs : \/ MutexDelete(p, m) \/ MutexLock(p, m) \/ MutexUnlock(p, m)
                               \/ CvWait(p, m) \/ OutOfBounds(p, m)
         \/ \E q \in Procs : Kill(p, q)
         \/ Exit(p) /\ ~At(p, "exiting")
  PROVE  CvQuiet(p)
<1>1. CASE MutexCreate(p)
  BY Zenon, <1>1 DEF MutexCreate, Enter, CvQuiet, Return, Goto, At, TypeOK, muxVars, spinVars, procVars, ctlVars
<1>2. CASE Exec(p)
  BY <1>2 DEF Exec, Enter, CvQuiet, Return, Goto, At, TypeOK, muxVars, spinVars, procVars, ctlVars
<1>u. /\ "user" \notin {"cvw_slept", "cvw_relock", "exiting", "dead"}
      /\ "cvw_slept" \notin {"del_waiters", "lock_acq", "unlock_wake", "cvw_pt", "fault"}
  OBVIOUS
<1>3. CASE Fault(p)
  <2>1. /\ pc[p] = "user" /\ pc' = [pc EXCEPT ![p] = "fault"] /\ UNCHANGED <<waiters, state, arg>>
        /\ killed' = [killed EXCEPT ![p] = TRUE]
    BY Zenon, <1>3 DEF Fault, At, muxVars
  <2>2. pc \in [Procs -> Labels] /\ killed \in [Procs -> BOOLEAN]
    BY Zenon DEF TypeOK
  <2>4. killed'[p] /\ \A q \in Procs \ {p} : killed'[q] = killed[q]
    BY Zenon, <2>1, <2>2, ExceptAt
  <2>3. pc'[p] = "fault" /\ \A q \in Procs \ {p} : pc'[q] = pc[q]
    BY Zenon, <2>1, <2>2, ExceptAt
  <2> QED BY Zenon, <1>u, <2>1, <2>3, <2>4 DEF CvQuiet
<1>4. ASSUME NEW m \in MuxArgs, MutexDelete(p, m) PROVE CvQuiet(p)
  <2>1. pc[p] = "user" /\ Goto(p, "del_waiters", m) /\ UNCHANGED <<waiters, state, killed>>
    BY Zenon, <1>4 DEF MutexDelete, EnterMux, Enter, At, muxVars, procVars
  <2> QED BY Zenon, <1>u, <2>1, CvGoes
<1>5. ASSUME NEW m \in MuxArgs, MutexLock(p, m) PROVE CvQuiet(p)
  <2>1. pc[p] = "user" /\ Goto(p, "lock_acq", m) /\ UNCHANGED <<waiters, state, killed>>
    BY Zenon, <1>5 DEF MutexLock, EnterMux, Enter, At, muxVars, procVars
  <2> QED BY Zenon, <1>u, <2>1, CvGoes
<1>6. ASSUME NEW m \in MuxArgs, MutexUnlock(p, m) PROVE CvQuiet(p)
  <2>1. pc[p] = "user" /\ Goto(p, "unlock_wake", m) /\ UNCHANGED <<waiters, state, killed>>
    BY Zenon, <1>6 DEF MutexUnlock, EnterMux, Enter, At, muxVars, procVars
  <2> QED BY Zenon, <1>u, <2>1, CvGoes
<1>7. ASSUME NEW m \in MuxArgs, CvWait(p, m) PROVE CvQuiet(p)
  <2>1. pc[p] = "user" /\ Goto(p, "cvw_pt", m) /\ UNCHANGED <<waiters, state, killed>>
    BY Zenon, <1>7 DEF CvWait, EnterMux, Enter, At, muxVars, procVars
  <2> QED BY Zenon, <1>u, <2>1, CvGoes
<1>8. ASSUME NEW m \in MuxArgs, OutOfBounds(p, m) PROVE CvQuiet(p)
  <2>1. pc[p] = "user" /\ UNCHANGED <<waiters, pc, arg, state, killed>>
    BY Zenon, <1>8 DEF OutOfBounds, Enter, At, muxVars, procVars, ctlVars
  <2> QED BY Zenon, <2>1, CvStands
<1>9. ASSUME NEW q \in Procs, Kill(p, q) PROVE CvQuiet(p)
  <2>1. /\ pc[p] = "user" /\ UNCHANGED <<waiters, pc, arg>> /\ killed' = [killed EXCEPT ![q] = TRUE]
        /\ state' = [state EXCEPT ![q] = Rouse(state[q])]
    BY Zenon, <1>9 DEF Kill, Enter, At, muxVars, ctlVars
  <2>2. killed \in [Procs -> BOOLEAN] /\ state \in [Procs -> {"RUNNING", "RUNNABLE", "SLEEPING", "ZOMBIE"}]
    BY Zenon DEF TypeOK
  <2>3. killed'[q] /\ \A r \in Procs \ {q} : killed'[r] = killed[r]
    BY Zenon, <2>1, <2>2, ExceptAt
  <2>4. state'[q] = Rouse(state[q]) /\ \A r \in Procs \ {q} : state'[r] = state[r]
    BY Zenon, <2>1, <2>2, ExceptAt
  <2>5. Rouse(state[q]) # "SLEEPING"
    BY Zenon DEF Rouse
  <2> QED BY Zenon, <2>1, <2>3, <2>4, <2>5, CvStands
<1>10. CASE Exit(p) /\ ~At(p, "exiting")
  BY Zenon, <1>10 DEF Exit, Die, Enter, CvQuiet, Return, Goto, At, TypeOK, muxVars, spinVars, procVars, ctlVars
<1> QED BY ZenonT(60), <1>1, <1>2, <1>3, <1>4, <1>5, <1>6, <1>7, <1>8, <1>9, <1>10

\* A step that leaves alone all that CvInv and CvStep speak of.
LEMMA CvStill ==
  ASSUME CvInv, UNCHANGED <<waiters, pc, arg, state, killed>>
  PROVE  CvInv' /\ CvStep
<1>1. CvInv'
  BY Zenon DEF CvInv, Queued
<1>2. CvStep
  BY Zenon DEF CvStep, InCv, InWseq, At
<1> QED BY <1>1, <1>2

\* A process that sleeps no more, and one that ends.
LEMMA CvLeave ==
  ASSUME TypeOK, CvInv, NEW p \in Procs,
         CvWaitResume(p) \/ CvWaitRelock(p) \/ (Exit(p) /\ At(p, "exiting"))
  PROVE  CvInv' /\ CvStep
<1>1. waiters' = waiters /\ killed' = killed
  BY Zenon DEF CvWaitResume, CvWaitRelock, Exit, Die, muxVars, procVars
<1>2. \A q \in Procs \ {p} : pc'[q] = pc[q] /\ arg'[q] = arg[q] /\ state'[q] = state[q]
  BY Zenon DEF CvWaitResume, CvWaitRelock, Exit, Die, Return, Goto, TypeOK, muxVars, procVars
<1>3. /\ killed[p] => pc'[p] \in {"cvw_relock", "exiting", "dead"}
      /\ pc'[p] # "cvw_slept"
  BY DEF CvWaitResume, CvWaitRelock, Exit, Die, Return, Goto, TypeOK
<1>4. \A m \in Mux : Queued(p, m) => killed[p]
  <2>1. state[p] # "SLEEPING" \/ pc[p] # "cvw_slept"
    BY Zenon DEF CvWaitResume, CvWaitRelock, At, Exit, Enter
  <2> QED BY Zenon, <2>1 DEF CvInv
<1>5. \A q \in Procs, m \in Mux : Queued(q, m)' <=> Queued(q, m)
  BY Zenon, <1>1 DEF Queued
<1>6. CvInv'
  <2>1. ASSUME NEW q \in Procs, NEW m \in Mux, Queued(q, m)
        PROVE  \/ pc'[q] = "cvw_slept" /\ arg'[q] = m /\ (state'[q] = "SLEEPING" \/ killed'[q])
               \/ pc'[q] \in {"cvw_relock", "exiting", "dead"} /\ killed'[q]
    <3>1. CASE q = p
      BY Zenon, <1>1, <1>3, <1>4, <2>1, <3>1
    <3>2. CASE q # p
      BY Zenon, <1>1, <1>2, <2>1, <3>2 DEF CvInv
    <3> QED BY Zenon, <3>1, <3>2
  <2>2. \A m \in Mux : \A i, j \in DOMAIN waiters'[m] : waiters'[m][i] = waiters'[m][j] => i = j
    BY Zenon, <1>1 DEF CvInv
  <2> QED BY Zenon, <1>5, <2>1, <2>2 DEF CvInv
<1>7. CvStep
  <2>1. SUFFICES ASSUME NEW q \in Procs, InCv(q)' PROVE  InCv(q) /\ (InWseq(q) => InWseq(q)')
    BY Zenon DEF CvStep
  <2>2. q # p
    BY Zenon, <2>1, <1>3 DEF InCv, At
  <2> QED BY Zenon, <2>1, <2>2, <1>1, <1>2 DEF InCv, InWseq, At
<1> QED BY <1>6, <1>7

\* cv_wait appends the process to the sequence it was not in, and sends it to sleep.
LEMMA CvEnter ==
  ASSUME TypeOK, CvInv, NEW p \in Procs, CvWaitSleep(p)
  PROVE  CvInv' /\ CvStep
<1> DEFINE a == arg[p]
<1>1. /\ waiters' = [waiters EXCEPT ![a] = Append(waiters[a], p)]
      /\ state' = [state EXCEPT ![p] = "SLEEPING"] /\ pc' = [pc EXCEPT ![p] = "cvw_slept"]
      /\ arg' = [arg EXCEPT ![p] = a] /\ killed' = killed
      /\ pc[p] = "cvw_pt"
  BY Zenon DEF CvWaitSleep, Goto, At
<1>2. a \in Mux /\ waiters[a] \in Seq(Procs) /\ Len(waiters[a]) \in Nat
  BY DEF TypeOK
<1>3. /\ DOMAIN waiters'[a] = 1 .. Len(waiters[a]) + 1
      /\ DOMAIN waiters[a] = 1 .. Len(waiters[a])
      /\ \A i \in 1 .. Len(waiters[a]) : waiters'[a][i] = waiters[a][i]
      /\ waiters'[a][Len(waiters[a]) + 1] = p
  BY <1>1, <1>2 DEF TypeOK
<1>4. \A m \in Mux \ {a} : waiters'[m] = waiters[m]
  BY <1>1 DEF TypeOK
<1>5. \A m \in Mux : \A i \in DOMAIN waiters[m] : waiters[m][i] # p
  BY Zenon, <1>1 DEF CvInv, Queued
<1>t. pc \in [Procs -> Labels] /\ arg \in [Procs -> Mux] /\ state \in [Procs -> {"RUNNING", "RUNNABLE", "SLEEPING", "ZOMBIE"}]
  BY Zenon DEF TypeOK
<1>6. pc'[p] = "cvw_slept" /\ arg'[p] = a /\ state'[p] = "SLEEPING"
  BY Zenon, <1>1, <1>t
<1>7. \A q \in Procs \ {p} : pc'[q] = pc[q] /\ arg'[q] = arg[q] /\ state'[q] = state[q]
  BY Zenon, <1>1, <1>t
<1>8. \A i \in DOMAIN waiters[a] : i \in DOMAIN waiters'[a] /\ waiters'[a][i] = waiters[a][i]
  BY <1>2, <1>3
<1>9. \A i \in DOMAIN waiters'[a] : i \in DOMAIN waiters[a] \/ waiters'[a][i] = p
  BY <1>2, <1>3
<1> HIDE DEF a
<1>10. CvInv'
  <2>1. ASSUME NEW q \in Procs, NEW m \in Mux, Queued(q, m)'
        PROVE  \/ pc'[q] = "cvw_slept" /\ arg'[q] = m /\ (state'[q] = "SLEEPING" \/ killed'[q])
               \/ pc'[q] \in {"cvw_relock", "exiting", "dead"} /\ killed'[q]
    <3>1. CASE q = p
      <4>1. m = a
        BY Zenon, <1>4, <1>5, <2>1, <3>1 DEF Queued
      <4> QED BY Zenon, <1>6, <3>1, <4>1
    <3>2. CASE q # p
      <4>1. Queued(q, m)
        BY Zenon, <1>4, <1>8, <1>9, <2>1, <3>2 DEF Queued
      <4> QED BY Zenon, <1>1, <1>7, <3>2, <4>1 DEF CvInv
    <3> QED BY <3>1, <3>2
  <2>2. ASSUME NEW m \in Mux, NEW i \in DOMAIN waiters'[m], NEW j \in DOMAIN waiters'[m],
               waiters'[m][i] = waiters'[m][j]
        PROVE  i = j
    <3>1. CASE m = a
      <4>1. ASSUME NEW k \in DOMAIN waiters'[a]
            PROVE  \/ k \in DOMAIN waiters[a] /\ waiters'[a][k] = waiters[a][k] /\ waiters'[a][k] # p
                   \/ k = Len(waiters[a]) + 1 /\ waiters'[a][k] = p
        BY <1>2, <1>3, <1>5
      <4> QED BY Zenon, <1>2, <2>2, <3>1, <4>1 DEF CvInv
    <3>2. CASE m # a
      BY ZenonT(60), <1>4, <2>2, <3>2 DEF CvInv
    <3> QED BY <3>1, <3>2
  <2> QED BY Zenon, <2>1, <2>2 DEF CvInv
<1>11. CvStep
  <2>1. SUFFICES ASSUME NEW q \in Procs, InCv(q)' PROVE  InWseq(q)' \/ (InCv(q) /\ ~InWseq(q))
    BY DEF CvStep
  <2>2. CASE q = p
    <3>1. Len(waiters[a]) + 1 \in DOMAIN waiters'[a]
      BY <1>2, <1>3
    <3> QED BY Zenon, <1>3, <1>6, <2>2, <3>1 DEF InWseq
  <2>3. CASE q # p
    <3>1. InCv(q)
      BY Zenon, <1>7, <2>1, <2>3 DEF InCv, At
    <3>2. arg'[q] = arg[q] /\ arg[q] \in Mux
      BY <1>7, <2>3 DEF TypeOK
    <3>3. InWseq(q) => InWseq(q)'
      BY Zenon, <1>4, <1>8, <3>2 DEF InWseq
    <3> QED BY <3>1, <3>3
  <2> QED BY <2>2, <2>3
<1> QED BY Zenon, <1>10, <1>11

\* cv_signal takes the head of the sequence out of it and wakes it.
LEMMA CvTakeOut ==
  ASSUME TypeOK, CvInv, NEW p \in Procs, NEW a \in MuxArgs, CvSignal(p, a)
  PROVE  CvInv' /\ CvStep
<1> DEFINE h == Head(waiters[a])
<1>1. /\ waiters' = [waiters EXCEPT ![a] = Tail(waiters[a])]
      /\ state' = [state EXCEPT ![h] = Rouse(state[h])]
      /\ pc' = pc /\ arg' = arg /\ killed' = killed
      /\ a \in Mux /\ waiters[a] # << >>
  BY DEF CvSignal, EnterMux, ctlVars
<1>2. waiters[a] \in Seq(Procs) /\ Len(waiters[a]) \in Nat \ {0} /\ h \in Procs
  BY SMTT(60), <1>1 DEF TypeOK
<1>3. /\ DOMAIN waiters'[a] = 1 .. Len(waiters[a]) - 1
      /\ DOMAIN waiters[a] = 1 .. Len(waiters[a])
      /\ \A i \in 1 .. Len(waiters[a]) - 1 : waiters'[a][i] = waiters[a][i + 1]
      /\ waiters[a][1] = h
  BY <1>1, <1>2 DEF TypeOK
<1>4. \A m \in Mux \ {a} : waiters'[m] = waiters[m]
  BY Zenon, <1>1 DEF TypeOK
<1>5. state'[h] = Rouse(state[h]) /\ state'[h] # "SLEEPING"
  BY Zenon, <1>1, <1>2 DEF TypeOK, Rouse
<1>6. \A q \in Procs \ {h} : state'[q] = state[q]
  <2>1. state \in [Procs -> {"RUNNING", "RUNNABLE", "SLEEPING", "ZOMBIE"}]
    BY Zenon DEF TypeOK
  <2> QED BY SMTT(60), <1>1, <2>1
<1>7. 1 \in DOMAIN waiters[a] /\ Queued(h, a)
  BY <1>2, <1>3 DEF Queued
<1>8. ASSUME NEW i \in DOMAIN waiters'[a]
      PROVE  i + 1 \in DOMAIN waiters[a] /\ waiters'[a][i] = waiters[a][i + 1] /\ i + 1 # 1
  <2>1. i \in 1 .. Len(waiters[a]) - 1 /\ i + 1 \in 1 .. Len(waiters[a]) /\ i + 1 # 1
    BY <1>2, <1>3, <1>8
  <2> QED BY Zenon, <1>3, <2>1
<1>9. ASSUME NEW i \in DOMAIN waiters[a], i # 1
      PROVE  i - 1 \in DOMAIN waiters'[a] /\ waiters'[a][i - 1] = waiters[a][i]
  <2>1. i \in 2 .. Len(waiters[a]) /\ i - 1 \in 1 .. Len(waiters[a]) - 1 /\ (i - 1) + 1 = i
    BY <1>2, <1>3, <1>9
  <2> QED BY Zenon, <1>3, <2>1
<1>10. \A i \in DOMAIN waiters'[a] : waiters'[a][i] # h
  <2>1. ASSUME NEW i \in DOMAIN waiters'[a], waiters'[a][i] = h PROVE FALSE
    <3>1. /\ i + 1 \in DOMAIN waiters[a] /\ 1 \in DOMAIN waiters[a] /\ i + 1 # 1
          /\ waiters[a][i + 1] = waiters[a][1]
      BY <1>3, <1>7, <1>8, <2>1
    <3>2. \A k, l \in DOMAIN waiters[a] : waiters[a][k] = waiters[a][l] => k = l
      BY Zenon, <1>1 DEF CvInv
    <3> HIDE DEF h
    <3> QED BY Zenon, <3>1, <3>2
  <2> QED BY Zenon, <2>1
<1> HIDE DEF h
<1>11. CvInv'
  <2>1. ASSUME NEW q \in Procs, NEW m \in Mux, Queued(q, m)'
        PROVE  \/ pc'[q] = "cvw_slept" /\ arg'[q] = m /\ (state'[q] = "SLEEPING" \/ killed'[q])
               \/ pc'[q] \in {"cvw_relock", "exiting", "dead"} /\ killed'[q]
    <3>1. Queued(q, m)
      <4>1. PICK i \in DOMAIN waiters'[m] : waiters'[m][i] = q
        BY Zenon, <2>1 DEF Queued
      <4>2. CASE m = a
        BY <1>8, <4>1, <4>2 DEF Queued
      <4>3. CASE m # a
        BY Zenon, <1>4, <4>1, <4>3 DEF Queued
      <4> QED BY <4>2, <4>3
    <3>2. CASE q = h
      <4>1. m # a
        BY Zenon, <1>10, <2>1, <3>2 DEF Queued
      <4>2. killed[h]
        BY Zenon, <1>1, <1>2, <1>7, <3>1, <3>2, <4>1 DEF CvInv
      <4> QED BY Zenon, <1>1, <3>1, <3>2, <4>2 DEF CvInv
    <3>3. CASE q # h
      BY Zenon, <1>1, <1>6, <3>1, <3>3 DEF CvInv
    <3> QED BY <3>2, <3>3
  <2>2. ASSUME NEW m \in Mux, NEW i \in DOMAIN waiters'[m], NEW j \in DOMAIN waiters'[m],
               waiters'[m][i] = waiters'[m][j]
        PROVE  i = j
    <3>1. CASE m = a
      <4>1. i + 1 = j + 1
        <5>1. /\ i + 1 \in DOMAIN waiters[a] /\ j + 1 \in DOMAIN waiters[a]
              /\ waiters[a][i + 1] = waiters[a][j + 1]
          BY <1>8, <2>2, <3>1
        <5>2. \A k, l \in DOMAIN waiters[a] : waiters[a][k] = waiters[a][l] => k = l
          BY Zenon, <1>1 DEF CvInv
        <5> QED BY Zenon, <5>1, <5>2
      <4>2. i \in Int /\ j \in Int
        BY <1>2, <1>3, <3>1
      <4> QED BY <4>1, <4>2
    <3>2. CASE m # a
      BY ZenonT(60), <1>4, <2>2, <3>2 DEF CvInv
    <3> QED BY <3>1, <3>2
  <2> QED BY Zenon, <2>1, <2>2 DEF CvInv
<1>12. CvStep
  <2>1. SUFFICES ASSUME NEW q \in Procs, InCv(q)' PROVE  InCv(q) /\ (InWseq(q) => InWseq(q)')
    BY Zenon DEF CvStep
  <2>2. q # h
    BY Zenon, <1>5, <2>1 DEF InCv
  <2>3. InCv(q)
    BY Zenon, <1>1, <1>6, <2>1, <2>2 DEF InCv, At
  <2>4. CASE arg[q] = a
    <3>1. SUFFICES ASSUME NEW i \in DOMAIN waiters[a], waiters[a][i] = q
                   PROVE  \E k \in DOMAIN waiters'[a] : waiters'[a][k] = q
      BY Zenon, <1>1, <2>3, <2>4 DEF InWseq
    <3>2. i # 1
      BY Zenon, <1>3, <2>2, <3>1
    <3> QED BY <1>9, <3>1, <3>2
  <2>5. CASE arg[q] # a
    <3>1. arg'[q] = arg[q] /\ waiters'[arg[q]] = waiters[arg[q]]
      BY <1>1, <1>4, <2>5 DEF TypeOK
    <3> QED BY Zenon, <2>3, <3>1 DEF InWseq
  <2> QED BY <2>3, <2>4, <2>5
<1> QED BY <1>11, <1>12

\* mutex_init empties every sequence, and wakes nobody.
LEMMA CvReset ==
  ASSUME TypeOK, NEW p \in Procs, MutexInit(p)
  PROVE  CvInv'
<1>1. \A m \in Mux : waiters'[m] = << >>
  BY DEF MutexInit
<1>2. DOMAIN << >> = {}
  OBVIOUS
<1> QED BY Zenon, <1>1, <1>2 DEF CvInv, Queued

\* The clean-up after a fault finds the process in no sequence: only a process back from
\* cv_wait can fault, and by then a signal has taken it out or a kill has ended it.
LEMMA CvCleanUp ==
  ASSUME TypeOK, SlotOK, CvInv, NEW p \in Procs, FaultWseq(p)
  PROVE  CvInv' /\ CvStep
<1>1. /\ waiters' = [waiters EXCEPT ![slot[p]] = WseqRemove(waiters[slot[p]], p)]
      /\ pc' = [pc EXCEPT ![p] = "fault"] /\ arg' = [arg EXCEPT ![p] = 0]
      /\ killed' = killed /\ state' = state /\ pc[p] = "fault_wseq"
  BY Zenon DEF FaultWseq, At, procVars
<1>2. slot[p] \in Mux
  BY <1>1, MutexAssumption DEF TypeOK, SlotOK, Mux
<1>3. \A i \in DOMAIN waiters[slot[p]] : waiters[slot[p]][i] # p
  <2>1. ~Queued(p, slot[p])
    BY Zenon, <1>1, <1>2 DEF CvInv
  <2> QED BY Zenon, <2>1 DEF Queued
<1>4. waiters[slot[p]] \in Seq(Procs)
  BY <1>2 DEF TypeOK
<1>5. WseqRemove(waiters[slot[p]], p) = waiters[slot[p]]
  BY Zenon, <1>3, <1>4, WseqRemoveNothing
<1>6. waiters' = waiters
  BY Zenon, <1>1, <1>5 DEF TypeOK
<1>7. CvQuiet(p)
  BY <1>1, <1>6 DEF CvQuiet, TypeOK
<1> QED BY Zenon, <1>7, CvQuietStep

\* Every step keeps the invariant; the steps that are no mutex_init are as CvStaysQueued asks.
LEMMA CvNext ==
  ASSUME TypeOK, SlotOK, CvInv, [Next]_vars
  PROVE  CvInv' /\ (CvStep \/ \E q \in Procs : MutexInit(q))
<1>0. CASE UNCHANGED vars
  BY <1>0, CvStill DEF vars, muxVars, procVars, ctlVars
<1>1. ASSUME NEW p \in Procs, SchedPanic(p) \/ ReleasePanic(p) PROVE CvInv' /\ CvStep
  BY Zenon, <1>1, CvStill DEF SchedPanic, ReleasePanic, muxVars, procVars, ctlVars
<1>2. ASSUME NEW p \in Procs, KernelStep(p) PROVE CvInv' /\ CvStep
  BY Zenon, <1>1, <1>2, CvKernelQuiet, CvQuietStep, CvLeave, CvEnter, CvCleanUp DEF KernelStep
<1>3. ASSUME NEW p \in Procs, UserStep(p) PROVE CvInv' /\ (CvStep \/ MutexInit(p))
  BY Zenon, <1>3, CvUserQuiet, CvQuietStep, CvLeave, CvTakeOut, CvReset DEF UserStep
<1> QED BY Zenon, <1>0, <1>2, <1>3 DEF Next

\* A process blocked in cv_wait is in the wait sequence of its mutex, within reach of a
\* cv_signal, until it is woken, or until a mutex_init forgets it: for all programs, any
\* number of processes and of mutexes, and although kill leaves the process it ends in the
\* sequence and the clean-up after a fault calls a wseq_remove that can take out others.
THEOREM MutexCvStaysQueued == Spec => CvStaysQueued
<1>1. Init => CvInv
  <2>1. DOMAIN << >> = {}
    OBVIOUS
  <2>2. Init => \A m \in Mux : waiters[m] = << >>
    BY DEF Init
  <2> QED BY Zenon, <2>1, <2>2 DEF CvInv, Queued
<1>2. TypeOK /\ SlotOK /\ CvInv /\ [Next]_vars => CvInv'
  BY Zenon, CvNext
<1>3. TypeOK /\ SlotOK /\ CvInv /\ [Next]_vars =>
        [\A p \in Procs : InCv(p)' =>
           InWseq(p)' \/ (InCv(p) /\ ~InWseq(p)) \/ \E q \in Procs : MutexInit(q)]_vars
  BY Zenon, CvNext DEF CvStep
<1> QED BY <1>1, <1>2, <1>3, TypeAndSlot, PTL DEF Spec, CvStaysQueued
-----------------------------------------------------------------------------
(* The clean-up after a fault. The programs of SafeCalls that neither delete mutexes nor
   call exec, which empties proc_mutexes, and that were all started by exec, without which
   the slots of proc_mutexes are not -1 but name mutex 0. *)

RecordCalls == SafeCalls /\ Calls \cap {"delete", "exec"} = {} /\ Forked = {}

InFault(p) == pc[p] \in {"fault", "fault_wake", "fault_wseq"}

InLock(p) == pc[p] \in {"lock_acq", "lock_sleep", "lock_slept"}

\* A mutex is locked as long as it has an owner, and is in use; nobody is in
\* mutex_lock of one that is not in use.
OwnedInUse ==
  /\ \A m \in Mux : pid[m] # None => locked[m] /\ used[m]
  /\ \A p \in Procs : InLock(p) => used[arg[p]]

\* proc_mutexes of p names mutexes p owns, each once.
RecordsOwned ==
  \A p \in Procs, i \in Mux : procMutexes[p][i] # -1 =>
    /\ pid[procMutexes[p][i]] = p
    /\ \A j \in Mux : procMutexes[p][j] = procMutexes[p][i] => j = i

\* It names all of them, and the clean-up has none of them behind it.
OwnedRecorded ==
  \A p \in Procs, m \in Mux : pid[m] = p =>
    \E i \in Mux : procMutexes[p][i] = m /\ (InFault(p) => slot[p] <= i)

\* The loop of the clean-up is at a slot it has just emptied, or at its first.
SlotEmptied ==
  \A p \in Procs :
    /\ pc[p] \in {"fault_wake", "fault_wseq"} => slot[p] \in Mux /\ procMutexes[p][slot[p]] = -1
    /\ ~InFault(p) => slot[p] = 0

NotInDelete == \A p \in Procs : ~InDelete(p)

RecordInv == OwnedInUse /\ RecordsOwned /\ OwnedRecorded /\ SlotEmptied /\ NotInDelete

\* n + 1 arguments do not have n values without two having the same.
LEMMA PigeonHole ==
  \A n \in Nat : \A f \in [0 .. n -> 0 .. n - 1] : \E i, j \in 0 .. n : i # j /\ f[i] = f[j]
<1> DEFINE S == {n \in Nat : \A f \in [0 .. n -> 0 .. n - 1] :
                               \E i, j \in 0 .. n : i # j /\ f[i] = f[j]}
<1>1. 0 \in S
  BY SMT
<1>2. ASSUME NEW n \in Nat, n \in S PROVE n + 1 \in S
  <2>0. (n + 1) - 1 = n /\ n + 1 \in Nat
    OBVIOUS
  <2>1. SUFFICES ASSUME NEW f \in [0 .. n + 1 -> 0 .. n],
                        \A i, j \in 0 .. n + 1 : i # j => f[i] # f[j]
                 PROVE  FALSE
    BY Zenon, <2>0
  <2> DEFINE g == [i \in 0 .. n |-> IF f[i] = n THEN f[n + 1] ELSE f[i]]
  <2>2. \A i \in 0 .. n : i \in 0 .. n + 1 /\ n + 1 \in 0 .. n + 1 /\ i # n + 1
    OBVIOUS
  <2>3. \A i \in 0 .. n : f[i] \in 0 .. n /\ f[n + 1] \in 0 .. n /\ f[i] # f[n + 1]
    BY Zenon, <2>1, <2>2
  <2>4. \A k, l \in 0 .. n : k # l /\ k = n => l \in 0 .. n - 1
    OBVIOUS
  <2>5. \A k \in 0 .. n : k # n => k \in 0 .. n - 1
    OBVIOUS
  <2>6. \A i \in 0 .. n : (IF f[i] = n THEN f[n + 1] ELSE f[i]) \in 0 .. n - 1
    BY Zenon, <2>3, <2>4, <2>5
  <2>7. g \in [0 .. n -> 0 .. n - 1]
    BY Zenon, <2>6
  <2>8. PICK i \in 0 .. n, j \in 0 .. n : i # j /\ g[i] = g[j]
    BY Zenon, <1>2, <2>7
  <2>9. f[i] = f[j]
    BY Zenon, <2>3, <2>8
  <2> QED BY Zenon, <2>1, <2>2, <2>8, <2>9
<1>3. \A n \in Nat : n \in S
  BY Zenon, <1>1, <1>2, NatSetInduction
<1> QED BY Zenon, <1>3

\* The slot ReplaceFirst sets is the first with the value.
LEMMA ReplaceFirstAt ==
  ASSUME NEW s \in [Mux -> Mux \cup {-1}], NEW w, NEW f \in Mux,
         \A j \in Mux : j < f => s[j] # s[f]
  PROVE  ReplaceFirst(s, s[f], w) = [s EXCEPT ![f] = w]
<1>1. \A i \in Mux : ~(f < i) /\ ~(i < f) => i = f
  BY MuxFacts
<1>2. ~(f < f)
  BY MuxFacts
<1>3. \A i \in Mux : s[i] = s[f] /\ (\A j \in Mux : j < i => s[j] # s[f]) <=> i = f
  BY Zenon, <1>1, <1>2
<1>4. ReplaceFirst(s, s[f], w) = [i \in Mux |-> IF i = f THEN w ELSE s[i]]
  BY Zenon, <1>3 DEF ReplaceFirst
<1> QED BY Zenon, <1>4

\* A process that does not own m has a free slot to record it in.
LEMMA FreeSlot ==
  ASSUME TypeOK, RecordsOwned, NEW p \in Procs, NEW m \in Mux, pid[m] # p
  PROVE  \E i \in Mux : procMutexes[p][i] = -1
<1> DEFINE s == procMutexes[p]
           f == [i \in Mux |-> IF s[i] = MUX_MAXNUM - 1 THEN m ELSE s[i]]
<1>1. SUFFICES ASSUME \A i \in Mux : s[i] # -1 PROVE FALSE
  BY Zenon
<1>2. \A i \in Mux : s[i] \in Mux /\ s[i] # m /\ \A j \in Mux : s[j] = s[i] => j = i
  <2>1. s \in [Mux -> Mux \cup {-1}]
    BY DEF TypeOK
  <2> QED BY Zenon, <1>1, <2>1 DEF RecordsOwned
<1>3. MUX_MAXNUM - 1 \in Nat /\ Mux = 0 .. MUX_MAXNUM - 1
  BY MutexAssumption DEF Mux
<1> HIDE DEF s
<1>4. \A i \in Mux : f[i] \in 0 .. (MUX_MAXNUM - 1) - 1
  BY <1>2, <1>3
<1>5. f \in [0 .. MUX_MAXNUM - 1 -> 0 .. (MUX_MAXNUM - 1) - 1]
  BY <1>3, <1>4
<1>6. PICK i \in Mux, j \in Mux : i # j /\ f[i] = f[j]
  <2> HIDE DEF f
  <2> QED BY Zenon, <1>3, <1>5, PigeonHole
<1> QED BY Zenon, <1>2, <1>6

\* A step of p that gives no mutex another owner, and leaves the loop of the clean-up where
\* it is.
RecordQuiet(p) ==
  /\ UNCHANGED <<locked, pid, procMutexes, slot>>
  /\ \A m \in Mux : used[m] => used'[m]
  /\ \A q \in Procs \ {p} : pc'[q] = pc[q] /\ arg'[q] = arg[q]
  /\ InLock(p)' => used[arg'[p]] /\ arg'[p] \in Mux
  /\ ~InDelete(p)'
  /\ InFault(p) => InFault(p)'
  /\ pc'[p] \in {"fault_wake", "fault_wseq"} => pc[p] \in {"fault_wake", "fault_wseq"}

\* Such a step keeps the invariant.
LEMMA RecordQuietStep ==
  ASSUME TypeOK, RecordInv, NEW p \in Procs, RecordQuiet(p)
  PROVE  RecordInv'
<1>1. \A q \in Procs : arg[q] \in Mux
  BY DEF TypeOK
<1>2. OwnedInUse'
  <2>1. \A m \in Mux : pid'[m] # None => locked'[m] /\ used'[m]
    BY Zenon DEF RecordInv, OwnedInUse, RecordQuiet
  <2>2. ASSUME NEW q \in Procs, InLock(q)' PROVE used'[arg'[q]]
    <3>1. CASE q = p
      BY Zenon, <2>2, <3>1 DEF RecordQuiet
    <3>2. CASE q # p
      BY Zenon, <1>1, <2>2, <3>2 DEF RecordInv, OwnedInUse, RecordQuiet, InLock
    <3> QED BY <3>1, <3>2
  <2> QED BY Zenon, <2>1, <2>2 DEF OwnedInUse
<1>3. RecordsOwned'
  <2>1. pid' = pid /\ procMutexes' = procMutexes
    BY DEF RecordQuiet
  <2>2. ASSUME NEW q \in Procs, NEW i \in Mux, procMutexes'[q][i] # -1
        PROVE  /\ pid'[procMutexes'[q][i]] = q
               /\ \A j \in Mux : procMutexes'[q][j] = procMutexes'[q][i] => j = i
    <3>1. procMutexes[q][i] # -1
      BY Zenon, <2>1, <2>2
    <3>2. pid[procMutexes[q][i]] = q /\ \A j \in Mux : procMutexes[q][j] = procMutexes[q][i] => j = i
      BY Zenon, <3>1 DEF RecordInv, RecordsOwned
    <3> QED BY Zenon, <2>1, <3>2
  <2> QED BY Zenon, <2>2 DEF RecordsOwned
<1>4. OwnedRecorded'
  <2>1. SUFFICES ASSUME NEW q \in Procs, NEW m \in Mux, pid'[m] = q
                 PROVE  \E i \in Mux : procMutexes'[q][i] = m /\ (InFault(q)' => slot'[q] <= i)
    BY Zenon DEF OwnedRecorded
  <2>2. PICK i \in Mux : procMutexes[q][i] = m /\ (InFault(q) => slot[q] <= i)
    BY Zenon, <2>1 DEF RecordInv, OwnedRecorded, RecordQuiet
  <2>3. 0 <= i
    BY MuxFacts
  <2>4. InFault(q)' => slot[q] <= i
    BY Zenon, <2>2, <2>3 DEF RecordInv, SlotEmptied, RecordQuiet, InFault
  <2> QED BY Zenon, <2>2, <2>4 DEF RecordQuiet
<1>5. SlotEmptied'
  <2>1. SUFFICES ASSUME NEW q \in Procs
                 PROVE  /\ pc'[q] \in {"fault_wake", "fault_wseq"} =>
                             slot[q] \in Mux /\ procMutexes[q][slot[q]] = -1
                        /\ ~InFault(q)' => slot[q] = 0
    BY Zenon DEF SlotEmptied, RecordQuiet
  <2>2. CASE q = p
    BY Zenon, <2>2 DEF RecordInv, SlotEmptied, RecordQuiet
  <2>3. CASE q # p
    BY Zenon, <2>3 DEF RecordInv, SlotEmptied, RecordQuiet, InFault
  <2> QED BY <2>2, <2>3
<1>6. NotInDelete'
  BY Zenon DEF RecordInv, NotInDelete, RecordQuiet, InDelete
<1> QED BY Zenon, <1>2, <1>3, <1>4, <1>5, <1>6 DEF RecordInv

\* A step that only goes to another label.
LEMMA RecordGoto ==
  ASSUME TypeOK, NEW p \in Procs, NEW label, NEW m, Goto(p, label, m),
         UNCHANGED <<locked, pid, procMutexes>>, \A k \in Mux : used[k] => used'[k],
         label \in {"lock_acq", "lock_sleep", "lock_slept"} => used[m] /\ m \in Mux,
         label \notin {"del_waiters", "del_clear"},
         pc[p] \in {"fault", "fault_wake", "fault_wseq"} => label \in {"fault", "fault_wake", "fault_wseq"},
         label \in {"fault_wake", "fault_wseq"} => pc[p] \in {"fault_wake", "fault_wseq"}
  PROVE  RecordQuiet(p)
<1>1. pc' = [pc EXCEPT ![p] = label] /\ arg' = [arg EXCEPT ![p] = m] /\ slot' = slot
  BY Zenon DEF Goto
<1>2. pc \in [Procs -> Labels] /\ arg \in [Procs -> Mux]
  BY Zenon DEF TypeOK
<1>3. pc'[p] = label /\ \A q \in Procs \ {p} : pc'[q] = pc[q]
  BY Zenon, <1>1, <1>2, ExceptAt
<1>4. arg'[p] = m /\ \A q \in Procs \ {p} : arg'[q] = arg[q]
  BY Zenon, <1>1, <1>2, ExceptAt
<1> QED BY Zenon, <1>1, <1>3, <1>4 DEF RecordQuiet, InLock, InFault, InDelete

\* A step that changes neither the table, nor a record, nor where a process is.
LEMMA RecordStill ==
  ASSUME NEW p \in Procs, UNCHANGED <<used, locked, pid, procMutexes, pc, arg, slot>>,
         InLock(p) => used[arg[p]] /\ arg[p] \in Mux, ~InDelete(p)
  PROVE  RecordQuiet(p)
BY Zenon DEF RecordQuiet, InLock, InFault, InDelete

\* The labels of the steps below.
LEMMA RecordLabels ==
  /\ \A l \in {"user", "exiting", "create_ns", "unlock_wake"} :
       l \notin {"lock_acq", "lock_sleep", "lock_slept"} /\ l \notin {"del_waiters", "del_clear"}
       /\ l \notin {"fault", "fault_wake", "fault_wseq"} /\ l \notin {"fault_wake", "fault_wseq"}
  /\ \A l \in {"lock_acq", "lock_sleep", "lock_slept"} :
       l \notin {"del_waiters", "del_clear"} /\ l \notin {"fault", "fault_wake", "fault_wseq"} /\ l \notin {"fault_wake", "fault_wseq"}
  /\ "fault_wake" \in {"fault_wake", "fault_wseq"} /\ "fault_wseq" \in {"fault", "fault_wake", "fault_wseq"}
  /\ "fault_wseq" \notin {"del_waiters", "del_clear"} /\ "fault_wseq" \notin {"lock_acq", "lock_sleep", "lock_slept"}
OBVIOUS

\* The steps of mutex_create, mutex_lock and the others that neither take a mutex nor give
\* one up.
LEMMA RecordKernelQuiet ==
  ASSUME TypeOK, RecordInv, NEW p \in Procs,
         \/ CreateNamespace(p) \/ LockBusy(p) \/ LockSleep(p) \/ LockResume(p) \/ UnlockWakeup(p)
         \/ FaultWakeup(p) \/ SchedPanic(p) \/ ReleasePanic(p)
  PROVE  RecordQuiet(p)
<1>1. arg[p] \in Mux /\ (InLock(p) => used[arg[p]]) /\ ~InDelete(p)
  BY Zenon DEF RecordInv, OwnedInUse, NotInDelete, TypeOK
<1>2. CASE CreateNamespace(p) \/ UnlockWakeup(p)
  <2>1. /\ pc[p] \in {"create_ns", "unlock_wake"} /\ Goto(p, IF killed[p] THEN "exiting" ELSE "user", 0)
        /\ UNCHANGED <<used, locked, pid, procMutexes>>
    BY Zenon, <1>2 DEF CreateNamespace, UnlockWakeup, Return, At, muxVars, procVars
  <2>2. PICK l \in {"user", "exiting"} : l = IF killed[p] THEN "exiting" ELSE "user"
    BY Zenon
  <2> QED BY Zenon, <2>1, <2>2, RecordLabels, RecordGoto
<1>3. CASE LockBusy(p) \/ LockSleep(p) \/ LockResume(p)
  <2>1. PICK l \in {"lock_acq", "lock_sleep", "lock_slept"} :
          /\ pc[p] \in {"lock_acq", "lock_sleep", "lock_slept"} /\ Goto(p, l, arg[p])
          /\ UNCHANGED <<used, locked, pid, procMutexes>>
    BY Zenon, <1>3 DEF LockBusy, LockSleep, LockResume, At, muxVars, procVars
  <2> QED BY Zenon, <1>1, <2>1, RecordLabels, RecordGoto DEF InLock
<1>4. CASE FaultWakeup(p)
  <2>1. pc[p] = "fault_wake" /\ Goto(p, "fault_wseq", arg[p]) /\ UNCHANGED <<used, locked, pid, procMutexes>>
    BY Zenon, <1>4 DEF FaultWakeup, At, muxVars
  <2> QED BY Zenon, <2>1, RecordLabels, RecordGoto
<1>5. CASE SchedPanic(p) \/ ReleasePanic(p)
  <2>1. UNCHANGED <<used, locked, pid, procMutexes, pc, arg, slot>>
    BY Zenon, <1>5 DEF SchedPanic, ReleasePanic, muxVars, procVars, ctlVars
  <2> QED BY Zenon, <1>1, <2>1, RecordStill
<1> QED BY Zenon, <1>2, <1>3, <1>4, <1>5

LEMMA RecordUserQuiet ==
  ASSUME TypeOK, RecordInv, NEW p \in Procs,
         \/ MutexCreate(p) \/ Fault(p)
         \/ \E m \in MuxArgs : MutexLock(p, m) \/ CvSignal(p, m) \/ OutOfBounds(p, m)
         \/ \E q \in Procs : Kill(p, q)
  PROVE  RecordQuiet(p)
<1>1. pc[p] = "user" => ~InLock(p) /\ ~InDelete(p)
  BY Zenon, RecordLabels DEF InLock, InDelete
<1>2. CASE MutexCreate(p)
  <2>1. PICK m \in Mux : /\ used' = [used EXCEPT ![m] = TRUE] /\ Goto(p, "create_ns", m) /\ pc[p] = "user"
                         /\ UNCHANGED <<locked, pid, procMutexes>>
    BY Zenon, <1>2 DEF MutexCreate, Enter, At, procVars
  <2>2. used \in [Mux -> BOOLEAN]
    BY Zenon DEF TypeOK
  <2>3. \A k \in Mux : used[k] => used'[k]
    BY Zenon, <2>1, <2>2, ExceptAt
  <2> QED BY Zenon, <2>1, <2>3, RecordLabels, RecordGoto
<1>3. CASE Fault(p)
  <2>1. /\ UNCHANGED <<used, locked, pid, procMutexes, arg, slot>> /\ pc' = [pc EXCEPT ![p] = "fault"]
    BY Zenon, <1>3 DEF Fault, muxVars
  <2>2. pc \in [Procs -> Labels]
    BY Zenon DEF TypeOK
  <2>3. pc'[p] = "fault" /\ \A q \in Procs \ {p} : pc'[q] = pc[q]
    BY Zenon, <2>1, <2>2, ExceptAt
  <2>4. "fault" \notin {"lock_acq", "lock_sleep", "lock_slept"} \cup {"del_waiters", "del_clear"} \cup {"fault_wake", "fault_wseq"}
    OBVIOUS
  <2> QED BY Zenon, <2>1, <2>3, <2>4 DEF RecordQuiet, InLock, InFault, InDelete
<1>4. ASSUME NEW m \in MuxArgs, MutexLock(p, m) PROVE RecordQuiet(p)
  <2>1. used[m] /\ m \in Mux /\ Goto(p, "lock_acq", m) /\ pc[p] = "user" /\ UNCHANGED <<used, locked, pid, procMutexes>>
    BY Zenon, <1>4 DEF MutexLock, EnterMux, Enter, At, muxVars, procVars
  <2> QED BY Zenon, <2>1, RecordLabels, RecordGoto
<1>5. ASSUME NEW m \in MuxArgs, CvSignal(p, m) \/ OutOfBounds(p, m) PROVE RecordQuiet(p)
  <2>1. pc[p] = "user" /\ UNCHANGED <<used, locked, pid, procMutexes, pc, arg, slot>>
    BY Zenon, <1>5 DEF CvSignal, OutOfBounds, EnterMux, Enter, At, muxVars, procVars, ctlVars
  <2> QED BY Zenon, <1>1, <2>1, RecordStill
<1>6. ASSUME NEW q \in Procs, Kill(p, q) PROVE RecordQuiet(p)
  <2>1. pc[p] = "user" /\ UNCHANGED <<used, locked, pid, procMutexes, pc, arg, slot>>
    BY Zenon, <1>6 DEF Kill, Enter, At, muxVars, ctlVars
  <2> QED BY Zenon, <1>1, <2>1, RecordStill
<1> QED BY Zenon, <1>2, <1>3, <1>4, <1>5, <1>6

\* mutex_lock records the mutex it takes in a free slot.
LEMMA RecordTakes ==
  ASSUME TypeOK, RecordInv, NEW p \in Procs, LockTake(p)
  PROVE  RecordInv'
<1> DEFINE m == arg[p]
           s == procMutexes[p]
<1>1. m \in Mux /\ pid[m] = None /\ used[m] /\ ~InFault(p) /\ s \in [Mux -> Mux \cup {-1}]
  <2>1. pc[p] = "lock_acq" /\ ~locked[m]
    BY Zenon DEF LockTake, At
  <2>2. InLock(p) /\ ~InFault(p)
    BY Zenon, <2>1, RecordLabels DEF InLock, InFault
  <2>3. arg \in [Procs -> Mux] /\ pid \in [Mux -> Procs \cup {None}] /\ procMutexes \in [Procs -> [Mux -> Mux \cup {-1}]]
    BY Zenon DEF TypeOK
  <2>4. m \in Mux /\ s \in [Mux -> Mux \cup {-1}]
    BY Zenon, <2>3
  <2> QED BY Zenon, <2>1, <2>2, <2>4 DEF RecordInv, OwnedInUse
<1>2. pid[m] # p
  BY Zenon, <1>1, MutexAssumption
<1>3. {i \in Mux : s[i] = -1} # {}
  BY Zenon, <1>1, <1>2, FreeSlot DEF RecordInv
<1>4. PICK f \in {i \in Mux : s[i] = -1} : \A j \in {i \in Mux : s[i] = -1} : f <= j
  <2>1. {i \in Mux : s[i] = -1} \in SUBSET Nat
    BY Zenon, MuxFacts
  <2> QED BY Zenon, <1>3, <2>1, LeastElement
<1>5. f \in Mux /\ s[f] = -1 /\ \A j \in Mux : j < f => s[j] # -1
  BY <1>4, MuxFacts
<1>6. ReplaceFirst(s, -1, m) = [s EXCEPT ![f] = m]
  <2> HIDE DEF m, s
  <2>1. ReplaceFirst(s, s[f], m) = [s EXCEPT ![f] = m]
    BY Zenon, <1>1, <1>5, ReplaceFirstAt
  <2> QED BY Zenon, <1>5, <2>1
<1>7. /\ locked' = [locked EXCEPT ![m] = TRUE] /\ pid' = [pid EXCEPT ![m] = p]
      /\ procMutexes' = [procMutexes EXCEPT ![p] = [s EXCEPT ![f] = m]]
      /\ pc' = [pc EXCEPT ![p] = IF killed[p] THEN "exiting" ELSE "user"]
      /\ arg' = [arg EXCEPT ![p] = 0] /\ slot' = slot /\ used' = used
  BY Zenon, <1>6 DEF LockTake, Take, Return, Goto
<1>t. /\ locked \in [Mux -> BOOLEAN] /\ pid \in [Mux -> Procs \cup {None}]
      /\ procMutexes \in [Procs -> [Mux -> Mux \cup {-1}]]
  BY Zenon DEF TypeOK
<1>8. /\ locked'[m] /\ pid'[m] = p
      /\ \A k \in Mux \ {m} : locked'[k] = locked[k] /\ pid'[k] = pid[k]
  BY Zenon, <1>t, <1>1, <1>7, ExceptAt
<1>9. /\ procMutexes'[p][f] = m /\ \A i \in Mux \ {f} : procMutexes'[p][i] = s[i]
      /\ \A q \in Procs \ {p} : procMutexes'[q] = procMutexes[q]
  <2>1. procMutexes'[p] = [s EXCEPT ![f] = m]
    BY Zenon, <1>t, <1>7
  <2>2. \A q \in Procs \ {p} : procMutexes'[q] = procMutexes[q]
    BY SMTT(60), <1>t, <1>7
  <2> HIDE DEF s, m
  <2>3. [s EXCEPT ![f] = m][f] = m /\ \A i \in Mux \ {f} : [s EXCEPT ![f] = m][i] = s[i]
    BY Zenon, <1>1, <1>5, ExceptAt
  <2> QED BY Zenon, <2>1, <2>2, <2>3
<1>10. /\ pc'[p] \in {"exiting", "user"}
       /\ \A q \in Procs \ {p} : pc'[q] = pc[q] /\ arg'[q] = arg[q]
  BY <1>7 DEF TypeOK
<1>11. \A q \in Procs, i \in Mux : procMutexes[q][i] # m
  <2>1. SUFFICES ASSUME NEW q \in Procs, NEW i \in Mux, procMutexes[q][i] = m PROVE FALSE
    BY Zenon
  <2>2. pid[m] = q
    BY <1>1, <2>1, MuxFacts DEF RecordInv, RecordsOwned
  <2> QED BY Zenon, <1>1, <2>2, MutexAssumption
<1>12. m # -1
  BY <1>1, MuxFacts
<1> HIDE DEF m, s
<1>13. OwnedInUse'
  <2>1. \A k \in Mux : pid'[k] # None => locked'[k] /\ used'[k]
    BY Zenon, <1>1, <1>7, <1>8 DEF RecordInv, OwnedInUse
  <2>2. \A q \in Procs : InLock(q)' => used'[arg'[q]]
    <3>1. ~InLock(p)'
      BY <1>10 DEF InLock
    <3> QED BY Zenon, <1>7, <1>10, <3>1 DEF RecordInv, OwnedInUse, InLock
  <2> QED BY Zenon, <2>1, <2>2 DEF OwnedInUse
<1>r. \A q \in Procs : \A i \in Mux : procMutexes[q][i] # -1 => procMutexes[q][i] \in Mux
  <2>1. procMutexes \in [Procs -> [Mux -> Mux \cup {-1}]]
    BY Zenon DEF TypeOK
  <2> QED BY Zenon, <2>1
<1>14. RecordsOwned'
  <2>1. ASSUME NEW q \in Procs, NEW i \in Mux, procMutexes'[q][i] # -1
        PROVE  /\ pid'[procMutexes'[q][i]] = q
               /\ \A j \in Mux : procMutexes'[q][j] = procMutexes'[q][i] => j = i
    <3>1. CASE q = p /\ i = f
      BY ZenonT(60), <1>8, <1>9, <1>11, <3>1 DEF s
    <3>2. CASE q = p /\ i # f
      <4>1. procMutexes'[p][i] = procMutexes[p][i] /\ procMutexes[p][i] # -1 /\ procMutexes[p][i] # m
        BY Zenon, <1>9, <1>11, <2>1, <3>2 DEF s
      <4>2. /\ procMutexes[p][i] \in Mux /\ pid[procMutexes[p][i]] = p
            /\ \A j \in Mux : procMutexes[p][j] = procMutexes[p][i] => j = i
        BY Zenon, <1>r, <4>1 DEF RecordInv, RecordsOwned
      <4>3. pid'[procMutexes'[p][i]] = p
        BY Zenon, <1>8, <4>1, <4>2
      <4>4. \A j \in Mux : procMutexes'[p][j] = procMutexes[p][i] => j = i
        BY Zenon, <1>9, <4>1, <4>2 DEF s
      <4> QED BY Zenon, <3>2, <4>1, <4>3, <4>4
    <3>3. CASE q # p
      <4>1. procMutexes'[q] = procMutexes[q] /\ procMutexes[q][i] # -1 /\ procMutexes[q][i] # m
        BY ZenonT(60), <1>9, <1>11, <2>1, <3>3
      <4>2. /\ procMutexes[q][i] \in Mux /\ pid[procMutexes[q][i]] = q
            /\ \A j \in Mux : procMutexes[q][j] = procMutexes[q][i] => j = i
        BY Zenon, <1>r, <4>1 DEF RecordInv, RecordsOwned
      <4>3. pid'[procMutexes'[q][i]] = q
        BY Zenon, <1>8, <4>1, <4>2
      <4> QED BY Zenon, <4>1, <4>2, <4>3
    <3> QED BY <3>1, <3>2, <3>3
  <2> QED BY Zenon, <2>1 DEF RecordsOwned
<1>15. OwnedRecorded'
  <2>1. SUFFICES ASSUME NEW q \in Procs, NEW k \in Mux, pid'[k] = q
                 PROVE  \E i \in Mux : procMutexes'[q][i] = k /\ (InFault(q)' => slot'[q] <= i)
    BY Zenon DEF OwnedRecorded
  <2>2. ~InFault(p)'
    BY <1>10 DEF InFault
  <2>3. CASE k = m
    <3>1. q = p
      BY Zenon, <1>8, <2>1, <2>3
    <3> QED BY Zenon, <1>5, <1>9, <2>2, <2>3, <3>1
  <2>4. CASE k # m
    <3>1. PICK i \in Mux : procMutexes[q][i] = k /\ (InFault(q) => slot[q] <= i)
      BY Zenon, <1>8, <2>1, <2>4 DEF RecordInv, OwnedRecorded
    <3>2. k # -1
      BY MuxFacts
    <3>3. procMutexes'[q][i] = k
      BY Zenon, <1>5, <1>9, <3>1, <3>2 DEF s
    <3> QED BY Zenon, <1>7, <1>10, <2>2, <3>1, <3>3 DEF InFault
  <2> QED BY <2>3, <2>4
<1>16. SlotEmptied'
  <2>1. SUFFICES ASSUME NEW q \in Procs
                 PROVE  /\ pc'[q] \in {"fault_wake", "fault_wseq"} =>
                             slot[q] \in Mux /\ procMutexes'[q][slot[q]] = -1
                        /\ ~InFault(q)' => slot[q] = 0
    BY Zenon, <1>7 DEF SlotEmptied
  <2>2. CASE q = p
    BY Zenon, <1>1, <1>10, <2>2 DEF RecordInv, SlotEmptied
  <2>3. CASE q # p
    BY Zenon, <1>9, <1>10, <2>3 DEF RecordInv, SlotEmptied, InFault
  <2> QED BY Zenon, <2>2, <2>3
<1>17. NotInDelete'
  BY SMTT(60), <1>10 DEF RecordInv, NotInDelete, InDelete
<1> QED BY Zenon, <1>13, <1>14, <1>15, <1>16, <1>17 DEF RecordInv

\* A slot with a value that no other slot has is the one ReplaceFirst sets.
LEMMA ReplaceOnly ==
  ASSUME TypeOK, NEW p \in Procs, NEW f \in Mux, NEW v, procMutexes[p][f] = v,
         \A j \in Mux : procMutexes[p][j] = v => j = f
  PROVE  ReplaceFirst(procMutexes[p], v, -1) = [procMutexes[p] EXCEPT ![f] = -1]
<1> DEFINE s == procMutexes[p]
<1>1. s \in [Mux -> Mux \cup {-1}]
  BY DEF TypeOK
<1>2. \A j \in Mux : j < f => s[j] # s[f]
  BY MuxFacts
<1>3. \A w : ReplaceFirst(s, s[f], w) = [s EXCEPT ![f] = w]
  <2> HIDE DEF s
  <2> QED BY Zenon, <1>1, <1>2, ReplaceFirstAt
<1> QED BY Zenon, <1>3

\* mutex_unlock, called by the program or by the clean-up for slot f, takes the mutex off
\* the record.
LEMMA RecordDrops ==
  ASSUME TypeOK, RecordInv, NEW p \in Procs, NEW m \in Mux, Drop(p, m),
         NEW f \in Mux, procMutexes[p][f] = m, InFault(p) => slot[p] = f,
         used' = used, slot' = slot,
         \A q \in Procs \ {p} : pc'[q] = pc[q] /\ arg'[q] = arg[q],
         pc'[p] = IF InFault(p) THEN "fault_wake" ELSE "unlock_wake"
  PROVE  RecordInv'
<1>t. /\ locked \in [Mux -> BOOLEAN] /\ pid \in [Mux -> Procs \cup {None}]
      /\ procMutexes \in [Procs -> [Mux -> Mux \cup {-1}]]
  BY Zenon DEF TypeOK
<1>1. /\ pid[m] = p /\ m # -1
      /\ \A j \in Mux : procMutexes[p][j] = m => j = f
  BY MuxFacts DEF RecordInv, RecordsOwned
<1>2. ReplaceFirst(procMutexes[p], m, -1) = [procMutexes[p] EXCEPT ![f] = -1]
  <2>1. \A v : procMutexes[p][f] = v /\ (\A j \in Mux : procMutexes[p][j] = v => j = f) =>
                 ReplaceFirst(procMutexes[p], v, -1) = [procMutexes[p] EXCEPT ![f] = -1]
    BY Zenon, ReplaceOnly
  <2> QED BY Zenon, <1>1, <2>1
<1>3. /\ ~locked'[m] /\ pid'[m] = None
      /\ \A k \in Mux \ {m} : locked'[k] = locked[k] /\ pid'[k] = pid[k]
  BY ZenonT(60), <1>t, ExceptAt DEF Drop
<1>4. /\ procMutexes'[p][f] = -1 /\ \A i \in Mux \ {f} : procMutexes'[p][i] = procMutexes[p][i]
      /\ \A q \in Procs \ {p} : procMutexes'[q] = procMutexes[q]
  <2>1. procMutexes' = [procMutexes EXCEPT ![p] = [procMutexes[p] EXCEPT ![f] = -1]]
    BY Zenon, <1>2 DEF Drop
  <2>2. procMutexes'[p] = [procMutexes[p] EXCEPT ![f] = -1]
    BY Zenon, <1>t, <2>1, ExceptAt
  <2>3. \A q \in Procs \ {p} : procMutexes'[q] = procMutexes[q]
    BY Zenon, <1>t, <2>1, ExceptAt
  <2>4. procMutexes[p] \in [Mux -> Mux \cup {-1}]
    BY Zenon, <1>t
  <2> QED BY Zenon, <2>2, <2>3, <2>4
<1>5. (InFault(p)' <=> InFault(p)) /\ ~InLock(p)' /\ ~InDelete(p)'
  BY Zenon DEF InFault, InLock, InDelete
<1>6. None \notin Procs
  BY MutexAssumption
<1>7. OwnedInUse'
  <2>1. \A k \in Mux : pid'[k] # None => locked'[k] /\ used'[k]
    BY Zenon, <1>3 DEF RecordInv, OwnedInUse
  <2>2. \A q \in Procs : InLock(q)' => used'[arg'[q]]
    BY Zenon, <1>5 DEF RecordInv, OwnedInUse, InLock
  <2> QED BY Zenon, <2>1, <2>2 DEF OwnedInUse
<1>8. RecordsOwned'
  <2>1. ASSUME NEW q \in Procs, NEW i \in Mux, procMutexes'[q][i] # -1
        PROVE  /\ pid'[procMutexes'[q][i]] = q
               /\ \A j \in Mux : procMutexes'[q][j] = procMutexes'[q][i] => j = i
    <3>1. procMutexes'[q][i] = procMutexes[q][i] /\ procMutexes[q][i] # -1
      BY ZenonT(60), <1>4, <2>1
    <3>2. /\ procMutexes[q][i] \in Mux /\ pid[procMutexes[q][i]] = q
          /\ \A j \in Mux : procMutexes[q][j] = procMutexes[q][i] => j = i
      <4>1. /\ pid[procMutexes[q][i]] = q
            /\ \A j \in Mux : procMutexes[q][j] = procMutexes[q][i] => j = i
        BY Zenon, <3>1 DEF RecordInv, RecordsOwned
      <4>2. procMutexes[q][i] \in Mux
        BY SMTT(60), <1>t, <3>1
      <4> QED BY Zenon, <4>1, <4>2
    <3>3. procMutexes[q][i] # m
      <4>1. CASE q = p
        BY Zenon, <1>1, <1>4, <2>1, <4>1
      <4>2. CASE q # p
        BY Zenon, <1>1, <3>2, <4>2
      <4> QED BY <4>1, <4>2
    <3>4. pid'[procMutexes'[q][i]] = q
      BY Zenon, <1>3, <3>1, <3>2, <3>3
    <3>5. \A j \in Mux : procMutexes'[q][j] = procMutexes[q][i] => j = i
      BY Zenon, <1>4, <3>1, <3>2
    <3> QED BY Zenon, <3>1, <3>4, <3>5
  <2> QED BY Zenon, <2>1 DEF RecordsOwned
<1>9. OwnedRecorded'
  <2>1. SUFFICES ASSUME NEW q \in Procs, NEW k \in Mux, pid'[k] = q
                 PROVE  \E i \in Mux : procMutexes'[q][i] = k /\ (InFault(q)' => slot'[q] <= i)
    BY Zenon DEF OwnedRecorded
  <2>2. k # m /\ pid[k] = q
    BY Zenon, <1>3, <1>6, <2>1
  <2>3. PICK i \in Mux : procMutexes[q][i] = k /\ (InFault(q) => slot[q] <= i)
    BY Zenon, <2>2 DEF RecordInv, OwnedRecorded
  <2>4. procMutexes'[q][i] = k
    BY Zenon, <1>4, <2>2, <2>3
  <2>5. InFault(q)' => InFault(q)
    BY ZenonT(60), <1>5 DEF InFault
  <2> QED BY Zenon, <2>3, <2>4, <2>5
<1>10. SlotEmptied'
  <2>1. SUFFICES ASSUME NEW q \in Procs
                 PROVE  /\ pc'[q] \in {"fault_wake", "fault_wseq"} =>
                             slot[q] \in Mux /\ procMutexes'[q][slot[q]] = -1
                        /\ ~InFault(q)' => slot[q] = 0
    BY Zenon DEF SlotEmptied
  <2>2. CASE q = p
    BY Zenon, <1>4, <1>5, <2>2 DEF RecordInv, SlotEmptied
  <2>3. CASE q # p
    BY Zenon, <1>4, <2>3 DEF RecordInv, SlotEmptied, InFault
  <2> QED BY <2>2, <2>3
<1>11. NotInDelete'
  BY Zenon, <1>5 DEF RecordInv, NotInDelete, InDelete
<1> QED BY Zenon, <1>7, <1>8, <1>9, <1>10, <1>11 DEF RecordInv

\* The loop of the clean-up goes past a slot that is empty, and ends.
LEMMA RecordAdvances ==
  ASSUME TypeOK, RecordInv, NEW p \in Procs, UNCHANGED <<used, locked, pid, procMutexes>>,
         \A q \in Procs \ {p} : pc'[q] = pc[q] /\ arg'[q] = arg[q] /\ slot'[q] = slot[q],
         \/ pc'[p] = "fault" /\ procMutexes[p][slot[p]] = -1 /\ slot'[p] = slot[p] + 1 /\ InFault(p)
         \/ pc'[p] = "dead" /\ slot'[p] = 0
  PROVE  RecordInv'
<1>1. ~InLock(p)' /\ ~InDelete(p)' /\ pc'[p] \notin {"fault_wake", "fault_wseq"}
  <2>1. /\ "fault" \notin {"lock_acq", "lock_sleep", "lock_slept"} \cup {"del_waiters", "del_clear"} \cup {"fault_wake", "fault_wseq"}
        /\ "dead" \notin {"lock_acq", "lock_sleep", "lock_slept"} \cup {"del_waiters", "del_clear"} \cup {"fault_wake", "fault_wseq"}
    BY Zenon
  <2> QED BY Zenon, <2>1 DEF InLock, InDelete
<1>2. InFault(p)' \/ slot'[p] = 0
  BY DEF InFault
<1>3. OwnedInUse'
  <2>1. \A k \in Mux : pid'[k] # None => locked'[k] /\ used'[k]
    BY Zenon DEF RecordInv, OwnedInUse
  <2>2. \A q \in Procs : InLock(q)' => used'[arg'[q]]
    BY Zenon, <1>1 DEF RecordInv, OwnedInUse, InLock
  <2> QED BY Zenon, <2>1, <2>2 DEF OwnedInUse
<1>4. RecordsOwned'
  BY DEF RecordInv, RecordsOwned
<1>5. OwnedRecorded'
  <2>1. SUFFICES ASSUME NEW q \in Procs, NEW k \in Mux, pid[k] = q
                 PROVE  \E i \in Mux : procMutexes[q][i] = k /\ (InFault(q)' => slot'[q] <= i)
    BY ZenonT(60) DEF OwnedRecorded
  <2>2. PICK i \in Mux : procMutexes[q][i] = k /\ (InFault(q) => slot[q] <= i)
    BY Zenon, <2>1 DEF RecordInv, OwnedRecorded
  <2>3. i \in Nat /\ k # -1 /\ slot[q] \in Nat
    <3>1. slot \in [Procs -> 0 .. MUX_MAXNUM]
      BY Zenon DEF TypeOK
    <3> QED BY Zenon, <3>1, MuxFacts, MutexAssumption
  <2>4. InFault(q)' => slot'[q] <= i
    <3>1. CASE q = p
      <4>1. CASE pc'[p] = "fault" /\ procMutexes[p][slot[p]] = -1 /\ slot'[p] = slot[p] + 1 /\ InFault(p)
        <5>1. slot[p] <= i /\ slot[p] # i /\ slot[p] \in Nat /\ slot'[q] = slot[p] + 1
          BY ZenonT(60), <2>2, <2>3, <3>1, <4>1
        <5>2. slot[p] + 1 <= i
          BY <2>3, <5>1
        <5> QED BY Zenon, <5>1, <5>2
      <4>2. CASE pc'[p] = "dead" /\ slot'[p] = 0
        <5>1. 0 <= i
          BY <2>3
        <5> QED BY Zenon, <3>1, <4>2, <5>1
      <4> QED BY Zenon, <4>1, <4>2
    <3>2. CASE q # p
      BY Zenon, <2>2, <3>2 DEF InFault
    <3> QED BY Zenon, <3>1, <3>2
  <2> QED BY Zenon, <2>2, <2>4
<1>6. SlotEmptied'
  BY Zenon, <1>1, <1>2 DEF RecordInv, SlotEmptied, InFault
<1>7. NotInDelete'
  BY Zenon, <1>1 DEF RecordInv, NotInDelete, InDelete
<1> QED BY Zenon, <1>3, <1>4, <1>5, <1>6, <1>7 DEF RecordInv

\* Every step of the programs of RecordCalls keeps the invariant.
LEMMA RecordStep ==
  ASSUME RecordCalls, TypeOK, SlotOK, NotInCv, RecordInv, [Next]_vars
  PROVE  RecordInv'
<1>0. CASE UNCHANGED vars
  <2>1. UNCHANGED <<used, locked, pid, procMutexes, pc, arg, slot>>
    BY Zenon, <1>0 DEF vars, muxVars, procVars, ctlVars
  <2>2. OwnedInUse' /\ RecordsOwned'
    BY Zenon, <2>1 DEF RecordInv, OwnedInUse, RecordsOwned, InLock
  <2>3. OwnedRecorded' /\ SlotEmptied' /\ NotInDelete'
    BY Zenon, <2>1 DEF RecordInv, OwnedRecorded, SlotEmptied, NotInDelete, InFault, InDelete
  <2> QED BY Zenon, <2>2, <2>3 DEF RecordInv
<1>1. ASSUME NEW p \in Procs, FaultSkip(p) \/ FaultWseq(p) PROVE RecordInv'
  <2>1. /\ UNCHANGED <<used, locked, pid, procMutexes>>
        /\ slot' = [slot EXCEPT ![p] = slot[p] + 1] /\ InFault(p)
    BY Zenon, <1>1 DEF FaultSkip, FaultWseq, InFault, At, muxVars, procVars
  <2>2. procMutexes[p][slot[p]] = -1
    <3>1. "fault_wseq" \in {"fault_wake", "fault_wseq"}
      BY Zenon
    <3> QED BY Zenon, <1>1, <3>1 DEF FaultSkip, FaultWseq, At, RecordInv, SlotEmptied
  <2>3. pc'[p] = "fault" /\ \A q \in Procs \ {p} : pc'[q] = pc[q] /\ arg'[q] = arg[q]
    BY Zenon, <1>1 DEF FaultSkip, FaultWseq, At, TypeOK
  <2>4. slot'[p] = slot[p] + 1 /\ \A q \in Procs \ {p} : slot'[q] = slot[q]
    BY <2>1 DEF TypeOK
  <2> QED BY ZenonT(60), <2>1, <2>2, <2>3, <2>4, RecordAdvances
<1>2. ASSUME NEW p \in Procs, FaultExit(p) \/ Exit(p) PROVE RecordInv'
  <2>1. UNCHANGED <<used, locked, pid, procMutexes>> /\ Die(p)
    BY Zenon, <1>2 DEF FaultExit, Exit, muxVars
  <2>2. /\ pc'[p] = "dead" /\ slot'[p] = 0
        /\ \A q \in Procs \ {p} : pc'[q] = pc[q] /\ arg'[q] = arg[q] /\ slot'[q] = slot[q]
    BY <2>1 DEF Die, TypeOK
  <2> QED BY Zenon, <2>1, <2>2, RecordAdvances
<1>3. ASSUME NEW p \in Procs, FaultUnlock(p) PROVE RecordInv'
  <2> DEFINE f == slot[p]
             m == procMutexes[p][slot[p]]
  <2>1. /\ pc[p] = "fault" /\ Drop(p, m) /\ m # -1 /\ used' = used /\ slot' = slot
        /\ pc' = [pc EXCEPT ![p] = "fault_wake"] /\ arg' = [arg EXCEPT ![p] = m]
    BY Zenon, <1>3 DEF FaultUnlock, Goto, At
  <2>2. f \in Mux
    <3>1. slot \in [Procs -> 0 .. MUX_MAXNUM]
      BY Zenon DEF TypeOK
    <3>2. slot[p] \in 0 .. MUX_MAXNUM /\ slot[p] < MUX_MAXNUM
      BY Zenon, <1>3, <3>1 DEF FaultUnlock
    <3> QED BY SMTT(60), <3>2, MuxFacts
  <2>3. m \in Mux
    <3>1. procMutexes \in [Procs -> [Mux -> Mux \cup {-1}]]
      BY Zenon DEF TypeOK
    <3> QED BY Zenon, <2>1, <2>2, <3>1
  <2>4. /\ \A q \in Procs \ {p} : pc'[q] = pc[q] /\ arg'[q] = arg[q]
        /\ pc'[p] = "fault_wake" /\ InFault(p)
    BY <2>1 DEF TypeOK, InFault
  <2> HIDE DEF m
  <2> QED BY Zenon, <2>1, <2>2, <2>3, <2>4, RecordDrops DEF m
<1>4. ASSUME NEW p \in Procs, NEW m \in MuxArgs, MutexUnlock(p, m) PROVE RecordInv'
  <2>1. /\ pc[p] = "user" /\ Drop(p, m) /\ pid[m] = p /\ m \in Mux /\ used' = used /\ slot' = slot
        /\ pc' = [pc EXCEPT ![p] = "unlock_wake"] /\ arg' = [arg EXCEPT ![p] = m]
    BY Zenon, <1>4 DEF MutexUnlock, Owned, EnterMux, Enter, Goto, At
  <2>2. PICK f \in Mux : procMutexes[p][f] = m
    BY Zenon, <2>1 DEF RecordInv, OwnedRecorded
  <2>3. /\ \A q \in Procs \ {p} : pc'[q] = pc[q] /\ arg'[q] = arg[q]
        /\ pc'[p] = "unlock_wake" /\ ~InFault(p)
    BY <2>1 DEF TypeOK, InFault
  <2> QED BY ZenonT(60), <2>1, <2>2, <2>3, RecordDrops
<1>5. ASSUME NEW p \in Procs, FaultRefused(p) PROVE FALSE
  <2>1. slot[p] \in Mux /\ procMutexes[p][slot[p]] # -1
    <3>1. slot \in [Procs -> 0 .. MUX_MAXNUM]
      BY Zenon DEF TypeOK
    <3>2. slot[p] \in 0 .. MUX_MAXNUM /\ slot[p] < MUX_MAXNUM /\ procMutexes[p][slot[p]] # -1
      BY Zenon, <1>5, <3>1 DEF FaultRefused
    <3> QED BY SMTT(60), <3>2, MuxFacts
  <2>2. procMutexes[p][slot[p]] \in Mux /\ pid[procMutexes[p][slot[p]]] = p
    BY <2>1 DEF TypeOK, RecordInv, RecordsOwned
  <2>3. used[procMutexes[p][slot[p]]]
    BY Zenon, <2>2, MutexAssumption DEF RecordInv, OwnedInUse
  <2> QED BY ZenonT(60), <1>5, <2>2, <2>3 DEF FaultRefused, Owned
<1>6. ASSUME NEW p \in Procs,
             \/ DeleteWaiters(p) \/ DeleteClear(p) \/ CvWaitRefuse(p) \/ CvWaitFull(p)
             \/ CvWaitSleep(p) \/ CvWaitResume(p) \/ CvWaitRelock(p)
      PROVE  FALSE
  BY ZenonT(60), <1>6 DEF DeleteWaiters, DeleteClear, CvWaitRefuse, CvWaitFull, CvWaitSleep, CvWaitResume,
              CvWaitRelock, At, NotInCv, RecordInv, NotInDelete, InDelete
<1>7. ASSUME NEW p \in Procs,
             MutexInit(p) \/ Exec(p) \/ \E m \in MuxArgs : MutexDelete(p, m) \/ CvWait(p, m)
      PROVE  FALSE
  BY Zenon, <1>7 DEF MutexInit, Exec, MutexDelete, CvWait, EnterMux, Enter, RecordCalls, SafeCalls
<1>8. ASSUME NEW p \in Procs, KernelStep(p) PROVE RecordInv'
  BY Zenon, <1>1, <1>2, <1>3, <1>5, <1>6, <1>8, RecordKernelQuiet, RecordQuietStep, RecordTakes DEF KernelStep
<1>9. ASSUME NEW p \in Procs, UserStep(p) PROVE RecordInv'
  BY Zenon, <1>2, <1>4, <1>7, <1>9, RecordUserQuiet, RecordQuietStep DEF UserStep
<1> QED BY ZenonT(60), <1>0, <1>8, <1>9 DEF Next

\* A process that faults gives up every mutex it had locked: proc_mutexes never overflows,
\* and the loop of trap over it meets every mutex of which the process is the owner. This is
\* for any number of processes, CPUs and mutexes, and for programs that lock, unlock,
\* signal, are killed, exit and fault, as long as none deletes or resets mutexes, waits in
\* cv_wait, or calls exec again.
THEOREM MutexFaultUnlocksAll == RecordCalls => (Spec => []FaultUnlocksAll)
<1>1. SUFFICES ASSUME RecordCalls PROVE Spec => []FaultUnlocksAll
  BY Zenon
<1>2. Init => RecordInv
  <2>1. SUFFICES ASSUME Init PROVE RecordInv
    BY Zenon
  <2>2. /\ \A m \in Mux : pid[m] = None
        /\ \A p \in Procs : pc[p] = "user" /\ slot[p] = 0
        /\ \A p \in Procs, i \in Mux : procMutexes[p][i] = -1
    BY <1>1, <2>1 DEF Init, RecordCalls
  <2> QED BY <2>2, MutexAssumption DEF RecordInv, OwnedInUse, RecordsOwned, OwnedRecorded,
             SlotEmptied, NotInDelete, InLock, InFault, InDelete
<1>3. TypeOK /\ SlotOK /\ SafeInv /\ RecordInv /\ [Next]_vars => RecordInv'
  BY Zenon, <1>1, RecordStep DEF SafeInv
<1>4. TypeOK /\ RecordInv => FaultUnlocksAll
  <2>1. SUFFICES ASSUME TypeOK, RecordInv, NEW p \in Procs, NEW m \in Mux,
                        pc[p] = "fault", slot[p] = MUX_MAXNUM, pid[m] = p
                 PROVE  FALSE
    BY Zenon DEF FaultUnlocksAll, At
  <2>2. PICK i \in Mux : slot[p] <= i
    BY <2>1 DEF RecordInv, OwnedRecorded, InFault
  <2> QED BY <2>1, <2>2, MuxFacts
<1>5. Spec => [](TypeOK /\ SafeInv)
  BY <1>1, SafeInvariant DEF RecordCalls
<1> QED BY <1>2, <1>3, <1>4, <1>5, TypeAndSlot, PTL DEF Spec
=============================================================================
