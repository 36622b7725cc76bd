-------------------------------- MODULE Wseq --------------------------------
(***************************************************************************)
(* wseq_remove of proc.c: takes a pid out of the wait sequence of a        *)
(* condition variable, an array cv.waiters with its length num_waiters.    *)
(***************************************************************************)
EXTENDS Integers, Sequences

\* The inner loop, entered with the pid at index i: it starts at 0, not at i,
\* and shortens the array once per element it moves.
RemoveAt(w, i) ==
  LET moved == (Len(w) - i) \div 2  \* iterations until j >= num_waiters - i - 1
  IN  [j \in 1 .. Len(w) - moved |-> IF j <= moved THEN w[j + 1] ELSE w[j]]

\* The outer loop's round for index i - 1, with v the array it finds.
Round(v, i, p) == IF i <= Len(v) /\ v[i] = p THEN RemoveAt(v, i - 1) ELSE v

WseqRemove(w, p) ==
  LET scan[i \in 0 .. Len(w)] == IF i = 0 THEN w ELSE Round(scan[i - 1], i, p)
  IN  scan[Len(w)]
=============================================================================
