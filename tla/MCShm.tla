------------------------------- MODULE MCShm -------------------------------
(* Instances of Shm for TLC. *)
EXTENDS Shm, TLC

\* Processes that map, unmap, make children and end.
ShareCalls == {"shm_get", "shm_rem", "fork", "exit", "wait", "sbrk", "exec"}

\* sbrk by one page.
PageSteps == {-2, 2}

Symmetry == Permutations(Names) \cup Permutations(Frames) \cup Permutations(Procs \ {First})
=============================================================================
