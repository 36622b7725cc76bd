------------------------------ MODULE MCMutex ------------------------------
(* Instances of Mutex for TLC. *)
EXTENDS Mutex, TLC

OneNamespace == [p \in Procs |-> 0]

Symmetry == Permutations(Procs)

\* Programs that lock and unlock, and are killed, exit or fault.
LockCalls == {"create", "lock", "unlock", "kill", "exit", "fault"}

\* Programs that also delete mutexes, wait and signal.
CvCalls == LockCalls \cup {"delete", "cv_wait", "cv_signal"}

\* The same with exec, and with mutex_init, as every shm_get of a new page
\* calls it. Processes end only when they are killed: one that exits or faults
\* by itself is in no wait sequence.
TableCalls == (CvCalls \ {"exit", "fault"}) \cup {"exec", "mutex_init"}
=============================================================================
