---------------------------- MODULE Transactions ----------------------------
(***************************************************************************)
(* What the log of log.c promises to the file system calls.  The updates   *)
(* made between begin_op and end_op are seen at once by everybody, and     *)
(* reach the disk all together, in a commit that waits until no call is    *)
(* active.  A crash loses what has not been committed, and nothing else.   *)
(***************************************************************************)
CONSTANTS
  Procs,    \* the processes that make file system calls
  Blocks,   \* numbers of the blocks outside the log
  Vals      \* contents of a block

VARIABLES
  durable,  \* what the disk holds after a crash and the recovery
  current,  \* what bread returns
  active    \* the processes between begin_op and end_op

vars == <<durable, current, active>>

Init ==
  /\ durable \in [Blocks -> Vals]
  /\ current = durable
  /\ active = {}

\* A transaction starts only when the one before is on the disk.
Begin(p) ==
  /\ p \notin active
  /\ active # {} \/ current = durable
  /\ active' = active \cup {p}
  /\ UNCHANGED <<durable, current>>

Write(p, b, v) ==
  /\ p \in active
  /\ current' = [current EXCEPT ![b] = v]
  /\ UNCHANGED <<durable, active>>

End(p) ==
  /\ p \in active
  /\ active' = active \ {p}
  /\ UNCHANGED <<durable, current>>

Commit ==
  /\ active = {}
  /\ durable' = current
  /\ UNCHANGED <<current, active>>

Crash ==
  /\ current' = durable
  /\ active' = {}
  /\ UNCHANGED durable

Next ==
  \/ \E p \in Procs : Begin(p) \/ End(p) \/ \E b \in Blocks, v \in Vals : Write(p, b, v)
  \/ Commit
  \/ Crash

Spec == Init /\ [][Next]_vars
=============================================================================
