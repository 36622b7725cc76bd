----------------------------- MODULE MCProcess -----------------------------
(* Instances of Process for TLC. *)
EXTENDS Process

\* Processes that make children, wait for them and kill them.
FamilyCalls == {"fork", "exit", "wait", "kill"}

\* The same with the sleep of a driver, a pipe or the log.
SleepCalls == FamilyCalls \cup {"sleep"}

\* Processes that make children and wait for them, and choose priorities.
FamilyPrioCalls == {"fork", "exit", "wait", "prio_set"}
=============================================================================
