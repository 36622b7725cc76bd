-------------------------------- MODULE Files ------------------------------
(***************************************************************************)
(* What the file system promises about the life of a file: from its        *)
(* allocation it lives while it has a name or a process holds it, and its  *)
(* names come and go one at a time.                                        *)
(***************************************************************************)
EXTENDS Naturals

CONSTANTS Inum, Names, Root

VARIABLES
  alive,         \* inodes that are allocated
  ent,           \* ent[d][n]: the inode that directory d has under name n, or 0
  held           \* inodes that a process or an open file holds

Init ==
  /\ Root \in alive /\ alive \subseteq Inum
  /\ ent \in [Inum -> [Names -> alive \cup {0}]]
  /\ held \subseteq alive

Named(i) == \E d \in Inum, n \in Names : ent[d][n] = i

Allocate == \E i \in Inum \ alive : alive' = alive \cup {i} /\ UNCHANGED <<ent, held>>

\* A directory gets a name for a file that is alive, or loses one.
Name ==
  \E d \in alive, n \in Names :
    /\ ent'[d][n] \in IF ent[d][n] = 0 THEN alive ELSE {0}
    /\ ent' = [ent EXCEPT ![d][n] = ent'[d][n]]
    /\ UNCHANGED <<alive, held>>

\* Processes come to hold what is alive, and let it go.
Hold == held' \subseteq alive /\ UNCHANGED <<alive, ent>>

\* The end of a file, with the names it has if it is a directory.
Destroy ==
  \E i \in alive \ (held \cup {Root}) :
    /\ alive' = alive \ {i}
    /\ ~Named(i)
    /\ ent' = [ent EXCEPT ![i] = [n \in Names |-> 0]]
    /\ UNCHANGED held

Next == Allocate \/ Name \/ Hold \/ Destroy

Spec == Init /\ [][Next]_<<alive, ent, held>>
=============================================================================
