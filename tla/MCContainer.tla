---------------------------- MODULE MCContainer ----------------------------
(* Instances of Container for TLC. *)
EXTENDS Container, TLC

Abs(s) == [abs |-> TRUE, elem |-> s]
Rel(s) == [abs |-> FALSE, elem |-> s]

SomePaths == {Abs(<<"a">>), Abs(<<"a", "b">>), Rel(<<"..">>)}
Links     == {Abs(<<"b">>), Abs(<<"a", "b">>)}

Dir(up, n, ent) == [type |-> "T_DIR", nlink |-> n, ent |-> ent @@ NoEntries, up |-> up]
File            == [Free EXCEPT !.type = "T_FILE", !.nlink = 1]

\* /a/b is a file, open in every process.
OneFile ==
  [dinode |-> (1 :> Dir(1, 2, "a" :> 2) @@ 2 :> Dir(1, 1, "b" :> 3) @@ 3 :> File) @@ [i \in Inum |-> Free],
   cwd |-> [p \in Procs |-> 1], open |-> <<3>>]

\* /a/b is a directory, where every process is.
TwoDirs ==
  [dinode |-> (1 :> Dir(1, 2, "a" :> 2) @@ 2 :> Dir(1, 2, "b" :> 3) @@ 3 :> Dir(2, 1, << >>)) @@ [i \in Inum |-> Free],
   cwd |-> [p \in Procs |-> 3], open |-> << >>]

\* /a is a directory with nothing in it.
OneDir ==
  [dinode |-> (1 :> Dir(1, 2, "a" :> 2) @@ 2 :> Dir(1, 1, << >>)) @@ [i \in Inum |-> Free],
   cwd |-> [p \in Procs |-> 1], open |-> << >>]

SomeStarts == {OneDir, OneFile, TwoDirs}
Sym == Permutations(Procs)
=============================================================================
