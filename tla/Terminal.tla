------------------------------ MODULE Terminal ------------------------------
(***************************************************************************)
(* What the console promises those who read it: characters typed are       *)
(* edited as a line, the line is sent when it ends (or fills the buffer),  *)
(* and what was sent is read once and in order. A ^D ends a read and is    *)
(* not part of what it returns.                                            *)
(***************************************************************************)
EXTENDS Integers, Sequences, SequencesExt

CONSTANTS Readers, Chars, Size

VARIABLES edit, sent, got

Init == edit = << >> /\ sent = << >> /\ got = [p \in Readers |-> << >>]

Type(c) ==
  /\ Len(edit) + Len(sent) < Size
  /\ IF c \in {"nl", "^D"} \/ Len(edit) + Len(sent) + 1 = Size
     THEN edit' = << >> /\ sent' = sent \o Append(edit, c)
     ELSE edit' = Append(edit, c) /\ UNCHANGED sent
  /\ UNCHANGED got

Erase    == edit # << >> /\ edit' = Front(edit) /\ UNCHANGED <<sent, got>>
KillLine == edit' = << >> /\ UNCHANGED <<sent, got>>

\* The read of p goes on with the next character; only an empty one is ended by ^D.
Take(p) ==
  /\ sent # << >> /\ sent' = Tail(sent) /\ UNCHANGED edit
  /\ IF Head(sent) = "^D" THEN got[p] = << >> /\ UNCHANGED got
     ELSE got' = [got EXCEPT ![p] = Append(@, Head(sent))]

\* A read returns what it has got.
Return(p) == got' = [got EXCEPT ![p] = << >>] /\ UNCHANGED <<edit, sent>>

Next ==
  \/ \E c \in Chars : Type(c)
  \/ Erase \/ KillLine
  \/ \E p \in Readers : Take(p) \/ Return(p)

Spec == Init /\ [][Next]_<<edit, sent, got>>
=============================================================================
