------------------------------- MODULE Store -------------------------------
(***************************************************************************)
(* What the buffer cache promises its callers: a block has one value, one  *)
(* process at a time has it in hand, and sees the value last given to it.  *)
(***************************************************************************)
CONSTANTS Procs, Blocks, Values

VARIABLES value, view

NoView == [block |-> "none", value |-> "none"]

Init == value \in [Blocks -> Values] /\ view = [p \in Procs |-> NoView]

Take(p, b) ==
  /\ view[p] = NoView /\ \A q \in Procs : view[q].block # b
  /\ view' = [view EXCEPT ![p] = [block |-> b, value |-> value[b]]]
  /\ UNCHANGED value

Change(p, b, v) ==
  /\ view[p].block = b
  /\ value' = [value EXCEPT ![b] = v]
  /\ view' = [view EXCEPT ![p].value = v]

Drop(p) ==
  /\ view[p] # NoView
  /\ view' = [view EXCEPT ![p] = NoView]
  /\ UNCHANGED value

Next ==
  \E p \in Procs : \/ \E b \in Blocks : Take(p, b) \/ \E v \in Values : Change(p, b, v)
                   \/ Drop(p)

Spec == Init /\ [][Next]_<<value, view>>
=============================================================================
