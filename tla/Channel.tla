------------------------------ MODULE Channel ------------------------------
(***************************************************************************)
(* What a pipe promises: bytes pass from writers to readers in order, each *)
(* once, and never more than Size of them wait.  A write hands its bytes   *)
(* over in portions and may give up; what it handed over is lost only when *)
(* nobody can read any more.                                               *)
(***************************************************************************)
EXTENDS Naturals, Sequences

CONSTANTS Procs, Messages, Size

VARIABLES todo, queue, got, readable

vars == <<todo, queue, got, readable>>

Init ==
  /\ todo = [p \in Procs |-> << >>]
  /\ queue = << >>
  /\ got = << >>
  /\ readable = FALSE

\* The first k bytes of s, and what follows them.
Prefix(s, k) == SubSeq(s, 1, k)
Rest(s, k)  == SubSeq(s, k + 1, Len(s))

Open == ~readable /\ readable' = TRUE /\ UNCHANGED <<todo, queue>>

Begin(p) ==
  /\ todo[p] = << >>
  /\ \E m \in Messages : todo' = [todo EXCEPT ![p] = m]
  /\ UNCHANGED <<queue, readable>>

Put(p) ==
  /\ \E k \in 1 .. Len(todo[p]) :
       /\ queue' = queue \o Prefix(todo[p], k)
       /\ todo' = [todo EXCEPT ![p] = Rest(@, k)]
  /\ Len(queue') <= Size
  /\ UNCHANGED readable

\* A write that was killed, or that has no reader, returns an error; it may
\* have handed over some bytes first.
GiveUp(p) ==
  /\ \E k \in 0 .. Len(todo[p]) : queue' = queue \o Prefix(todo[p], k)
  /\ todo' = [todo EXCEPT ![p] = << >>]
  /\ Len(queue') <= Size
  /\ UNCHANGED readable

\* A read returns the oldest bytes.
Take ==
  /\ \E k \in 1 .. Len(queue) : got' = Prefix(queue, k) /\ queue' = Rest(queue, k)
  /\ UNCHANGED <<todo, readable>>

Close == readable /\ readable' = FALSE /\ queue' \in {queue, << >>} /\ UNCHANGED todo

Free == ~readable /\ queue' = << >> /\ UNCHANGED <<todo, readable>>

Idle == UNCHANGED <<todo, queue, readable>>

Next ==
  \/ Take
  \/ /\ Open \/ Close \/ Free \/ Idle \/ \E p \in Procs : Begin(p) \/ Put(p) \/ GiveUp(p)
     /\ got' = << >>

Spec == Init /\ [][Next]_vars
=============================================================================
