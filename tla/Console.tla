------------------------------ MODULE Console ------------------------------
(***************************************************************************)
(* The console (console.c): the input ring that consoleintr edits and      *)
(* consoleread empties, and the cursor that the echo and consolewrite move *)
(* on the screen. cons.lock is held for a whole interrupt and for a read   *)
(* from one sleep to the next. ^P only prints.                             *)
(***************************************************************************)
EXTENDS Integers, Sequences, SequencesExt

CONSTANTS
  Readers,     \* processes that read the console
  Free,        \* nobody, as the holder of cons.lock
  INPUT_BUF,
  UIntMod,     \* 2^32 in the code: the indices are unsigned and wrap around
  COLS, ROWS,  \* 80 and 24
  Wanted       \* the n of consoleread

\* The ring's place of an index survives the wraparound, the line being edited fits
\* above the last row.
ASSUME ConsoleAssumption ==
  /\ INPUT_BUF \in Nat \ {0} /\ UIntMod % INPUT_BUF = 0 /\ UIntMod > INPUT_BUF
  /\ INPUT_BUF <= (ROWS - 1) * COLS

VARIABLES
  input,    \* buf, r, w, e
  pos,      \* the cursor
  cons,     \* holder of cons.lock
  reader    \* of each process: where it is in consoleread, n, what it copied, killed

consoleVars == <<input, pos, cons, reader>>

Typed    == {"a", "cr", "^D"}
NoRead   == [pc |-> "idle", n |-> 0, got |-> << >>, killed |-> FALSE]
Add(i, k) == (i + k) % UIntMod
CharAt(i) == input.buf[i % INPUT_BUF]
-----------------------------------------------------------------------------
Scroll(at) == IF at \div COLS >= ROWS THEN at - COLS ELSE at

\* The cursor after c at a place
Cgaputc(at, c) ==
  Scroll(CASE c = "nl"        -> at + COLS - (at % COLS)
           [] c = "backspace" -> IF at > 0 THEN at - 1 ELSE at
           [] OTHER           -> at + 1)

\* consputc of each of the characters
Consputc(at, s) == FoldLeft(Cgaputc, at, s)
-----------------------------------------------------------------------------
(* consoleintr *)

Backspaces(k) == [i \in 1 .. k |-> "backspace"]

\* The last k characters are taken back.
EraseTo(k) ==
  /\ cons = Free
  /\ input' = [input EXCEPT !.e = Add(@, UIntMod - k)]
  /\ pos' = Consputc(pos, Backspaces(k))
  /\ UNCHANGED <<cons, reader>>

Length == Add(input.e, UIntMod - input.w)

\* The loop of ^U stops at w or after a newline.
Killed(k) ==
  /\ k <= Length
  /\ \A i \in 1 .. k : CharAt(Add(input.e, UIntMod - i)) # "nl"

KillLine == \E k \in 1 .. INPUT_BUF : Killed(k) /\ ~Killed(k + 1) /\ EraseTo(k)
Erase    == input.e # input.w /\ EraseTo(1)

Room == Add(input.e, UIntMod - input.r) < INPUT_BUF

\* The line is sent: it ends, or the ring is full.
Sends(c) == c \in {"nl", "^D"} \/ Add(input.e, 1) = Add(input.r, INPUT_BUF)

WakeWrong(c) == IF c \in {"nl", "^D"} THEN {p \in Readers : reader[p].pc = "sleep"} ELSE {}

\* The readers that typing c wakes
Wake(c) == IF Sends(c) THEN {p \in Readers : reader[p].pc = "sleep"} ELSE {}

Type(key) ==
  /\ cons = Free /\ Room
  /\ LET c == IF key = "cr" THEN "nl" ELSE key
         e == Add(input.e, 1)
     IN  /\ input' = [input EXCEPT !.buf[input.e % INPUT_BUF] = c, !.e = e, !.w = IF Sends(c) THEN e ELSE @]
         /\ reader' = [p \in Readers |-> IF p \in Wake(c) THEN [reader[p] EXCEPT !.pc = "woken"] ELSE reader[p]]
         /\ pos' = Consputc(pos, <<c>>)
  /\ UNCHANGED cons
-----------------------------------------------------------------------------
(* consoleread and consolewrite *)

Consoleread(p, n) ==
  /\ reader[p].pc = "idle" /\ ~reader[p].killed /\ cons = Free
  /\ cons' = p
  /\ reader' = [reader EXCEPT ![p] = [NoRead EXCEPT !.pc = "read", !.n = n]]
  /\ UNCHANGED <<input, pos>>

\* The inner loop with nothing to read
Wait(p) ==
  /\ cons = p /\ reader[p].pc = "read" /\ input.r = input.w
  /\ cons' = Free
  /\ reader' = [reader EXCEPT ![p].pc = IF reader[p].killed THEN "failed" ELSE "sleep"]
  /\ UNCHANGED <<input, pos>>

\* sleep returns with cons.lock
Awake(p) ==
  /\ cons = Free /\ reader[p].pc = "woken"
  /\ cons' = p /\ reader' = [reader EXCEPT ![p].pc = "read"]
  /\ UNCHANGED <<input, pos>>

SavedWrong(p) == FALSE

\* ^D is kept for the next read when this one has characters already.
Saved(p) == CharAt(input.r) = "^D" /\ reader[p].got # << >>

ReadChar(p) ==
  /\ cons = p /\ reader[p].pc = "read" /\ input.r # input.w
  /\ LET c == CharAt(input.r)
     IN  /\ input' = IF Saved(p) THEN input ELSE [input EXCEPT !.r = Add(@, 1)]
         /\ reader' = [reader EXCEPT ![p] =
              IF c = "^D" THEN [@ EXCEPT !.pc = "return"]
              ELSE [@ EXCEPT !.got = Append(@, c), !.n = @ - 1,
                             !.pc = IF c = "nl" \/ reader[p].n = 1 THEN "return" ELSE "read"]]
  /\ UNCHANGED <<pos, cons>>

Return(p) ==
  /\ cons = p /\ reader[p].pc = "return"
  /\ cons' = Free
  /\ reader' = [reader EXCEPT ![p] = [NoRead EXCEPT !.killed = reader[p].killed]]
  /\ UNCHANGED <<input, pos>>

\* kill (proc.c) wakes a sleeper; a process killed elsewhere exits when its call ends.
Kill(p) ==
  /\ ~reader[p].killed /\ reader[p].pc # "idle"
  /\ reader' = [reader EXCEPT ![p] = [@ EXCEPT !.killed = TRUE, !.pc = IF @ = "sleep" THEN "woken" ELSE @]]
  /\ UNCHANGED <<input, pos, cons>>

Consolewrite(s) == cons = Free /\ pos' = Consputc(pos, s) /\ UNCHANGED <<input, cons, reader>>
-----------------------------------------------------------------------------
ConsoleInit ==
  /\ input = [buf |-> [i \in 0 .. INPUT_BUF - 1 |-> "a"], r |-> 0, w |-> 0, e |-> 0]
  /\ pos = 0 /\ cons = Free /\ reader = [p \in Readers |-> NoRead]

ConsoleNext ==
  \/ KillLine \/ Erase \/ \E key \in Typed : Type(key)
  \/ \E p \in Readers : \/ Wait(p) \/ Awake(p) \/ ReadChar(p) \/ Return(p) \/ Kill(p)
                        \/ \E n \in Wanted : Consoleread(p, n)
  \/ Consolewrite(<<"a", "nl">>)
-----------------------------------------------------------------------------
Ring(from, to) == [i \in 1 .. Add(to, UIntMod - from) |-> CharAt(Add(from, i - 1))]

T == INSTANCE Terminal WITH
       Chars <- {"a", "nl", "^D"}, Size <- INPUT_BUF,
       edit <- Ring(input.w, input.e), sent <- Ring(input.r, input.w),
       got <- [p \in Readers |-> reader[p].got]

\* The ring is a line editor in front of a queue: no character sent is lost, read twice,
\* reordered or edited, also when the unsigned indices wrap around or the ring is full,
\* and a ^D gives exactly one read of 0 bytes (console.c:248).
ConsoleIsTerminal == T!Spec

\* No reader sleeps while there is something to read: each line sent wakes all readers,
\* and one that finds its characters taken by another goes back to sleep.
SleepersHaveNothing == \A p \in Readers : reader[p].pc = "sleep" => input.r = input.w

\* The cursor stays above the row that cgaputc keeps blank, and all of the line being
\* edited is before it: erasing the line never runs into the top of the screen, nor
\* does output scrolling it away (the guard at console.c:136 never bites).
CursorHoldsEdit == pos \in Length .. ROWS * COLS - 1

\* What the console shows and hands on keeps up with what is typed.
ConsoleKeepsUp == SleepersHaveNothing /\ CursorHoldsEdit
=============================================================================
