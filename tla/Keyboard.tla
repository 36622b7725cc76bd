------------------------------ MODULE Keyboard ------------------------------
(***************************************************************************)
(* The keyboard decoder (kbd.c): bytes from the keyboard and the bits of   *)
(* shift. The tables of kbd.h are external: which codes are modifiers.     *)
(***************************************************************************)
EXTENDS Integers, Sequences

\* A key: its code, and whether its bytes come after 0xE0.
Key(code, ext) == [code |-> code, ext |-> ext]
Keys == {Key("42", FALSE), Key("54", FALSE), Key("29", FALSE), Key("29", TRUE), Key("56", TRUE),
         Key("58", FALSE), Key("30", FALSE)}

\* shiftcode and togglecode: left and right shift, the two control keys, alt; caps lock.
ShiftCode(k) ==
  CASE k.code \in {"42", "54"} /\ ~k.ext -> {"SHIFT"}
    [] k.code = "29" -> {"CTL"}
    [] k.code = "56" -> {"ALT"}
    [] OTHER -> {}
ToggleCode(k) == IF k.code = "58" /\ ~k.ext THEN {"CAPSLOCK"} ELSE {}

VARIABLES
  shift,   \* the bits of kbdgetc's shift
  wire,    \* bytes that the keyboard has sent
  held     \* keys that are down

keyboardVars == <<shift, wire, held>>

Byte(kind, code) == [kind |-> kind, code |-> code]
Sent(kind, k)    == (IF k.ext THEN <<Byte("E0", "")>> ELSE << >>) \o <<Byte(kind, k.code)>>

\* A key goes down (again, while it repeats) or up.
Press(k)   == wire = << >> /\ wire' = Sent("press", k) /\ held' = held \cup {k} /\ UNCHANGED shift
Release(k) == wire = << >> /\ k \in held /\ wire' = Sent("release", k) /\ held' = held \ {k} /\ UNCHANGED shift

ThisKey == Key(Head(wire).code, "E0ESC" \in shift)

Toggled(bits, set) == (bits \ set) \cup (set \ bits)

ReleasedWrong(k) == shift \ ShiftCode(k)

Released(k) == shift \ (ShiftCode(k) \cup {"E0ESC"})

Pressed(k) == Toggled((shift \ {"E0ESC"}) \cup ShiftCode(k), ToggleCode(k))

Kbdgetc ==
  /\ wire # << >> /\ wire' = Tail(wire) /\ UNCHANGED held
  /\ shift' = CASE Head(wire).kind = "E0"      -> shift \cup {"E0ESC"}
                [] Head(wire).kind = "release" -> Released(ThisKey)
                [] Head(wire).kind = "press"   -> Pressed(ThisKey)

KeyboardInit == shift = {} /\ wire = << >> /\ held = {}
KeyboardNext == Kbdgetc \/ \E k \in Keys : Press(k) \/ Release(k)

\* With the bytes of every key taken, a modifier bit is set only while a key of it is
\* down, and no prefix byte is left over to change the meaning of the next key.
NoStuckModifier ==
  wire = << >> => shift \ {"CAPSLOCK"} \subseteq UNION {ShiftCode(k) : k \in held}
=============================================================================
