-------------------------------- MODULE Bytes ------------------------------
(***************************************************************************)
(* What files promise about their content: a file is a sequence of bytes,  *)
(* a write puts bytes at the offset of an open file, which it moves behind *)
(* them, and changes nothing else.                                         *)
(***************************************************************************)
EXTENDS Naturals, Sequences

CONSTANTS
  Opened,        \* Opened[f]: the file that open file f refers to
  Data           \* what may be written at a time

VARIABLES
  image,         \* image[i]: the content of file i at first
  content,       \* content[i]: the bytes of file i
  off            \* off[f]: the offset of open file f

Init == content = image /\ off = [f \in DOMAIN Opened |-> 0]

Write(f) ==
  LET i == Opened[f]
      o == off[f]
      n == off'[f] - o
      c == content[i]
      d == SubSeq(content'[i], o + 1, o + n)      \* what is written
  IN  /\ n > 0 /\ o <= Len(c) /\ d \in Data
      /\ off' = [off EXCEPT ![f] = o + n]
      /\ content' = [content EXCEPT ![i] = SubSeq(c, 1, o) \o d \o SubSeq(c, o + n + 1, Len(c))]

Read(f) ==
  /\ \E o \in off[f] .. Len(content[Opened[f]]) : off' = [off EXCEPT ![f] = o]
  /\ UNCHANGED content

Reopen(f) == off' = [off EXCEPT ![f] = 0] /\ UNCHANGED content

Truncate(i) ==
  /\ content' = [content EXCEPT ![i] = << >>]
  /\ off' = [f \in DOMAIN off |-> IF Opened[f] = i THEN 0 ELSE off[f]]

Next ==
  \/ \E f \in DOMAIN Opened : Write(f) \/ Read(f) \/ Reopen(f)
  \/ \E i \in DOMAIN content : Truncate(i)

Spec == Init /\ [][Next]_<<content, off>>
=============================================================================
