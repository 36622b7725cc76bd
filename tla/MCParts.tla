------------------------------ MODULE MCParts ------------------------------
(***************************************************************************)
(* Parts that do not act on each other, each by itself in one run: file    *)
(* content, the allocator of user programs, the JSON parser, the shell.    *)
(* A behaviour is one of one part; the others are off.                     *)
(***************************************************************************)
EXTENDS Blocks, Heap, Json, Shell

Init ==
  \/ BlocksInit /\ HeapOff /\ JsonOff /\ line = << >> /\ ShellOff
  \/ BlocksOff /\ HeapInit /\ JsonOff /\ line = << >> /\ ShellOff
  \/ BlocksOff /\ HeapOff /\ JsonInit /\ line = << >> /\ ShellOff
  \/ BlocksOff /\ HeapOff /\ JsonOff /\ line \in ParsedLines /\ ShellOff
  \/ BlocksOff /\ HeapOff /\ JsonOff /\ ShellInit

Next ==
  \/ BlocksNext /\ UNCHANGED <<heapVars, jsonVars, shellVars>>
  \/ HeapNext /\ UNCHANGED <<blocksVars, jsonVars, shellVars>>
  \/ JsonNext /\ UNCHANGED <<blocksVars, heapVars, shellVars>>
  \/ ShellNext /\ UNCHANGED <<blocksVars, heapVars, jsonVars>>

Spec == Init /\ [][Next]_<<blocksVars, heapVars, jsonVars, shellVars>>
-----------------------------------------------------------------------------
\* Two open files of inode 2, one of inode 3; mkfs makes one file, of a part of a
\* block or with an indirect block.
Opens   == <<2, 2, 3>>
OneFile == {<< <<1>> >>, << <<1, 2, 1>> >>}

\* JSON values: lists of up to two scalars in lists of up to two, and flat
\* specifications of three keys.
Scalars     == {[kind |-> "string", word |-> <<"f">>], [kind |-> "primitive", word |-> <<"0", "0">>]}
UpToTwo(S)  == {<< >>} \cup {<<a>> : a \in S} \cup {<<a, b>> : a \in S, b \in S}
Collections(S) ==
  {[kind |-> "array", items |-> l] : l \in UpToTwo(S)}
    \cup {[kind |-> "object", items |-> l] : l \in UpToTwo({<<"i">>} \X S)}
Keys        == {<<"i">>, <<"f">>, <<"n">>}
SomeDocs    == Collections(Scalars \cup Collections(Scalars))
                 \cup {[kind |-> "object", items |-> l] : l \in [1 .. 3 -> Keys \X Scalars]}
                 \cup {[kind |-> "array", items |-> <<d, d>>] : d \in {[kind |-> "array", items |-> l] : l \in [1 .. 4 -> Scalars]}}

\* Texts: all short ones, strings with escapes, and a character no primitive has.
UpTo(S, n) == UNION {[1 .. k -> S] : k \in 0 .. n}
SomeTexts  == UpTo({"{", "}", "[", "]", "Q", ":", ",", "i"}, 4)
                \cup {<<"Q">> \o s : s \in UpTo({"Q", "B", "u", "0", "n"}, 4)}
                \cup {<<"Q", "B", "u", "0", "0", "0", c, "Q">> : c \in {"0", "B", "n"}}
                \cup {<<"i", "^">>, <<"i", " ", "i">>, [k \in 1 .. 10 |-> "["]}
                \cup {[k \in 1 .. 20 |-> IF k % 2 = 0 THEN c ELSE d] : c \in {"Q", ","}, d \in {"Q", "i"}}

\* Lines: all short ones, and longer ones of words and white space.
SomeLines == UpTo({"a", "<", ">", "|", "&", ";", "(", ")"}, 5) \cup UpTo({"a", "w", ">", ";"}, 6)
Typed == {<<"a", "|", "a", "|", "a">>, <<"(", "a", ";", "a", ")", "|", "a">>, <<"a", ">", "a", ";", "a">>,
          <<"a", "&", ";", "a">>, <<"(", "a", "|", "a", ")", "&">>, <<"a", "|", "(", "a", ";", "a", ")">>,
          <<"<", "a", "|">>, <<"a", "&", "|">>, <<"c", "d", "w", "a">>}
=============================================================================
