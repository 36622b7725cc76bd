-------------------------------- MODULE Json -------------------------------
(***************************************************************************)
(* The JSON parser jsmn (jsmn.h, neither strict nor with parent links) and *)
(* parse_specs (cm.h), which takes the three strings of a container's      *)
(* specification from the tokens.                                          *)
(*                                                                         *)
(* A character is a one-letter string; "Q" is the quote, "B" the backslash,*)
(* "^" a character that no primitive may have, and a word is one letter    *)
(* long ("i" is init, "f" fs, "n" nproc).  Positions count from 0, as in   *)
(* the code; tokens count from 1, and token 0 is "none" (-1).              *)
(***************************************************************************)
EXTENDS Integers, Sequences, FiniteSetsExt

CONSTANTS
  Texts,         \* texts that are parsed
  Docs,          \* JSON values that are written out and parsed
  NumTokens,     \* room for tokens (128)
  BufferSize     \* buffer[] of parse_specs (100)

VARIABLES
  js,            \* the text
  doc,           \* the JSON value that the text was made from, or NoDoc
  jp,            \* the parser and its tokens
  specs          \* what parse_specs returns

jsonVars == <<js, doc, jp, specs>>

Running == "running"
NOMEM   == "nomem"
INVAL   == "inval"
PART    == "part"
NoDoc   == [kind |-> "none"]
Unset   == <<"unset">>      \* memory from malloc that nothing was written to

Token(type, start, end) == [type |-> type, start |-> start, end |-> end, size |-> 0]
JsmnInit == [pos |-> 0, toksuper |-> 0, tokens |-> << >>, count |-> 0, ret |-> Running]
Char     == js[jp.pos + 1]

OpenTokens == {i \in DOMAIN jp.tokens : jp.tokens[i].end = -1}
LastOpen(set) == IF set = {} THEN 0 ELSE Max(set)

Full == Len(jp.tokens) >= NumTokens

GrownWrong(tokens) == tokens

\* The superior token of a new one has one more member.
Grown(tokens) == IF jp.toksuper = 0 THEN tokens ELSE [tokens EXCEPT ![jp.toksuper].size = @ + 1]

Fail(err)  == jp' = [jp EXCEPT !.ret = err]
Advance(p) == jp' = [p EXCEPT !.pos = @ + 1]
Counted(t) == [jp EXCEPT !.tokens = Append(Grown(@), t), !.count = @ + 1]

\* case '{' and case '['
OpenBracket ==
  /\ Char \in {"{", "["}
  /\ IF Full THEN Fail(NOMEM)
     ELSE Advance([Counted(Token(IF Char = "{" THEN "object" ELSE "array", jp.pos, -1))
                     EXCEPT !.toksuper = Len(jp.tokens) + 1])

\* The superior token once token i is closed.
Superior(i) == LastOpen(OpenTokens \ {i})

\* case '}' and case ']'
CloseBracket ==
  /\ Char \in {"}", "]"}
  /\ LET i == LastOpen(OpenTokens)
     IN  IF i = 0 \/ jp.tokens[i].type # (IF Char = "}" THEN "object" ELSE "array") THEN Fail(INVAL)
         ELSE Advance([jp EXCEPT !.toksuper = Superior(i), !.tokens[i].end = jp.pos + 1])

\* jsmn_parse_string's loop: the position of the closing quote, or an error.
At(p) == js[p + 1]

\* Behind the backslash at p and the character that it quotes.
Escaped(p) == p + 2

RECURSIVE StringFrom(_)
StringFrom(p) ==
  LET hex == {h \in 0 .. 4 : p + 2 + h <= Len(js) /\ \A k \in 1 .. h : At(p + 1 + k) \in {"0", "f"}}
  IN  IF p >= Len(js) THEN [err |-> PART]
      ELSE IF At(p) = "Q" THEN [err |-> Running, end |-> p]
      ELSE IF At(p) # "B" \/ p + 1 >= Len(js) THEN StringFrom(p + 1)
      ELSE IF At(p + 1) \in {"Q", "B", "n", "f"} THEN StringFrom(Escaped(p))
      ELSE IF At(p + 1) = "u"
           THEN IF Max(hex) = 4 \/ p + 2 + Max(hex) = Len(js) THEN StringFrom(p + 2 + Max(hex)) ELSE [err |-> INVAL]
           ELSE [err |-> INVAL]

ParseString ==
  /\ Char = "Q"
  /\ LET s == StringFrom(jp.pos + 1)
     IN  IF s.err # Running THEN Fail(s.err)
         ELSE IF Full THEN Fail(NOMEM)
         ELSE Advance([Counted(Token("string", jp.pos + 1, s.end)) EXCEPT !.pos = s.end])

Special == {"{", "}", "[", "]", "Q", ":", ",", " "}
Ends    == {":", ",", "}", "]", " "}

\* jsmn_parse_primitive: up to a character of Ends.
ParsePrimitive ==
  /\ Char \notin Special
  /\ LET end == Min({p \in jp.pos .. Len(js) : p = Len(js) \/ At(p) \in Ends})
     IN  IF \E p \in jp.pos .. end - 1 : At(p) = "^" THEN Fail(INVAL)
         ELSE IF Full THEN Fail(NOMEM)
         ELSE Advance([Counted(Token("primitive", jp.pos, end)) EXCEPT !.pos = end - 1])

Space == Char = " " /\ Advance(jp)

Colon == Char = ":" /\ Advance([jp EXCEPT !.toksuper = Len(jp.tokens)])

\* A key was the superior token: the object is again.
AfterComma ==
  IF jp.toksuper # 0 /\ jp.tokens[jp.toksuper].type \notin {"array", "object"} /\ OpenTokens # {}
  THEN LastOpen(OpenTokens) ELSE jp.toksuper

Comma == Char = "," /\ Advance([jp EXCEPT !.toksuper = AfterComma])

\* The end of the text: the result of jsmn_parse.
EndOfText ==
  /\ jp.pos = Len(js) /\ jp.ret = Running
  /\ jp' = [jp EXCEPT !.ret = IF OpenTokens # {} THEN PART ELSE "count"]
  /\ UNCHANGED <<js, doc, specs>>

JsmnStep ==
  /\ jp.ret = Running /\ jp.pos < Len(js)
  /\ OpenBracket \/ CloseBracket \/ ParseString \/ ParsePrimitive \/ Space \/ Colon \/ Comma
  /\ UNCHANGED <<js, doc, specs>>
-----------------------------------------------------------------------------
(* parse_specs *)

Slice(t)  == SubSeq(js, t.start + 1, t.end)
Jsoneq(t, s) == t.type = "string" /\ Slice(t) = <<s>>

NextToken(i) == i + 2

\* The loop over the tokens: i is the token, found the strings so far.
RECURSIVE SpecsFrom(_, _)
SpecsFrom(i, found) ==
  IF i > jp.count \/ Len(found) = 3 THEN found
  ELSE IF \E s \in {"i", "f", "n"} : Jsoneq(jp.tokens[i], s)
       THEN SpecsFrom(NextToken(i), Append(found, IF i = jp.count THEN Unset ELSE Slice(jp.tokens[i + 1])))
       ELSE SpecsFrom(i + 1, found)

ParseSpecs ==
  /\ jp.ret # Running /\ specs = << >>
  /\ specs' = IF jp.ret # "count" \/ jp.count < 1 \/ jp.tokens[1].type # "object" THEN <<"null">>
              ELSE LET found == SpecsFrom(2, << >>)
                   IN  [k \in 1 .. 3 |-> IF k <= Len(found) THEN found[k] ELSE Unset]
  /\ UNCHANGED <<js, doc, jp>>
-----------------------------------------------------------------------------
(* The text of a JSON value and the tokens it has, as jsmn.h promises them.  A *)
(* value is a string or a primitive with its word, an array with its items, or *)
(* an object with its pairs of a key's word and a value.                       *)

TextTokens(text, tokens) == [text |-> text, tokens |-> tokens]
Leaf(v, at) ==
  IF v.kind = "string"
  THEN TextTokens(<<"Q">> \o v.word \o <<"Q">>, <<Token("string", at + 1, at + 1 + Len(v.word))>>)
  ELSE TextTokens(v.word, <<Token("primitive", at, at + Len(v.word))>>)

RECURSIVE Written(_, _), Members(_, _, _)
Members(v, k, at) ==
  IF k > Len(v.items) THEN TextTokens(<< >>, << >>)
  ELSE LET sep   == IF k = 1 THEN << >> ELSE <<",", " ">>
           key   == Leaf([kind |-> "string", word |-> v.items[k][1]], at + Len(sep))
           head  == IF v.kind = "array" THEN sep ELSE sep \o key.text \o <<":", " ">>
           value == Written(IF v.kind = "array" THEN v.items[k] ELSE v.items[k][2], at + Len(head))
           rest  == Members(v, k + 1, at + Len(head) + Len(value.text))
       IN  TextTokens(head \o value.text \o rest.text,
                    (IF v.kind = "array" THEN << >> ELSE <<[key.tokens[1] EXCEPT !.size = 1]>>)
                      \o value.tokens \o rest.tokens)
Written(v, at) ==
  IF v.kind \in {"string", "primitive"} THEN Leaf(v, at)
  ELSE LET m == Members(v, 1, at + 1)
           brackets == IF v.kind = "array" THEN <<"[", "]">> ELSE <<"{", "}">>
       IN  TextTokens(<<brackets[1]>> \o m.text \o <<brackets[2]>>,
                    <<[type |-> v.kind, start |-> at, end |-> at + Len(m.text) + 2, size |-> Len(v.items)]>>
                      \o m.tokens)

\* read of the specification into the buffer of parse_specs
Buffered(text) == SubSeq(text, 1, Min({Len(text), BufferSize - 1}))

JsonInit ==
  /\ jp = JsmnInit /\ specs = << >>
  /\ \/ doc = NoDoc /\ js \in Texts
     \/ doc \in Docs /\ js = Buffered(Written(doc, 0).text)

JsonOff == jp = [JsmnInit EXCEPT !.ret = INVAL] /\ specs = <<"null">> /\ doc = NoDoc /\ js = << >>

JsonNext == JsmnStep \/ EndOfText \/ ParseSpecs
-----------------------------------------------------------------------------
(* Properties *)

\* A JSON value that fits is parsed into its tokens: one for every value and
\* key, in the order of the text, with its place and the number of its members;
\* one that does not fit is refused, for its tokens or for its length.
TokensOfDoc ==
  (doc # NoDoc /\ jp.ret # Running) =>
    LET w == Written(doc, 0)
    IN  IF Len(w.text) < BufferSize /\ Len(w.tokens) <= NumTokens
        THEN jp.ret = "count" /\ jp.tokens = w.tokens /\ jp.count = Len(w.tokens)
        ELSE jp.ret \in {NOMEM, PART}

\* Of any text, correct or not: tokens come in the order of the text, lie inside
\* what has been read, and either lie inside each other or apart; there are never
\* more than there is room for.
TokensNested ==
  /\ Len(jp.tokens) <= NumTokens
  /\ \A j \in DOMAIN jp.tokens :
       LET t == jp.tokens[j]
       IN  /\ t.end # -1 => t.start <= t.end /\ t.end <= jp.pos
           /\ \A i \in 1 .. j - 1 :
                LET u == jp.tokens[i]
                IN  /\ u.start < t.start
                    /\ u.end # -1 => u.end <= t.start \/ (t.end # -1 /\ t.end < u.end)

\* A string ends at the first quote that no backslash escapes.
StringsEnd ==
  \A i \in DOMAIN jp.tokens :
    LET t == jp.tokens[i]
        backslashes(p) == p - Max({k \in t.start .. p : k = t.start \/ At(k - 1) # "B"})
    IN  t.type = "string" => \A p \in t.start .. t.end : (At(p) = "Q" /\ backslashes(p) % 2 = 0) <=> p = t.end

\* From a specification with no other keys, parse_specs returns the values in the
\* order of the text; containerstart takes them for init, fs and nproc.
SpecsOfDoc ==
  LET known(m) == m[1] \in {<<"i">>, <<"f">>, <<"n">>} /\ m[2].kind \in {"string", "primitive"}
  IN  (doc.kind = "object" /\ jp.ret = "count" /\ specs # << >>) =>
        (~\A k \in DOMAIN doc.items : known(doc.items[k]))
          \/ specs = [k \in 1 .. 3 |-> IF k <= Len(doc.items) THEN doc.items[k][2].word ELSE Unset]

\* What the parser makes of a text and containerstart of its tokens: right for a
\* document, and in bounds for anything else.
TextParsed == TokensNested /\ StringsEnd /\ TokensOfDoc /\ SpecsOfDoc
=============================================================================
