----------------------------- MODULE ShellParser ---------------------------
(***************************************************************************)
(* The parser of the shell (sh.c): parsecmd and the functions it calls, a  *)
(* recursive descent over the characters of a line, and nulterminate, which*)
(* afterwards ends the words in place.                                     *)
(*                                                                         *)
(* A line is a sequence of characters: "w" is white space, the symbols are *)
(* those of the code, everything else is a character of a word.  A place s *)
(* in the line is one of its characters or es, behind them.  A parse gives *)
(* the command, the place it has got to, and whether the parser did not    *)
(* give up (panic ends the process).                                       *)
(***************************************************************************)
EXTENDS Integers, Sequences, FiniteSetsExt

CONSTANTS
  ParsedLines,   \* lines that are given to the parser
  MAXARGS

VARIABLE
  line           \* the line that was typed

Symbols == {"<", "|", ">", "&", ";", "(", ")"}

Execcmd(argv)        == [type |-> "exec", argv |-> argv]
Redircmd(c, file, fd) == [type |-> "redir", cmd |-> c, file |-> file, fd |-> fd]
Backcmd(c)           == [type |-> "back", cmd |-> c]

Result(c, s) == [cmd |-> c, s |-> s, ok |-> TRUE]
GiveUp       == [cmd |-> Execcmd(<< >>), s |-> 0, ok |-> FALSE]

es == Len(line) + 1

\* The first place from s on that is not part of a word, or not white space.
WordEnd(s) == Min({k \in s .. es : k = es \/ line[k] \in Symbols \cup {"w"}})
Skip(s)    == Min({k \in s .. es : k = es \/ line[k] # "w"})

Peek(s, toks) == LET k == Skip(s) IN k < es /\ line[k] \in toks

\* The token at q, its first place q, the place eq behind it, and the place s of
\* the next one.
TokenEnd(q) ==
  IF q = es THEN q
  ELSE IF line[q] \notin Symbols THEN WordEnd(q)
  ELSE IF line[q] = ">" /\ q + 1 < es /\ line[q + 1] = ">" THEN q + 2 ELSE q + 1
TokenFrom(q, eq) ==
  [tok |-> IF q = es THEN "eof" ELSE IF line[q] \notin Symbols THEN "a" ELSE IF eq = q + 2 THEN "+" ELSE line[q],
   q |-> q, eq |-> eq, s |-> Skip(eq)]
TokenAt(q)  == TokenFrom(q, TokenEnd(q))
Gettoken(s) == TokenAt(Skip(s))

\* parseredirs: the redirections from s on, as a sequence.
Prepend(x, r) == IF r.ok THEN [r EXCEPT !.cmd = <<x>> \o @] ELSE r

RECURSIVE Redirs(_)
RedirFile(op, f) ==
  IF f.tok # "a" THEN GiveUp
  ELSE Prepend([file |-> <<f.q, f.eq>>, fd |-> IF op = "<" THEN 0 ELSE 1], Redirs(f.s))
RedirOp(t) == RedirFile(t.tok, Gettoken(t.s))
Redirs(s)  == IF Peek(s, {"<", ">"}) THEN RedirOp(Gettoken(s)) ELSE Result(<< >>, Skip(s))

\* It wraps a command once for each of them, the last one outermost.
RECURSIVE Wrapped(_, _)
Wrapped(c, redirs) ==
  IF redirs = << >> THEN c ELSE Wrapped(Redircmd(c, Head(redirs).file, Head(redirs).fd), Tail(redirs))

Wrap(c, r) == IF r.ok THEN Result(Wrapped(c, r.cmd), r.s) ELSE GiveUp

TooManyWrong(argc) == argc > MAXARGS

TooMany(argc) == argc >= MAXARGS

\* The loop of parseexec after the words argv and the redirections r.
RECURSIVE ExecLoop(_, _)
AddRedirs(redirs, r) == IF r.ok THEN [r EXCEPT !.cmd = redirs \o @] ELSE r
ExecWord(argv, r, t) ==
  IF t.tok = "eof" THEN Wrap(Execcmd(argv), r)
  ELSE IF t.tok # "a" \/ TooMany(Len(argv) + 1) THEN GiveUp
  ELSE ExecLoop(Append(argv, <<t.q, t.eq>>), AddRedirs(r.cmd, Redirs(t.s)))
ExecLoop(argv, r) ==
  IF ~r.ok THEN GiveUp
  ELSE IF Peek(r.s, {"|", ")", "&", ";"}) THEN Wrap(Execcmd(argv), r)
  ELSE ExecWord(argv, r, Gettoken(r.s))

\* pipecmd and listcmd
TwoOf(type, c, d) ==
  IF c.ok /\ d.ok THEN Result([type |-> type, left |-> c.cmd, right |-> d.cmd], d.s) ELSE GiveUp

RECURSIVE Parseline(_), Parsepipe(_), Backs(_)
BlockRest(c) == IF c.ok /\ Peek(c.s, {")"}) THEN Wrap(c.cmd, Redirs(Gettoken(c.s).s)) ELSE GiveUp
Parseblock(s) == BlockRest(Parseline(Gettoken(s).s))
Parseexec(s) == IF Peek(s, {"("}) THEN Parseblock(s) ELSE ExecLoop(<< >>, Redirs(s))
PipeRest(c)  == IF c.ok /\ Peek(c.s, {"|"}) THEN TwoOf("pipe", c, Parsepipe(Gettoken(c.s).s)) ELSE c
Parsepipe(s) == PipeRest(Parseexec(s))
Backs(c)     == IF c.ok /\ Peek(c.s, {"&"}) THEN Backs(Result(Backcmd(c.cmd), Gettoken(c.s).s)) ELSE c
LineRest(c)  == IF c.ok /\ Peek(c.s, {";"}) THEN TwoOf("list", c, Parseline(Gettoken(c.s).s)) ELSE c
Parseline(s) == LineRest(Backs(Parsepipe(s)))

NoLeftovers(c) == IF c.ok /\ Skip(c.s) = es THEN c ELSE GiveUp
Parsecmd == NoLeftovers(Parseline(1))

\* The places where nulterminate writes a NUL.
RECURSIVE Nulterminate(_)
Nulterminate(c) ==
  CASE c.type = "exec"            -> {w[2] : w \in {c.argv[k] : k \in DOMAIN c.argv}}
    [] c.type = "redir"           -> Nulterminate(c.cmd) \cup {c.file[2]}
    [] c.type \in {"pipe", "list"} -> Nulterminate(c.left) \cup Nulterminate(c.right)
    [] c.type = "back"            -> Nulterminate(c.cmd)
-----------------------------------------------------------------------------
(* The grammar, as a reference: a line is cut at its operators, the loosest *)
(* first, outside of parentheses.                                           *)

RECURSIVE Lex(_)
Lexed(t) == IF t.tok = "eof" THEN << >> ELSE <<t>> \o Lex(t.s)
Lex(s)   == Lexed(Gettoken(s))

Depth(ts, k)   == Cardinality({i \in 1 .. k : ts[i].tok = "("}) - Cardinality({i \in 1 .. k : ts[i].tok = ")"})
Outside(ts, c) == {k \in DOMAIN ts : ts[k].tok = c /\ Depth(ts, k) = 0}
Before(ts, c)  == SubSeq(ts, 1, Min(Outside(ts, c)) - 1)
After(ts, c)   == SubSeq(ts, Min(Outside(ts, c)) + 1, Len(ts))
Place(t)       == <<t.q, t.eq>>
Nth(set, n)    == CHOOSE k \in set : Cardinality({i \in set : i <= k}) = n

\* The redirections among tokens ts; every operator must have its file.
Ops(ts)   == {k \in DOMAIN ts : ts[k].tok \in {"<", ">", "+"}}
OpsOK(ts) == \A k \in Ops(ts) : k < Len(ts) /\ ts[k + 1].tok = "a"
Files(ts) ==
  [n \in 1 .. Cardinality(Ops(ts)) |->
     [file |-> Place(ts[Nth(Ops(ts), n) + 1]), fd |-> IF ts[Nth(Ops(ts), n)].tok = "<" THEN 0 ELSE 1]]

\* A simple command: words, and redirections.
ArgsOf(ts) == {k \in DOMAIN ts : k \notin Ops(ts) /\ k - 1 \notin Ops(ts)}
Simple(ts) ==
  IF (\E k \in DOMAIN ts : ts[k].tok \notin {"a", "<", ">", "+"}) THEN GiveUp
  ELSE IF ~OpsOK(ts) \/ Cardinality(ArgsOf(ts)) >= MAXARGS THEN GiveUp
  ELSE Result(Wrapped(Execcmd([n \in 1 .. Cardinality(ArgsOf(ts)) |-> Place(ts[Nth(ArgsOf(ts), n)])]), Files(ts)), 0)

RECURSIVE RefLine(_), RefBack(_), RefPipe(_)
RefBlock(c, tail) ==
  IF c.ok /\ OpsOK(tail) /\ 2 * Cardinality(Ops(tail)) = Len(tail) THEN Result(Wrapped(c.cmd, Files(tail)), 0)
  ELSE GiveUp
RefExec(ts) ==
  IF ts = << >> \/ ts[1].tok # "(" THEN Simple(ts)
  ELSE IF Outside(ts, ")") = {} THEN GiveUp
  ELSE RefBlock(RefLine(Tail(Before(ts, ")"))), After(ts, ")"))
RefPipe(ts) ==
  IF Outside(ts, "|") = {} THEN RefExec(ts) ELSE TwoOf("pipe", RefExec(Before(ts, "|")), RefPipe(After(ts, "|")))
RefAmp(c) == IF c.ok THEN Result(Backcmd(c.cmd), 0) ELSE GiveUp
RefBack(ts) ==
  IF ts = << >> \/ ts[Len(ts)].tok # "&" THEN RefPipe(ts) ELSE RefAmp(RefBack(SubSeq(ts, 1, Len(ts) - 1)))
RefLine(ts) ==
  IF Outside(ts, ";") = {} THEN RefBack(ts) ELSE TwoOf("list", RefBack(Before(ts, ";")), RefLine(After(ts, ";")))
-----------------------------------------------------------------------------
(* Properties *)

\* parsecmd accepts the lines of the grammar and no others, and returns the
\* command that the grammar says.
ParseIsGrammar ==
  LET p == Parsecmd
      r == RefLine(Lex(1))
  IN  p.ok = r.ok /\ (p.ok => p.cmd = r.cmd)

RECURSIVE WordsOf(_)
WordsOf(c) ==
  CASE c.type = "exec"            -> {c.argv[k] : k \in DOMAIN c.argv}
    [] c.type = "redir"           -> WordsOf(c.cmd) \cup {c.file}
    [] c.type \in {"pipe", "list"} -> WordsOf(c.left) \cup WordsOf(c.right)
    [] c.type = "back"            -> WordsOf(c.cmd)

\* The words of a command are words of the line; nulterminate ends every one of
\* them behind its last character and cuts none of them short.
WordsIntact ==
  LET p    == Parsecmd
      nuls == Nulterminate(p.cmd) \cup {es}
  IN  p.ok => \A w \in WordsOf(p.cmd) :
                w[1] < w[2] /\ w[2] \in nuls /\ \A k \in w[1] .. w[2] - 1 : k \notin nuls /\ line[k] \notin Symbols \cup {"w"}

\* A line is run as the grammar reads it, word for word.
LineParsed == ParseIsGrammar /\ WordsIntact
=============================================================================
