-------------------------------- MODULE Peg --------------------------------
(***************************************************************************)
(* The parsing-expression matcher that the generated parsers are instances *)
(* of (generated/grammar.peg.c), over a text of lexemes.                   *)
(*                                                                         *)
(* A matcher moves a position and queues actions; when it fails, position  *)
(* and queue are put back, the marks of the last lexeme read are not.  The *)
(* queued actions run after the whole text was matched.                    *)
(*                                                                         *)
(* A lexeme is <<class, text>>: a NAME (keywords are names), a NUMBER with *)
(* <<size, value>> for its text, a FLOAT, a STRING or a SYMBOL.  White     *)
(* space and comments separate lexemes.                                    *)
(***************************************************************************)
EXTENDS Integers, Sequences

\* The expressions: a word, a class of lexemes, a rule of the grammar by name,
\* a sequence, an ordered choice, e?, e*, and an action.
Tok(w)   == [k |-> "tok", word |-> w]
Class(c) == [k |-> "class", class |-> c]
Rule(n)  == [k |-> "rule", name |-> n]
All(l)   == [k |-> "all", parts |-> l]
OneOf(l) == [k |-> "any", parts |-> l]
Opt(e)   == [k |-> "opt", part |-> e]
Many(e)  == [k |-> "many", part |-> e]
Then(a)  == [k |-> "then", action |-> a]

\* yyctx: where the matcher is, the marks set around the last name, number or
\* string it tried to read, and the actions queued, each with its text.
Start == [ok |-> TRUE, pos |-> 1, begin |-> 1, end |-> 1, todo |-> <<>>]

AtEnd(t, s) == s.pos > Len(t)
Fail(s) == [s EXCEPT !.ok = FALSE]
Step(s) == [s EXCEPT !.pos = @ + 1]
\* Seeded fault: the actions of what failed stay queued.
BackKeeping(s, r) == [s EXCEPT !.begin = r.begin, !.end = r.end, !.todo = r.todo]

\* A failed alternative: all but the mark goes back to where s was.
Back(s, r) == [s EXCEPT !.begin = r.begin, !.end = r.end]

\* yymatchString, yymatchChar
Word(w, t, s) ==
  IF ~AtEnd(t, s) /\ t[s.pos][1] \in {"NAME", "SYMBOL"} /\ t[s.pos][2] = w
  THEN Step(s) ELSE Fail(s)

\* yymatchClass and the marks: the first is set even where nothing matches.
Lexeme(c, t, s) ==
  IF ~AtEnd(t, s) /\ t[s.pos][1] = c
  THEN [Step(s) EXCEPT !.begin = s.pos, !.end = s.pos + 1]
  ELSE [Fail(s) EXCEPT !.begin = s.pos]

\* yyText: what lies between the marks; no action is queued with more than
\* one lexeme between them.
Between(t, s) == IF s.end > s.begin THEN t[s.begin][2] ELSE ""
\* yyDo
Queue(a, t, s) == [s EXCEPT !.todo = Append(@, [act |-> a, text |-> Between(t, s)])]

\* The rule e names, in the grammar g.
Resolved(g, e) == IF e.k = "rule" THEN g[e.name] ELSE e

\* Whether e can succeed at s: a word that does not match leaves no trace, so an
\* alternative that begins with it may as well not be tried.
RECURSIVE Begins(_, _, _, _)
Begins(g, e, t, s) ==
  CASE e.k = "tok"  -> Word(e.word, t, s).ok
    [] e.k = "all"  -> Begins(g, e.parts[1], t, s)
    [] e.k = "any"  -> \E i \in DOMAIN e.parts : Begins(g, e.parts[i], t, s)
    [] e.k = "rule" -> Begins(g, g[e.name], t, s)
    [] OTHER -> TRUE
Worth(g, l, t, s) == SelectSeq(l, LAMBDA e : Begins(g, e, t, s))

RECURSIVE Match(_, _, _, _), Sequence(_, _, _, _, _, _), Choice(_, _, _, _, _, _),
          Repetition(_, _, _, _, _)
\* A sequence begun at s whose first i - 1 parts gave r.
Sequence(g, l, t, s, r, i) ==
  IF r.ok
  THEN IF i > Len(l) THEN r
       ELSE Sequence(g, l, t, s, Match(g, Resolved(g, l[i]), t, r), i + 1)
  ELSE Fail(Back(s, r))

\* A choice at s whose first i - 1 alternatives gave r.
Choice(g, l, t, s, r, i) ==
  IF r.ok THEN r
  ELSE IF i > Len(l) THEN r
  ELSE Choice(g, l, t, s, Match(g, Resolved(g, l[i]), t, Back(s, r)), i + 1)

\* e*, after the last round from s gave r.
Repetition(g, e, t, s, r) ==
  IF r.ok THEN Repetition(g, e, t, r, Match(g, e, t, r)) ELSE Back(s, r)

Perhaps(s, r) == IF r.ok THEN r ELSE Back(s, r)

\* The state after expression e, no rule's name, was tried at state s of text t.
Match(g, e, t, s) ==
  CASE e.k = "tok"   -> Word(e.word, t, s)
    [] e.k = "class" -> Lexeme(e.class, t, s)
    [] e.k = "all"   ->
         Sequence(g, e.parts, t, s, Match(g, Resolved(g, e.parts[1]), t, s), 2)
    [] e.k = "any"   -> Choice(g, Worth(g, e.parts, t, s), t, s, Fail(s), 1)
    [] e.k = "opt"   -> Perhaps(s, Match(g, Resolved(g, e.part), t, s))
    [] e.k = "many"  ->
         Repetition(g, Resolved(g, e.part), t, s, Match(g, Resolved(g, e.part), t, s))
    [] e.k = "then"  -> Queue(e.action, t, s)
=============================================================================
