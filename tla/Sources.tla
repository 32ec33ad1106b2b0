------------------------------- MODULE Sources -------------------------------
(***************************************************************************)
(* Source files as the standard reads them: compiler directives, modules   *)
(* and generate constructs as trees, and what they mean.  Lines turns a    *)
(* file into what the front end sees, a line or a token at a time.         *)
(***************************************************************************)
EXTENDS Integers, Sequences, SequencesExt, FiniteSets

None == ""

-----------------------------------------------------------------------------
(* Trees.  An item is a declaration or, if of is a module, an instance.     *)

Lit(v)   == [k |-> "lit", v |-> v]
Name(n)  == [k |-> "name", n |-> n, v |-> 0]
Is(n, v) == [k |-> "is", n |-> n, v |-> v]

Item(n, use)       == [t |-> "item", n |-> n, use |-> use, of |-> None, port |-> None]
Instance(n, m, pt) == [t |-> "item", n |-> n, use |-> None, of |-> m, port |-> pt]

For(label, var, from, last, dir, body) ==
  [t |-> "for", label |-> label, var |-> var, from |-> from, last |-> last, dir |-> dir,
   body |-> body]
\* Arms are tried in order; the last one, with no choice, is the default.
If(cond, then, else) == [t |-> "if", cond |-> cond, then |-> then, else |-> else]
Case(on, arms, default) == [t |-> "case", on |-> on, arms |-> arms, default |-> default]
Arm(pats, body) == [pats |-> pats, body |-> body]

\* Directives.  A group's arms name macros, the first perhaps negated.
Define(n, v)  == [t |-> "define", n |-> n, v |-> v]
Undef(n)      == [t |-> "undef", n |-> n]
ResetAll      == [t |-> "resetall"]
Use(n)        == [t |-> "use", n |-> n]
Include(f)    == [t |-> "include", f |-> f]
Group(neg, arms, else) == [t |-> "group", neg |-> neg, arms |-> arms, else |-> else]
On(n, body)   == [n |-> n, body |-> body]

Module(lang, n, ports, params, body) ==
  [t |-> "module", lang |-> lang, n |-> n, ports |-> ports, params |-> params, body |-> body]

-----------------------------------------------------------------------------
(* What directives mean: each is obeyed where it stands, with the macros    *)
(* defined there.  The result is a file without directives.                 *)

RECURSIVE Kept(_, _, _)
\* files: the text of each included file; m: the macros defined, by name.
Kept(files, l, m) ==
  LET Add(acc, c) ==
        LET In(body) == LET r == Kept(files, body, acc.m)
                        IN  [out |-> acc.out \o r.out, m |-> r.m]
            Holds(i) == (c.arms[i].n \in DOMAIN acc.m) # (i = 1 /\ c.neg)
            first    == SelectInSeq([i \in DOMAIN c.arms |-> Holds(i)], LAMBDA b : b)
        IN  CASE c.t = "define"   -> [acc EXCEPT !.m = [x \in DOMAIN @ \cup {c.n} |->
                                                 IF x = c.n THEN c.v ELSE @[x]]]
              [] c.t = "undef"    -> [acc EXCEPT !.m = [x \in DOMAIN @ \ {c.n} |-> @[x]]]
              [] c.t = "resetall" -> [acc EXCEPT !.m = <<>>]
              [] c.t = "use"      -> IF c.n \in DOMAIN acc.m THEN In(acc.m[c.n])
                                     ELSE [acc EXCEPT !.out = Append(@, c)]
              [] c.t = "include"  -> In(files[c.f])
              [] c.t = "group"    -> In(IF first > 0 THEN c.arms[first].body ELSE c.else)
              [] c.t = "module"   -> LET r == Kept(files, c.body, acc.m)
                                     IN  [out |-> Append(acc.out, [c EXCEPT !.body = r.out]),
                                          m |-> r.m]
              [] c.t = "for"      -> LET r == Kept(files, c.body, acc.m)
                                     IN  [out |-> Append(acc.out, [c EXCEPT !.body = r.out]),
                                          m |-> r.m]
              [] OTHER            -> [acc EXCEPT !.out = Append(@, c)]
  IN  FoldLeft(Add, [out |-> <<>>, m |-> m], l)

-----------------------------------------------------------------------------
(* What generate constructs mean: the items they stand for, each with the   *)
(* labels of its loops and, if it uses a loop's variable, that value.       *)

\* Values of an expression; env gives genvars and parameters theirs.
Meaning(e, env) ==
  CASE e.k = "lit"  -> e.v
    [] e.k = "name" -> env[e.n]
    [] e.k = "is"   -> IF env[e.n] = e.v THEN 1 ELSE 0

Over(c, env) ==
  LET a == Meaning(c.from, env)
      b == Meaning(c.last, env)
  IN  IF c.dir > 0 THEN [i \in 1 .. (IF b < a THEN 0 ELSE b - a + 1) |-> a + i - 1]
      ELSE [i \in 1 .. (IF a < b THEN 0 ELSE a - b + 1) |-> a - i + 1]

RECURSIVE Denote(_, _, _)
Denote(l, env, at) ==
  LET Bind(var, v) == [x \in DOMAIN env \cup {var} |-> IF x = var THEN v ELSE env[x]]
      Of(c) ==
        CASE c.t = "item" ->
               <<[n |-> c.n, at |-> at, of |-> c.of, port |-> c.port,
                  arg |-> IF c.use = None THEN -1 ELSE env[c.use]]>>
          [] c.t = "for" ->
               FlattenSeq([i \in DOMAIN Over(c, env) |->
                 Denote(c.body, Bind(c.var, Over(c, env)[i]),
                        Append(at, <<c.label, Over(c, env)[i]>>))])
          [] c.t = "if" -> Denote(IF Meaning(c.cond, env) # 0 THEN c.then ELSE c.else, env, at)
          [] c.t = "case" ->
               LET hit(a) == \E p \in ToSet(a.pats) : p = Meaning(c.on, env)
                   i == SelectInSeq(c.arms, hit)
               IN  Denote(IF i > 0 THEN c.arms[i].body ELSE c.default, env, at)
          [] OTHER -> <<>>
  IN  FlattenSeq([i \in DOMAIN l |-> Of(l[i])])

-----------------------------------------------------------------------------
(* A file, or a part of one, as the front end reads it.                     *)

Header(m) == [n |-> m.n, lang |-> m.lang, ports |-> m.ports, params |-> m.params]
Loop(c)   == [label |-> c.label, var |-> c.var, from |-> c.from, last |-> c.last, dir |-> c.dir]

RECURSIVE Lines(_, _)
Lines(l, lang) ==
  LET Block(label, body) == <<[t |-> "label", n |-> label]>> \o Lines(body, lang)
      Of(c) ==
        CASE c.t = "module" ->
               <<[t |-> "module", m |-> Header(c)]>> \o Lines(c.body, c.lang) \o <<[t |-> "endmodule"]>>
          [] c.t = "for" /\ lang = "verilog" ->
               <<[t |-> "for", c |-> Loop(c)]>> \o Block(c.label, c.body) \o <<[t |-> "endfor"]>>
          [] c.t = "if" /\ lang = "verilog" ->
               <<[t |-> "if", e |-> c.cond]>> \o Block("then", c.then) \o <<[t |-> "endif"]>>
               \o (IF c.else = <<>> THEN <<>>
                   ELSE <<[t |-> "else"]>> \o Block("else", c.else) \o <<[t |-> "endif"]>>)
          [] c.t = "case" ->
               <<[t |-> "case", e |-> c.on]>>
               \o FlattenSeq([i \in DOMAIN c.arms |->
                    <<[t |-> "arm", pats |-> c.arms[i].pats]>> \o Block("arm", c.arms[i].body)
                    \o <<[t |-> "endarm"]>>])
               \o (IF c.default = <<>> THEN <<>>
                   ELSE <<[t |-> "default"]>> \o Block("other", c.default)
                        \o <<[t |-> "endarm"]>>)
               \o <<[t |-> "endcase"]>>
          [] c.t = "for" /\ lang = "vhdl" ->
               <<[t |-> "vfor", c |-> Loop(c)]>> \o Lines(c.body, lang) \o <<[t |-> "vendfor"]>>
          [] c.t = "if" /\ lang = "vhdl" ->
               <<[t |-> "vif", e |-> c.cond]>> \o Lines(c.then, lang)
               \o (IF c.else = <<>> THEN <<>> ELSE <<[t |-> "velse"]>> \o Lines(c.else, lang))
               \o <<[t |-> "vendif"]>>
          [] c.t = "group" ->
               FlattenSeq([i \in DOMAIN c.arms |->
                 <<[t |-> IF i > 1 THEN "elsif" ELSE IF c.neg THEN "ifndef" ELSE "ifdef",
                    n |-> c.arms[i].n]>> \o Lines(c.arms[i].body, lang)])
               \o (IF c.else = <<>> THEN <<>> ELSE <<[t |-> "orelse"]>> \o Lines(c.else, lang))
               \o <<[t |-> "fi"]>>
          [] OTHER -> <<c>>
  IN  FlattenSeq([i \in DOMAIN l |-> Of(l[i])])

\* The items of a file's modules, directives obeyed.
Modules(files, file) == SelectSeq(Kept(files, file, <<>>).out, LAMBDA c : c.t = "module")
ItemsOf(m) == Denote(m.body, m.params, <<>>)
=============================================================================
