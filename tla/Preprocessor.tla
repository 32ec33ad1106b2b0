---------------------------- MODULE Preprocessor ----------------------------
(***************************************************************************)
(* The Verilog preprocessor (verilog_preprocessor.c): a file is read line  *)
(* by line, an include directive reads another one in the middle of it     *)
(* with a conditional state of its own, and macros are substituted in the  *)
(* whole output at the end.  q is the preprocessor; its reading frames are *)
(* the active calls of pp_process_source, innermost last.                  *)
(***************************************************************************)
EXTENDS Sources

CONSTANTS
  Files,         \* what the include path holds: a function from names to trees
  MaxMacros,     \* MAX_MACROS
  MaxCond,       \* MAX_COND_STACK
  MaxRecursion,  \* MAX_RECURSION_DEPTH of macros in macros
  MaxInclude     \* nesting of include directives

ASSUME PreprocessorAssumption == {MaxMacros, MaxCond, MaxRecursion, MaxInclude} \subseteq Nat

\* A call of pp_process_source: the lines left, the conditionals open (whether
\* the parent was active, whether a branch was taken) and whether it emits.
Frame(lines) == [lines |-> lines, conds |-> <<>>, active |-> TRUE]

\* verilog_preprocessor_create and the reset at the start of process.
Preprocess(lines) ==
  [macros |-> <<>>, out |-> <<>>, error |-> FALSE, overrun |-> FALSE, frames |-> <<Frame(lines)>>]

Reading(q) == ~q.error /\ ~q.overrun /\ q.frames # <<>>
Top(q)     == Last(q.frames)
Line(q)    == Head(Top(q).lines)

Fail(q) == [q EXCEPT !.error = TRUE]
Defined(q, n) == \E i \in DOMAIN q.macros : q.macros[i].n = n
Find(q, n)    == SelectInSeq(q.macros, LAMBDA x : x.n = n)

\* The top frame changed to f, one line further.
Advance(q, f) ==
  [q EXCEPT !.frames = Append(Front(@), [f EXCEPT !.lines = Tail(@)])]
Skip(q) == Advance(q, Top(q))
\* A directive that an inactive part ignores.
Obey(q, r) == IF Top(q).active THEN Skip(r) ELSE Skip(q)

-----------------------------------------------------------------------------
(* Directives.                                                              *)

\* pp_define
DefineMacro(q, n, v) ==
  IF Defined(q, n) THEN [q EXCEPT !.macros[Find(q, n)].v = v]
  ELSE IF Len(q.macros) >= MaxMacros THEN Fail(q)
  ELSE [q EXCEPT !.macros = Append(@, [n |-> n, v |-> v])]

\* pp_undef
UndefMacro(q, n) ==
  IF Defined(q, n) THEN [q EXCEPT !.macros = RemoveAt(@, Find(q, n))] ELSE q

\* `ifdef and `ifndef: holds says whether the macro is as asked for.  The stack counts
\* from one, so the check lets the MaxCond-th conditional through and its entry is
\* written behind the array: from there on nothing is promised.
OpenCond(q, holds) ==
  LET f == Top(q) IN
  IF Len(f.conds) + 1 >= MaxCond THEN [q EXCEPT !.overrun = TRUE]
  ELSE Advance(q, [f EXCEPT !.conds = Append(@, [parent |-> f.active,
                                                 taken  |-> f.active /\ holds]),
                            !.active = @ /\ holds])

\* Seeded fault: only the branch before this one is asked whether it was taken.
NextBranchForgetful(q, holds) ==
  LET f == Top(q)
      c == Last(f.conds)
      on == ~c.taken /\ c.parent /\ holds
  IN  Advance(q, [f EXCEPT !.conds = Append(Front(@), [c EXCEPT !.taken = on]),
                           !.active = on])

\* `elsif and `else
NextBranch(q, holds) ==
  LET f == Top(q)
      c == Last(f.conds)
      on == ~c.taken /\ c.parent /\ holds
  IN  IF f.conds = <<>> THEN Skip(Fail(q))
      ELSE Advance(q, [f EXCEPT !.conds = Append(Front(@), [c EXCEPT !.taken = @ \/ on]),
                                !.active = on])

\* `endif
CloseCond(q) ==
  LET f == Top(q) IN
  IF f.conds = <<>> THEN Skip(Fail(q))
  ELSE Advance(q, [f EXCEPT !.conds = Front(@), !.active = Last(f.conds).parent])

\* `include: pp_resolve_path and the recursive call.
OpenInclude(q, name) ==
  IF ~Top(q).active THEN Skip(q)
  ELSE IF name \notin DOMAIN Files \/ Len(q.frames) > MaxInclude THEN Skip(Fail(q))
  ELSE LET r == Skip(q)
       IN  [r EXCEPT !.frames = Append(@, Frame(Lines(Files[name], "verilog")))]

\* The end of pp_process_source.
CloseFile(q) ==
  LET r == [q EXCEPT !.frames = Front(@)]
  IN  IF Top(q).conds # <<>> THEN Fail(r) ELSE r

\* Any other line.
EmitLine(q) == Obey(q, [q EXCEPT !.out = Append(@, Line(q))])

-----------------------------------------------------------------------------
(* Substitution.                                                            *)

\* expand_macro: the first macro named in the value is expanded in turn; what
\* follows it is not looked at again.
RECURSIVE Expansion(_, _, _)
Expansion(q, n, depth) ==
  LET v == q.macros[Find(q, n)].v
      i == SelectInSeq(v, LAMBDA x : x.t = "use")
  IN  IF depth > MaxRecursion \/ ~Defined(q, n) THEN <<>>
      ELSE IF i = 0 THEN v
      ELSE LET e == Expansion(q, v[i].n, depth + 1)
           IN  IF e = <<>> THEN v
               ELSE SubSeq(v, 1, i - 1) \o e \o SubSeq(v, i + 1, Len(v))

\* pp_substitute_macros: the whole output, with the macros as they ended.
Substituted(q) ==
  FlattenSeq([i \in DOMAIN q.out |->
    LET l == q.out[i] IN
    IF l.t = "use" /\ Defined(q, l.n) THEN Lines(Expansion(q, l.n, 0), "verilog")
    ELSE <<l>>])
=============================================================================
