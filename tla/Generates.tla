------------------------------ MODULE Generates ------------------------------
(***************************************************************************)
(* Generate constructs, from the parsers to the end of expansion           *)
(* (verilog_parser.c, vhdl_parser.c, elaboration.c, uir.c).                *)
(*                                                                         *)
(* g is the memory of the front end: the design units and the generate     *)
(* nodes built so far, the units destroyed, and the parsers' globals.      *)
(* A body is parsed into a template unit; the globals that remember where  *)
(* parsing has to go back to hold one construct each.                      *)
(***************************************************************************)
EXTENDS Sources

CONSTANTS
  MaxIter,  \* iterations expanded of one loop (1000)
  Word      \* 2^64: genvars are unsigned

ASSUME GeneratesAssumption == {MaxIter, Word} \subseteq Nat \ {0}

NoModule == [n |-> None, lang |-> "verilog", ports |-> {}, params |-> <<>>]
NewUnit(m) == [m |-> m, leaves |-> <<>>, gens |-> <<>>]
NewGen(k) ==
  [k |-> k, label |-> None, loop |-> <<>>, cond |-> Lit(0), body |-> 0, else |-> 0,
   arms |-> <<>>, default |-> 0, flat |-> NewUnit(NoModule)]

Memory == [units |-> <<>>, gens |-> <<>>, dead |-> {}]

\* The parsers' globals; 0 is a null pointer.
Globals ==
  [unit |-> 0, saved |-> 0, gen |-> 0, label |-> None, labels |-> <<>>, active |-> TRUE,
   ifNode |-> 0, ifOuter |-> 0, nested |-> FALSE, branch |-> 0,
   caseNode |-> 0, caseOuter |-> 0, caseTemp |-> 0, caseDefault |-> FALSE,
   caseVal |-> 0, matched |-> FALSE, outer |-> 0, done |-> <<>>]

\* verilog_parse and vhdl_parse start from fresh globals.
Parser(mem) == mem @@ Globals

\* uir_create_design_unit and uir_add_generate: the last of their kind.
AddUnit(g, m) == [g EXCEPT !.units = Append(@, NewUnit(m))]
LastUnit(g)   == Len(g.units)
LastGen(g)    == Len(g.gens)
AddGen(g, u, node) ==
  LET h == [g EXCEPT !.gens = Append(@, node)]
  IN  [h EXCEPT !.units[u].gens = Append(@, LastGen(h))]
AddLeaf(g, u, leaf) == [g EXCEPT !.units[u].leaves = Append(@, leaf)]

PushLabel(g) == [g EXCEPT !.labels = Append(@, g.label), !.label = None]
PopLabel(g)  == [g EXCEPT !.label = Last(g.labels), !.labels = Front(@)]

\* Parsing goes on in a new template, stored by field of generate node n.
Redirect(g, n, field) ==
  LET h == AddUnit(g, NoModule)
  IN  [h EXCEPT !.gens[n][field] = LastUnit(h), !.unit = LastUnit(h)]

\* A branch that is not taken is parsed with no unit to add to.
Suppress(g) == [g EXCEPT !.saved = g.unit, !.unit = 0]
Resume(g)   == IF g.unit = 0 THEN [g EXCEPT !.unit = g.saved, !.saved = 0] ELSE g

\* eval_const_u64: at parse time a name is 0, and so is an expression that was
\* not built because there is no unit.
AtParse(g, e) ==
  CASE g.unit = 0    -> 0
    [] e.k = "lit"  -> e.v
    [] e.k = "name" -> 0
    [] e.k = "is"   -> IF e.v = 0 THEN 1 ELSE 0

-----------------------------------------------------------------------------
(* Verilog: the actions of generate_stmt, gen_block and gen_case_item.      *)

StartModule(g, m) == LET h == AddUnit(g, m) IN [h EXCEPT !.unit = LastUnit(h)]
\* save_unit
SaveUnit(g) ==
  IF g.unit = 0 THEN g ELSE [g EXCEPT !.done = Append(@, g.unit), !.unit = 0]
\* gen_block's label
BlockLabel(g, l) == [g EXCEPT !.label = l]
ParseItem(g, c) ==
  IF g.unit = 0 THEN g
  ELSE AddLeaf(g, g.unit, [n |-> c.n, at |-> <<>>, of |-> c.of, port |-> c.port,
                           use |-> c.use, arg |-> -1, to |-> 0])

ForEnter(g, c) ==
  IF g.unit = 0 THEN g
  ELSE LET h == AddGen(g, g.unit, [NewGen("loop") EXCEPT !.loop = c])
       IN  PushLabel([Redirect(h, LastGen(h), "body") EXCEPT !.gen = LastGen(h),
                                                             !.saved = g.unit])

ForLeave(g) ==
  IF g.gen = 0 \/ g.saved = 0 THEN g
  ELSE PopLabel([g EXCEPT !.gens[g.gen].flat = g.units[g.gens[g.gen].body],
                          !.gens[g.gen].label = g.label,
                          !.unit = g.saved, !.saved = 0, !.gen = 0])

\* Inside a loop the choice is left to the expansion.
IfEnter(g, e) ==
  IF g.gen # 0
  THEN LET h == AddGen(g, g.unit, [NewGen("if") EXCEPT !.cond = e])
       IN  PushLabel([Redirect(h, LastGen(h), "body") EXCEPT
                        !.ifNode = LastGen(h), !.ifOuter = g.unit,
                        !.nested = TRUE, !.branch = 1])
  ELSE LET h == [g EXCEPT !.active = AtParse(g, e) # 0]
       IN  PushLabel(IF h.active THEN h ELSE Suppress(h))

IfLeave(g) ==
  IF g.nested
  THEN LET h == PopLabel([g EXCEPT !.unit = g.ifOuter, !.ifOuter = 0])
       IN  IF g.branch = 2 THEN [h EXCEPT !.nested = FALSE, !.ifNode = 0, !.branch = 0] ELSE h
  ELSE PopLabel(Resume(g))

ElseEnter(g) ==
  IF g.nested
  THEN PushLabel([Redirect(g, g.ifNode, "else") EXCEPT !.ifOuter = g.unit, !.branch = 2])
  ELSE PushLabel(IF g.active THEN Suppress(g) ELSE g)

CaseEnter(g, e) ==
  IF g.gen # 0
  THEN LET h == AddGen(g, g.unit, [NewGen("case") EXCEPT !.cond = e])
       IN  PushLabel([h EXCEPT !.caseNode = LastGen(h), !.caseOuter = g.unit,
                               !.caseDefault = FALSE, !.caseTemp = 0])
  ELSE [g EXCEPT !.caseVal = AtParse(g, e), !.matched = FALSE]

CaseTemplate(g, default) ==
  LET h == AddUnit(g, NoModule)
  IN  PushLabel([h EXCEPT !.caseTemp = LastUnit(h), !.caseOuter = g.unit,
                          !.unit = LastUnit(h), !.caseDefault = default])

CaseItemEnter(g, pats) ==
  IF g.caseNode # 0
  THEN CaseTemplate([g EXCEPT !.gens[g.caseNode].arms = Append(@, [pats |-> pats, body |-> 0])],
                    FALSE)
  ELSE PushLabel(IF g.unit # 0 /\ g.caseVal \in ToSet(pats) /\ ~g.matched
                 THEN [g EXCEPT !.matched = TRUE] ELSE Suppress(g))

CaseItemLeave(g) ==
  IF g.caseNode = 0 THEN PopLabel(Resume(g))
  ELSE LET n == g.caseNode
           h == IF g.caseDefault THEN [g EXCEPT !.gens[n].default = g.caseTemp]
                ELSE [g EXCEPT !.gens[n].arms[Len(g.gens[n].arms)].body = g.caseTemp]
       IN  PopLabel(IF g.caseTemp = 0 THEN g
                    ELSE [h EXCEPT !.caseTemp = 0, !.unit = g.caseOuter, !.caseOuter = 0])

CaseDefaultEnter(g) ==
  IF g.caseNode # 0 THEN CaseTemplate(g, TRUE)
  ELSE PushLabel(IF g.matched THEN Suppress(g) ELSE g)

CaseLeave(g) ==
  IF g.caseNode = 0 THEN [Resume(g) EXCEPT !.matched = FALSE]
  ELSE PopLabel([g EXCEPT !.unit = IF g.caseOuter # 0 THEN g.caseOuter ELSE @,
                          !.caseNode = 0, !.caseOuter = 0, !.caseTemp = 0,
                          !.caseDefault = FALSE])

-----------------------------------------------------------------------------
(* VHDL: the choice is always left to the expansion.                        *)

VhdlEnter(g, node) ==
  IF g.unit = 0 THEN g
  ELSE LET h == AddGen(g, g.unit, node)
       IN  [Redirect(h, LastGen(h), "body") EXCEPT !.gen = LastGen(h), !.outer = g.unit]
VhdlForEnter(g, c) == VhdlEnter(g, [NewGen("loop") EXCEPT !.loop = c, !.label = c.label])
VhdlIfEnter(g, e)  == VhdlEnter(g, [NewGen("if") EXCEPT !.cond = e])
VhdlElse(g) == IF g.gen = 0 THEN g ELSE Redirect(g, g.gen, "else")

VhdlBack(g) ==
  [g EXCEPT !.unit = IF g.outer # 0 THEN g.outer ELSE @, !.gen = 0, !.outer = 0]
VhdlForLeave(g) ==
  VhdlBack(IF g.gen = 0 THEN g ELSE [g EXCEPT !.gens[g.gen].flat = g.units[g.gens[g.gen].body]])
VhdlIfLeave(g) == IF g.gen = 0 THEN g ELSE VhdlBack(g)

-----------------------------------------------------------------------------
(* Cloning.  A substitution s is a genvar, its value and the prefix of the  *)
(* names declared; the empty sequence substitutes nothing.                  *)

\* eval_const_u64_subst
Const(e, params, s) ==
  LET of(n) == IF s # <<>> /\ s.var = n THEN s.val
               ELSE IF n \in DOMAIN params THEN params[n] ELSE 0
  IN  CASE e.k = "lit"  -> e.v
        [] e.k = "name" -> of(e.n)
        [] e.k = "is"   -> IF of(e.n) = e.v THEN 1 ELSE 0

CloneExpr(e, s) ==
  IF s = <<>> \/ e.k = "lit" \/ e.n # s.var THEN e
  ELSE IF e.k = "name" THEN Lit(s.val) ELSE Lit(IF s.val = e.v THEN 1 ELSE 0)

CloneLeaf(leaf, s) ==
  IF s = <<>> THEN leaf
  ELSE [leaf EXCEPT !.at = <<<<s.label, s.val>>>> \o @,
                    !.arg = IF leaf.use = s.var THEN s.val ELSE @]

RECURSIVE CloneInto(_, _, _, _)
\* Seeded fault: the clone of a node refers to the original's templates.
CloneShared(g, u, n, s) == AddGen(g, u, [g.gens[n] EXCEPT !.cond = CloneExpr(@, s)])

\* clone_node_internal of a generate node: its templates are cloned too, its
\* body items are not.
CloneGen(g, u, n, s) ==
  LET node == g.gens[n]
      Template(acc, t) ==  \* acc: the memory and the new templates so far
        IF t = 0 THEN [acc EXCEPT !.to = Append(@, 0)]
        ELSE LET h == AddUnit(acc.g, NoModule)
             IN  [g |-> CloneInto(h, LastUnit(h), g.units[t], s),
                  to |-> Append(acc.to, LastUnit(h))]
      arms == [i \in DOMAIN node.arms |-> node.arms[i].body]
      h0 == AddGen(g, u, [node EXCEPT !.cond = CloneExpr(@, s), !.flat = NewUnit(NoModule)])
      r  == FoldLeft(Template, [g |-> h0, to |-> <<>>],
                     <<node.body, node.else, node.default>> \o arms)
  IN  [r.g EXCEPT !.gens[LastGen(h0)] =
         [@ EXCEPT !.body = r.to[1], !.else = r.to[2], !.default = r.to[3],
                   !.arms = [i \in DOMAIN @ |-> [@[i] EXCEPT !.body = r.to[i + 3]]]]]

\* Everything unit t holds, cloned into unit u.
CloneInto(g, u, t, s) ==
  FoldLeft(LAMBDA h, n : CloneGen(h, u, n, s),
           FoldLeft(LAMBDA h, l : AddLeaf(h, u, CloneLeaf(l, s)), g, t.leaves), t.gens)

-----------------------------------------------------------------------------
(* Expansion.                                                               *)

\* The values of a loop's genvar.
RECURSIVE Iterate(_, _, _, _)
Iterate(c, last, v, left) ==
  IF left = 0 \/ (c.dir > 0 /\ v > last) \/ (c.dir < 0 /\ v < last) THEN <<>>
  ELSE <<v>> \o Iterate(c, last, (v + c.dir + Word) % Word, left - 1)

\* expand_generate_for
ExpandFor(g, u, node) ==
  LET params == g.units[u].m.params
      c == node.loop
      vals == Iterate(c, Const(c.last, params, <<>>), Const(c.from, params, <<>>), MaxIter)
      Sub(v) == [var |-> c.var, val |-> v, label |-> node.label]
  IN  IF node.label = None THEN g
      ELSE FoldLeft(LAMBDA h, v : CloneInto(h, u, node.flat, Sub(v)), g, vals)

ExpandCase(g, u, node) ==
  LET on == Const(node.cond, g.units[u].m.params, <<>>)
      i == SelectInSeq(node.arms, LAMBDA a : on \in ToSet(a.pats))
  IN  IF i > 0 THEN node.arms[i].body ELSE node.default

\* The template an if or a case stands for; 0 if none.
Choice(g, u, node) ==
  IF node.k = "case" THEN ExpandCase(g, u, node)
  ELSE IF Const(node.cond, g.units[u].m.params, <<>>) # 0 THEN node.body ELSE node.else

ExpandOne(g, u, n) ==
  LET node == g.gens[n]
      h == IF node.k = "loop" THEN ExpandFor(g, u, node)
           ELSE IF Choice(g, u, node) = 0 THEN g
           ELSE CloneInto(g, u, g.units[Choice(g, u, node)], <<>>)
  IN  [h EXCEPT !.gens[n] = [@ EXCEPT !.body = 0, !.else = 0, !.label = None],
                !.dead = @ \cup ({node.body, node.else} \ {0})]

\* Seeded fault: what a pass adds is dropped with what it expanded.
ExpandPassOnce(g, u) ==
  [FoldLeft(LAMBDA h, n : ExpandOne(h, u, n), g, g.units[u].gens) EXCEPT !.units[u].gens = <<>>]

\* One round of expand_unit_generates: nodes added by it are kept for the next.
ExpandPass(g, u) ==
  LET old == g.units[u].gens
      h == FoldLeft(LAMBDA x, n : ExpandOne(x, u, n), g, old)
  IN  [h EXCEPT !.units[u].gens = SubSeq(@, Len(old) + 1, Len(@))]

-----------------------------------------------------------------------------
(* Vocabulary of the properties.                                            *)

Templates(node) ==
  <<node.body, node.else, node.default>> \o [i \in DOMAIN node.arms |-> node.arms[i].body]

\* The templates that the pending nodes of unit u, and of those templates, use.
RECURSIVE Reach(_, _)
Reach(g, u) ==
  FlattenSeq([i \in DOMAIN g.units[u].gens |->
    LET ts == SelectSeq(Templates(g.gens[g.units[u].gens[i]]), LAMBDA t : t # 0)
    IN  ts \o FlattenSeq([j \in DOMAIN ts |-> Reach(g, ts[j])])])
=============================================================================
