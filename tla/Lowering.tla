------------------------------ MODULE Lowering ------------------------------
(***************************************************************************)
(* How the front ends turn the statements of a process into nodes of the   *)
(* intermediate representation (verilog_parser.c, vhdl_parser.c): the      *)
(* grammar's actions, with the parser's globals as fields of one record.   *)
(*                                                                         *)
(* Blocks are shared and changed in place, so they live in a heap and      *)
(* nodes name them.  A statement that needs one of the single globals      *)
(* (delay, event, loop, name, items) while an enclosing one is using it    *)
(* overwrites it, as in the code.                                          *)
(***************************************************************************)
EXTENDS SourceOrder

NoNode == [k |-> "null"]

\* The parser's state: the blocks built so far, the open ones, the expression
\* stack, and the globals of the constructs being read.
Parser ==
  [heap |-> <<>>, stack |-> <<>>, exprs |-> <<>>, delay |-> <<>>, event |-> None,
   name |-> None, loop |-> FALSE, then |-> 0, else |-> 0, hadElse |-> FALSE,
   chain |-> <<>>, ifs |-> <<>>, items |-> <<>>, item |-> 0, default |-> 0,
   cases |-> <<>>, loops |-> FALSE]

\* uir_add_block; push_stmt_block and pop_stmt_block.
NewBlock(p, nm) == [p EXCEPT !.heap = Append(@, [name |-> nm, stmts |-> <<>>])]
Newest(p) == Len(p.heap)
Push(p, b) == IF Len(p.stack) < StackMax THEN [p EXCEPT !.stack = Append(@, b)] ELSE p
Pop(p) == IF p.stack = <<>> THEN p ELSE [p EXCEPT !.stack = Front(@)]
Open(p, nm) == LET q == NewBlock(p, nm) IN Push(q, Newest(q))

Current(p) == IF p.stack = <<>> THEN <<>> ELSE p.heap[Last(p.stack)].stmts
\* append_stmt; the last statement of the current block taken back.
Emit(p, n) ==
  IF p.stack = <<>> THEN p ELSE [p EXCEPT !.heap[Last(p.stack)].stmts = Append(@, n)]
TakeLast(p) == [p EXCEPT !.heap[Last(p.stack)].stmts = Front(@)]

PushExpr(p, e) == [p EXCEPT !.exprs = Append(@, e)]
TopExpr(p) == IF p.exprs = <<>> THEN None ELSE Last(p.exprs)
PopExpr(p) == IF p.exprs = <<>> THEN p ELSE [p EXCEPT !.exprs = Front(@)]

-----------------------------------------------------------------------------
(* Verilog: timing controls wrap the last statement of the current block.   *)

\* do_delay_finish; again is always_loop, the body's own repetition.
DelayFinish(p) ==
  LET done == [p EXCEPT !.delay = <<>>]
      node(b) == [k |-> "delay", n |-> p.delay[1], body |-> b, again |-> p.loops]
  IN  IF p.delay = <<>> \/ p.stack = <<>> THEN done
      ELSE IF Current(p) = <<>> THEN Emit(done, node(NoNode))
      ELSE Emit(TakeLast(done), node(Last(Current(p))))

\* do_event_finish
EventFinish(p) ==
  LET done == [p EXCEPT !.event = None]
  IN  IF p.event = None \/ Current(p) = <<>> THEN done
      ELSE Emit(TakeLast(done),
                [k |-> "at", sig |-> p.event, body |-> Last(Current(p))])

\* do_wait_finish: without a statement to wrap the condition goes back.
WaitFinish(p) ==
  IF p.exprs = <<>> \/ Current(p) = <<>> THEN p
  ELSE Emit(TakeLast(PopExpr(p)),
            [k |-> "wait", sig |-> TopExpr(p), body |-> Last(Current(p))])

\* end_named_block: the block to append is found by the one saved name.
EndNamed(p0) ==
  LET p == Pop(p0)
      b == SelectLastInSeq(p.heap, LAMBDA x : x.name = p.name)
  IN  IF p.stack = <<>> \/ p.name = None \/ b = 0 THEN p
      ELSE [Emit(p, [k |-> "block", id |-> b]) EXCEPT !.name = None]

-----------------------------------------------------------------------------
(* restructure_delays: what follows the first suspending node of a block    *)
(* moves into that node's body.                                             *)

Inner(n) ==
  CASE n.k = "block" -> <<n.id>>
    [] n.k \in Timing /\ n.body.k = "block" -> <<n.body.id>>
    [] n.k = "if" -> SelectSeq(<<n.then, n.else>>, LAMBDA b : b # 0)
    [] n.k = "loop" -> <<n.loop>>
    [] OTHER -> <<>>

\* What follows statement i of block b becomes, with i's own body, a new block.
MoveAfter(h, b, i) ==
  LET l == h[b].stmts
      body == IF l[i].body = NoNode THEN <<>> ELSE <<l[i].body>>
      cont == [name |-> None, stmts |-> body \o SubSeq(l, i + 1, Len(l))]
  IN  [Append(h, cont) EXCEPT
         ![b].stmts = Append(SubSeq(l, 1, i - 1),
                             [l[i] EXCEPT !.body = [k |-> "block", id |-> Len(h) + 1]])]

\* The first suspending statement of block b; 0 when nothing follows it.
SuspendsAt(h, b) ==
  LET i == SelectInSeq(h[b].stmts, LAMBDA n : n.k \in Timing)
  IN  IF i = Len(h[b].stmts) THEN 0 ELSE i

RECURSIVE Restructure(_, _), RestructureBlock(_, _)
\* Seeded fault: the continuation is not restructured again.
RestructureOnce(h, b) ==
  IF SuspendsAt(h, b) = 0 THEN h ELSE MoveAfter(h, b, SuspendsAt(h, b))

\* The block itself, once the blocks inside it are restructured.
RestructureBlock(h, b) ==
  IF SuspendsAt(h, b) = 0 THEN h
  ELSE Restructure(MoveAfter(h, b, SuspendsAt(h, b)), Len(h) + 1)

Restructure(h, b) ==
  LET inner == FlattenSeq([i \in DOMAIN h[b].stmts |-> Inner(h[b].stmts[i])])
  IN  RestructureBlock(FoldLeft(Restructure, h, inner), b)

Restructured(p, b) == [p EXCEPT !.heap = Restructure(@, b)]

-----------------------------------------------------------------------------
(* Loops, of both languages: the body, a step and a jump back to it.        *)

\* The loop's block is the body read as block b, the step and the jump.
EndLoop(p, b, n, lang) ==
  LET a == Newest(p)
      step == IF n = Endless THEN <<>> ELSE <<[k |-> "step", loop |-> a]>>
      q == [p EXCEPT !.heap[a].stmts =
              p.heap[b].stmts \o step \o <<[k |-> "back", loop |-> a, n |-> n]>>]
      r == IF lang = "verilog" THEN Restructured(q, a) ELSE q
  IN  [Emit(r, [k |-> "loop", loop |-> a, n |-> n]) EXCEPT !.loop = FALSE]

\* do_for_finish, do_repeat_finish, do_while_finish, do_forever_finish and
\* vhdl_for_loop_finish, which does not restructure.
LoopFinish(p, n, lang) ==
  IF p.loop THEN EndLoop(NewBlock(Pop(p), None), Last(p.stack), n, lang) ELSE Pop(p)

-----------------------------------------------------------------------------
(* Conditionals.  The branches being built are globals, saved when an if    *)
(* begins inside another and restored when it ends.                         *)

\* if_then_start and vhdl_if_then_start.
ThenStart(p0) ==
  LET saved == [then |-> p0.then, else |-> p0.else, had |-> p0.hadElse, chain |-> p0.chain]
      p == IF Len(p0.ifs) < IfNest THEN [p0 EXCEPT !.ifs = Append(@, saved)] ELSE p0
      q == Open([p EXCEPT !.hadElse = FALSE, !.chain = <<>>], None)
  IN  [q EXCEPT !.then = Newest(q)]

\* vhdl_if_elsif_start: the finished branch is put aside.
ElsifStart(p) ==
  LET q == Open([Pop(p) EXCEPT !.chain = Append(@, p.then)], None)
  IN  [q EXCEPT !.then = Newest(q)]

\* if_else_start and vhdl_if_else_start.
ElseStart(p) ==
  LET q == Open(Pop(p), None)
  IN  [q EXCEPT !.else = Newest(q), !.hadElse = TRUE]

\* The state of the enclosing if; without one only the else flag is dropped.
RestoreIf(p) ==
  IF p.ifs = <<>> THEN [p EXCEPT !.hadElse = FALSE]
  ELSE LET s == Last(p.ifs)
       IN  [p EXCEPT !.ifs = Front(@), !.then = s.then, !.else = s.else,
                     !.hadElse = s.had, !.chain = s.chain]

IfNode(p, then, else) == [k |-> "if", c |-> TopExpr(p), then |-> then, else |-> else]

\* Seeded fault: the condition is read, not taken.
EmitIfKeeping(p) ==
  IF p.exprs = <<>> THEN p
  ELSE Emit(p, IfNode(p, p.then, IF p.hadElse THEN p.else ELSE 0))

\* if_finish, from the branches on: without a condition no statement.
EmitIf(p) ==
  IF p.exprs = <<>> THEN p
  ELSE Emit(PopExpr(p), IfNode(p, p.then, IF p.hadElse THEN p.else ELSE 0))
IfFinish(p) ==
  LET q == Restructured(Pop(p), p.then)
  IN  RestoreIf(EmitIf(IF p.hadElse THEN Restructured(q, p.else) ELSE q))

RECURSIVE Chained(_, _)
\* vhdl_if_finish: the chain is closed from the innermost condition outwards;
\* an elsif becomes a block of one if, which executes as that if.
Chained(p, node) ==
  IF p.chain = <<>> THEN RestoreIf(Emit(p, node))
  ELSE LET h == NewBlock(p, None)
           q == [h EXCEPT !.heap[Newest(h)].stmts = <<node>>]
       IN  Chained([PopExpr(q) EXCEPT !.chain = Front(@)],
                   IfNode(q, Last(q.chain), Newest(q)))
VhdlIfFinish(p0) ==
  LET p == Pop(p0)
  IN  Chained(PopExpr(p), IfNode(p, p.then, IF p.hadElse THEN p.else ELSE 0))

\* do_case_enter, vhdl_case_enter: only the VHDL reader saves the outer case.
CaseEnter(p, lang) ==
  LET saved == [items |-> p.items, item |-> p.item, default |-> p.default]
      q == IF lang = "vhdl" THEN [p EXCEPT !.cases = Append(@, saved)] ELSE p
  IN  [q EXCEPT !.items = <<>>, !.default = 0]

ItemEnter(p) == LET q == Open(p, None) IN [q EXCEPT !.item = Newest(q)]

\* do_case_item_finish
ItemFinish(p0, pat) ==
  LET p == Pop(p0)
  IN  IF p.item = 0 THEN p
      ELSE [p EXCEPT !.items = Append(@, [c |-> pat, body |-> p.item]), !.item = 0]

DefaultEnter(p) == LET q == Open(p, None) IN [q EXCEPT !.default = Newest(q)]

\* do_case_finish, vhdl_case_finish
CaseFinish(p, pick, lang) ==
  LET q == [Emit(p, [k |-> "case", pick |-> pick, items |-> p.items,
                     default |-> p.default]) EXCEPT !.items = <<>>]
      s == Last(p.cases)
  IN  IF lang = "verilog" THEN q
      ELSE [q EXCEPT !.items = s.items, !.item = s.item, !.default = s.default,
                     !.cases = Front(@)]

-----------------------------------------------------------------------------
(* The grammar.                                                             *)

EndIf(p, lang) == IF lang = "vhdl" THEN VhdlIfFinish(p) ELSE IfFinish(p)

RECURSIVE Read(_, _, _), ReadAll(_, _, _), ReadArms(_, _, _), ReadItems(_, _, _)
ReadAll(p, l, lang) == FoldLeft(LAMBDA q, s : Read(q, s, lang), p, l)
\* The branches of an if after its first condition was read.
ReadArms(p, s, lang) ==
  LET arm(q, a) == ReadAll(ElsifStart(PushExpr(q, a.c)), a.body, lang)
      arms == FoldLeft(arm, ReadAll(ThenStart(p), s.arms[1].body, lang), Tail(s.arms))
  IN  IF s.other = <<>> THEN arms ELSE ReadAll(ElseStart(arms), s.other, lang)
ReadItems(p, s, lang) ==
  LET one(q, a) == ItemFinish(ReadAll(ItemEnter(q), a.body, lang), a.c)
      all == FoldLeft(one, CaseEnter(p, lang), s.arms)
  IN  IF s.other = <<>> THEN all ELSE Pop(ReadAll(DefaultEnter(all), s.other, lang))
Read(p, s, lang) ==
  CASE s.op = "assign"  -> Emit(p, [k |-> "do", lab |-> s.lab])
    [] s.op = "put"     -> Emit(p, [k |-> "put", sig |-> s.sig, v |-> s.v])
    [] s.op = "trigger" -> Emit(p, [k |-> "trigger", sig |-> s.sig])
    [] s.op = "disable" -> Emit(p, [k |-> "disable", name |-> s.name])
    [] s.op = "null"    -> p
    [] s.op = "begin"   -> ReadAll(p, s.body, lang)
    [] s.op = "named"   ->
         EndNamed(ReadAll([Open(p, s.name) EXCEPT !.name = s.name], s.body, lang))
    [] s.op = "delay" /\ lang = "vhdl" ->
         ReadAll(Emit(p, [k |-> "delay", n |-> s.n, body |-> NoNode, again |-> FALSE]),
                 s.body, lang)
    [] s.op = "wait" /\ lang = "vhdl" ->
         ReadAll(Emit(p, [k |-> "wait", sig |-> s.sig, body |-> NoNode]), s.body, lang)
    [] s.op = "delay" -> DelayFinish(ReadAll([p EXCEPT !.delay = <<s.n>>], s.body, lang))
    [] s.op = "at"    -> EventFinish(ReadAll([p EXCEPT !.event = s.sig], s.body, lang))
    [] s.op = "wait"  -> WaitFinish(ReadAll(PushExpr(p, s.sig), s.body, lang))
    [] s.op = "loop"  ->
         LoopFinish(ReadAll([Open(p, None) EXCEPT !.loop = TRUE], s.body, lang), s.n, lang)
    [] s.op = "if"    ->
         EndIf(ReadArms(PushExpr(p, s.arms[1].c), s, lang), lang)
    [] s.op = "case"  -> CaseFinish(ReadItems(p, s, lang), s.pick, lang)
    [] s.op = "call"  ->  \* start_task: the task's body is a block of its own
         LET q == Open([Parser EXCEPT !.heap = p.heap], None)
             r == ReadAll(q, s.body, lang)
         IN  Emit([p EXCEPT !.heap = r.heap],
                  [k |-> "call", name |-> s.name, body |-> Newest(q)])

\* finish_process: the heap of a process whose body is block 1.  The grammar
\* turns always @(...) into a sensitivity list, so an always block repeats
\* through its delays.
Lower(proc) ==
  LET p == Open([Parser EXCEPT !.loops = proc.kind = "always"], None)
      q == Pop(ReadAll(p, proc.body, proc.lang))
  IN  IF proc.lang = "verilog" THEN Restructure(q.heap, 1) ELSE q.heap
=============================================================================
