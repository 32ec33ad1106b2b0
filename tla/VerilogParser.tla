---------------------------- MODULE VerilogParser ----------------------------
(***************************************************************************)
(* verilog_parse (verilog_parser.c): a text is matched against the         *)
(* grammar; once the match is over the queued actions build the design     *)
(* units through the globals below.  Several texts are read one after      *)
(* another in one process, and a global not reset keeps what an earlier    *)
(* text left in it.                                                        *)
(*                                                                         *)
(* Lowering has the functions for blocks, timing controls and ifs; this    *)
(* module has the others.  An expression is a tuple of its operator and    *)
(* operands; an expression that may be missing is <<>> or <<e>>.           *)
(***************************************************************************)
EXTENDS Peg, Lowering

CONSTANTS Batches,     \* what a process may be given to read, by a name
          TextsOf(_),  \* the texts of such a batch
          Grammar      \* the rules of the grammar: those of VerilogGrammar

-----------------------------------------------------------------------------
(* The unit being read, and the globals.                                    *)

Unit(nm, kind) ==
  [name |-> nm, interface |-> kind = "interface", ports |-> <<>>, signals |-> <<>>,
   assigns |-> <<>>, processes |-> <<>>, instances |-> <<>>, funcs |-> <<>>,
   params |-> <<>>, defparams |-> <<>>, attrs |-> <<>>, modports |-> <<>>,
   imports |-> <<>>]
NoUnit == Unit(None, None)

\* func and process are positions in the unit's lists, blocks positions in the
\* heap; 0 is none.  then to ifs and item, items, default are as in Lowering.
Globals ==
  [unit |-> NoUnit, units |-> <<>>, ok |-> FALSE, at_end |-> FALSE, consumed |-> FALSE,
   crashed |-> FALSE, heap |-> <<>>, stack |-> <<>>, exprs |-> <<>>,
   saved |-> None, saved2 |-> None, saved3 |-> None, name |-> None,
   range_msb |-> 0, range_lsb |-> 0, saved_range_width |-> 1,
   array_msb |-> 0, array_lsb |-> 0, array_size |-> 0, array_dims |-> <<>>,
   decl_signed |-> FALSE, decl_automatic |-> FALSE, port_sig_type |-> "wire",
   net_type |-> "wire", modport_dir |-> "in", bare |-> <<>>, genvars |-> {},
   events |-> {}, param_name |-> None, defparam_path |-> None, attrs |-> <<>>,
   func |-> 0, func_ports_mode |-> FALSE, func_call_name |-> None, func_call_sp |-> 0,
   process |-> 0, sens |-> <<>>, edge_flag |-> 0, auto_sens |-> FALSE, loops |-> FALSE,
   delay |-> <<>>, assign_lhs |-> None, lhs_index |-> <<>>, lhs_hi |-> <<>>,
   lhs_lo |-> <<>>, multi_id |-> None, multi_indices |-> <<>>, array_id |-> None,
   concat_names |-> <<>>, concat_sp |-> 0, repl_count |-> 0,
   then |-> 0, else |-> 0, hadElse |-> FALSE, chain |-> <<>>, ifs |-> <<>>,
   case_sp |-> <<>>, patterns |-> <<>>, items |-> <<>>, item |-> 0, default |-> 0,
   loop_init |-> <<>>, loop_cond |-> <<>>, loop_step |-> <<>>, loop_count |-> <<>>,
   loop_body |-> 0, repeat_id |-> 0]

\* The globals that verilog_parse leaves as the text before left them.
Reset(p) ==
  [Globals EXCEPT
     !.decl_signed = p.decl_signed, !.decl_automatic = p.decl_automatic,
     !.net_type = p.net_type, !.events = p.events, !.param_name = p.param_name,
     !.func_ports_mode = p.func_ports_mode, !.lhs_hi = p.lhs_hi, !.lhs_lo = p.lhs_lo,
     !.multi_id = p.multi_id, !.multi_indices = p.multi_indices,
     !.concat_sp = p.concat_sp, !.repl_count = p.repl_count, !.ifs = p.ifs,
     !.patterns = p.patterns, !.items = p.items, !.item = p.item,
     !.default = p.default, !.repeat_id = p.repeat_id]

\* strdup of no name
Crash(p) == [p EXCEPT !.crashed = TRUE]

Add(p, list, x) == [p EXCEPT !.unit[list] = Append(@, x)]
\* The one global an expression or a statement is taken into.
Popped(p) == IF p.exprs = <<>> THEN <<>> ELSE <<Last(p.exprs)>>
\* The top n expressions replaced by one built from them; gone when too few.
Combine(p, n, Node(_)) ==
  LET k == Len(p.exprs) - n IN
  [p EXCEPT !.exprs =
     IF k < 0 THEN <<>>
     ELSE Append(SubSeq(@, 1, k), Node(SubSeq(@, k + 1, Len(@))))]

-----------------------------------------------------------------------------
(* Declarations.                                                            *)

Span(msb, lsb) == (IF msb >= lsb THEN msb - lsb ELSE lsb - msb) + 1

\* uir_find_signal
Declared(p, nm) == SelectSeq(p.unit.ports \o p.unit.signals, LAMBDA d : d.name = nm)

\* uir_add_port, uir_add_signal, uir_add_func_port
Port(nm, dir, msb, lsb, type) ==
  [name |-> nm, dir |-> dir, type |-> type, width |-> Span(msb, lsb), msb |-> msb,
   lsb |-> lsb, signed |-> FALSE, size |-> 0, dims |-> <<>>]
Signal(nm, type, width, size) ==
  [name |-> nm, type |-> type, width |-> width, signed |-> FALSE, size |-> size,
   dims |-> <<>>]
FuncPort(p, nm, dir, width) ==
  [p EXCEPT !.unit.funcs[p.func].ports =
     Append(@, [name |-> nm, dir |-> dir, width |-> width])]
FuncLocal(p, s) == [p EXCEPT !.unit.funcs[p.func].locals = Append(@, s)]

\* The signedness and the dimensions read last: set_signal_array_dims.
Attributed(p, s) == [s EXCEPT !.signed = p.decl_signed, !.dims = p.array_dims]

\* parse_range_width
RangeWidth(p) == Span(p.range_msb, p.range_lsb)
\* The width of the first name of a list, which uses the range up, or of the others.
Width(p, of) == IF of = "range_width" THEN RangeWidth(p) ELSE p.saved_range_width
RangeUsed(p, of) ==
  IF of = "range_width" THEN [p EXCEPT !.range_msb = 0, !.range_lsb = 0] ELSE p

\* Seeded fault: a name of the header is not struck off once it is declared.
DeclPortKeeping(p, nm, dir, type, w) ==
  CASE p.func # 0 -> FuncPort(p, nm, dir, w)
    [] p.func = 0 /\ nm \in ToSet(p.bare) ->
         Add(p, "ports", [Port(nm, dir, w - 1, 0, type) EXCEPT !.signed = p.decl_signed])
    [] OTHER -> Add(p, "signals", Attributed(p, Signal(nm, type, w, p.array_size)))

\* decl_input, decl_output, decl_inout: a port of the function, a port named in
\* the module's header, or else a signal.
DeclPort(p, nm, dir, type, w) ==
  CASE p.func # 0 -> FuncPort(p, nm, dir, w)
    [] p.func = 0 /\ nm \in ToSet(p.bare) ->
         [Add(p, "ports", [Port(nm, dir, w - 1, 0, type) EXCEPT !.signed = p.decl_signed])
          EXCEPT !.bare = [i \in DOMAIN @ |-> IF @[i] = nm THEN None ELSE @[i]]]
    [] OTHER -> Add(p, "signals", Attributed(p, Signal(nm, type, w, p.array_size)))

\* decl_reg, decl_logic; _parse_add_signal_signed
DeclSignal(p, nm, type, w, size) ==
  IF p.func # 0 THEN FuncLocal(p, Attributed(p, Signal(nm, type, w, size)))
  ELSE Add(p, "signals", Attributed(p, Signal(nm, type, w, size)))
DeclNet(p, w) ==
  Add(p, "signals", Attributed(p, Signal(p.saved, p.net_type, w, p.array_size)))

\* decl_real, decl_real_port
Real(nm) == [Signal(nm, "real", 64, 0) EXCEPT !.signed = TRUE]
DeclReal(p, nm) ==
  IF p.func # 0 THEN FuncLocal(p, Real(nm)) ELSE Add(p, "signals", Real(nm))
DeclRealPort(p, nm) ==
  IF p.func # 0 THEN FuncPort(p, nm, "in", 64) ELSE Add(p, "signals", Real(nm))

\* _parse_add_port_signed
AddPortSigned(p, dir) ==
  IF p.func_ports_mode /\ p.func # 0 THEN FuncPort(p, p.saved, dir, RangeWidth(p))
  ELSE Add(p, "ports",
           [Attributed(p, Port(p.saved, dir, p.range_msb, p.range_lsb, p.port_sig_type))
            EXCEPT !.size = p.array_size])

\* add_bare_port_name, create_ports_from_named
AddBare(p, nm) ==
  IF nm \in ToSet(p.bare) THEN p ELSE [p EXCEPT !.bare = Append(@, nm)]
PortsFromNamed(p) ==
  FoldLeft(LAMBDA q, nm : IF nm = None THEN q
                          ELSE Add(q, "ports", Port(nm, "inout", 0, 0, "wire")),
           p, p.bare)

\* do_decl_init_assign
InitAssign(p) ==
  IF p.exprs = <<>> THEN p
  ELSE Add(PopExpr(p), "assigns",
           [lhs |-> <<"ref", p.saved>>, rhs |-> Last(p.exprs), delay |-> <<>>])

\* the actions of array_range and range
ArrayRange(p) ==
  LET dim == Span(p.array_msb, p.array_lsb) IN
  [p EXCEPT !.array_dims = Append(@, dim),
            !.array_size = IF @ = 0 THEN dim ELSE @ * dim]

DeclEvent(p, nm) ==
  Add([p EXCEPT !.events = @ \cup {nm}], "signals", Signal(nm, "event", 1, 0))

\* save_defparam_extend, save_defparam_value; save_param_value
DefparamExtend(p, nm) ==
  [p EXCEPT !.defparam_path = IF @ = None THEN None ELSE @ \o "." \o nm]
DefparamValue(p) ==
  IF p.defparam_path = None \/ p.exprs = <<>> THEN PopExpr(p)
  ELSE [Add(PopExpr(p), "defparams", <<p.defparam_path, Last(p.exprs)>>)
        EXCEPT !.defparam_path = None]
ParamValue(p) ==
  IF p.param_name = None \/ p.exprs = <<>> THEN [PopExpr(p) EXCEPT !.param_name = None]
  ELSE [Add(PopExpr(p), "params", <<p.param_name, Last(p.exprs)>>)
        EXCEPT !.param_name = None]

\* save_attr_val, finish_attr_list
AttrVal(p, v) == [p EXCEPT !.attrs[Len(p.attrs)] = <<@[1], v>>]
FinishAttrs(p) == [p EXCEPT !.unit.attrs = @ \o p.attrs, !.attrs = <<>>]

\* add_modport_port, do_import
ModportPort(p, nm) ==
  [p EXCEPT !.unit.modports[Len(p.unit.modports)].ports =
     Append(@, <<nm, p.modport_dir>>)]
Import(p, item) == Add(p, "imports", <<p.saved, item>>)

-----------------------------------------------------------------------------
(* Functions, tasks, instances.                                             *)

\* start_function, start_task; finish_function, finish_task
StartFunc(p0, isFunction) ==
  LET p == Open(p0, None)
      f == [name |-> p.saved, function |-> isFunction, automatic |-> p.decl_automatic,
            width |-> IF isFunction THEN RangeWidth(p) ELSE 0,
            ports |-> <<>>, locals |-> <<>>, body |-> Newest(p)]
      q == [Add(p, "funcs", f) EXCEPT !.func = Len(p.unit.funcs) + 1]
  IN  IF ~isFunction THEN q
      ELSE DeclSignal(RangeUsed(q, "range_width"), p.saved, "reg", f.width, 0)
FinishFunc(p) == IF p.func = 0 THEN p ELSE [Pop(p) EXCEPT !.func = 0]

\* do_func_port_enter; func_port_cleanup; do_func_port_simple
FuncPortEnter(p) ==
  IF p.saved = None THEN p ELSE [StartFunc(p, TRUE) EXCEPT !.func_ports_mode = TRUE]
FuncPortCleanup(p) == [p EXCEPT !.decl_automatic = FALSE, !.saved = None]
FuncPortSimple(p) == FuncPortCleanup(StartFunc(p, TRUE))

\* What was pushed since the call's mark, which a nested call has moved.
Args(p) == SubSeq(p.exprs, p.func_call_sp + 1, Len(p.exprs))
ArgsTaken(p) ==
  IF Len(p.exprs) <= p.func_call_sp THEN p
  ELSE [p EXCEPT !.exprs = SubSeq(@, 1, p.func_call_sp)]
\* do_func_call_expr, do_task_enable_stmt, do_sys_display
FuncCall(p) ==
  IF p.func_call_name = None THEN Crash(p)
  ELSE PushExpr(ArgsTaken(p), <<"call", p.func_call_name, Args(p)>>)
TaskEnable(p) ==
  IF p.func_call_name = None THEN Crash(p)
  ELSE Emit(ArgsTaken(p), [k |-> "enable", name |-> p.func_call_name, args |-> Args(p)])
SysTask(p, kind, texts, args) ==
  Emit(p, [k |-> "sys", kind |-> kind, texts |-> texts, args |-> args])
SysDisplay(p, kind) ==
  SysTask(ArgsTaken(p), kind, IF kind = "FCLOSE" THEN <<>> ELSE <<p.saved>>, Args(p))

\* uir_add_instance, uir_add_connection, do_conn_modport
AddInstance(p, nm) ==
  IF p.saved = None THEN Crash(p)
  ELSE Add(p, "instances", [name |-> nm, module |-> p.saved, conns |-> <<>>])
Connect(p, actual, modport) ==
  IF p.saved = None THEN p
  ELSE [p EXCEPT !.unit.instances[Len(p.unit.instances)].conns =
          Append(@, [formal |-> p.saved, actual |-> actual, modport |-> modport])]
\* The modport's name is freed right after it was stored.
Freed == "freed"
ConnModport(p) == Connect(p, <<<<"ref", p.saved3>>>>, Freed)

-----------------------------------------------------------------------------
(* Expressions.                                                             *)

Lit(width, v) == <<"num", width, v>>
\* parse_number_literal, of <<size, value>> or, for a real, three values.
Number(x) ==
  IF Len(x) = 3 THEN <<"real", x[1], x[2]>>
  ELSE Lit(IF x[1] = 0 THEN 32 ELSE x[1], x[2])
\* atoi of a number's text stops at the quote of a sized one.
Leading(x) == IF x[1] = 0 THEN x[2] ELSE x[1]

RECURSIVE NodeWidth(_, _)
\* infer_node_width: operators without an operand to follow count as one bit.
NodeWidth(p, e) ==
  CASE e[1] \in {"num", "real"} -> e[2]
    [] e[1] \in {"ref", "index", "part", "both", "multi"} ->
         IF Declared(p, e[2]) = <<>> THEN 1 ELSE Head(Declared(p, e[2])).width
    [] e[1] \in {"?", "call", "sys"} -> 1
    [] OTHER -> Max({NodeWidth(p, e[i]) : i \in 2..Len(e)})

\* ensure_implicit_wire; make_ref_implicit, also for a dotted name
Dotted(nm) == \E i \in 1..Len(nm) : SubSeq(nm, i, i) = "."
EnsureWire(p, nm, width) ==
  IF \/ nm = None \/ Dotted(nm) \/ Declared(p, nm) # <<>>
     \/ nm \in p.genvars \cup p.events \/ \E i \in DOMAIN p.unit.params : p.unit.params[i][1] = nm
  THEN p ELSE Add(p, "signals", Signal(nm, "wire", width, 0))
RefImplicit(p, nm) == PushExpr(EnsureWire(p, nm, 1), <<"ref", nm>>)
HierRef(p) == IF p.assign_lhs = None THEN Crash(p) ELSE RefImplicit(p, p.assign_lhs)
\* hier_append_lhs
HierAppend(p, nm) ==
  [p EXCEPT !.assign_lhs = IF @ = None THEN None ELSE @ \o "." \o nm]

\* do_part_select, do_indexed_part_select: the bounds of [base +: width] and
\* [base -: width]
PartSelect(p) == Combine(p, 2, LAMBDA a : <<"part", p.array_id, a[1], a[2]>>)
IndexedPart(p, dir) ==
  LET bounds(b, w) == IF dir = "ADD" THEN <<<<"ADD", b, <<"SUB", w, Lit(32, 1)>>>>, b>>
                      ELSE <<b, <<"SUB", b, <<"SUB", w, Lit(32, 1)>>>>>>
      node(b) == <<"part", p.array_id, b[1], b[2]>>
  IN  Combine(p, 2, LAMBDA a : node(bounds(a[1], a[2])))
\* do_index_part_select: the first index saved is the element's
IndexPart(p) ==
  Combine(p, 2, LAMBDA a : <<"both", p.array_id, p.multi_indices[1], a[1], a[2]>>)
\* Each needs the name saved before the bracket, which a nested one has freed.
Selected(p, q, n) ==
  IF p.array_id = None THEN [p EXCEPT !.exprs = SubSeq(@, 1, Len(@) - n)] ELSE q

\* The action of name[index]: the name is the text matched last, which is in the
\* index.
IndexRef(p, x) == Combine(p, 1, LAMBDA a : <<"index", x, a[1]>>)
PushIndex(p) == [PopExpr(p) EXCEPT !.multi_indices = @ \o Popped(p)]
\* do_multi_index_ref
MultiRef(p) ==
  IF p.multi_id = None \/ p.multi_indices = <<>> THEN p
  ELSE PushExpr(p, <<"multi", p.multi_id, p.multi_indices>>)

\* do_concat: each further item is put in front of the chain; do_replicate
Chain(l) == FoldLeft(LAMBDA r, e : <<"CONCAT", e, r>>, Head(l), Tail(l))
Concat(p) ==
  IF Len(p.exprs) <= p.concat_sp THEN p
  ELSE Combine(p, Len(p.exprs) - p.concat_sp, Chain)
Replicate(p) == Combine(p, 1, LAMBDA a : <<"REPLICATE", a[1], Lit(32, p.repl_count)>>)

-----------------------------------------------------------------------------
(* Assignments: continuous, blocking and nonblocking.                       *)

StoreTo(p, kind, lhs, rhs) ==
  IF kind = "continuous"
  THEN [Add(p, "assigns", [lhs |-> lhs, rhs |-> rhs, delay |-> p.delay])
        EXCEPT !.delay = <<>>]
  ELSE Emit(p, [k |-> "assign", lhs |-> lhs, rhs |-> rhs, nba |-> kind = "nonblocking"])

\* What do_continuous_assign2, do_blocking_assign and do_blocking_assign_multi
\* assign to.
Target(p, kind) ==
  CASE kind # "continuous" /\ p.multi_indices # <<>> ->
         <<"multi", p.assign_lhs, p.multi_indices>>
    [] (kind = "continuous" \/ p.multi_indices = <<>>)
       /\ p.lhs_hi # <<>> /\ p.lhs_lo # <<>> ->
         <<"part", p.assign_lhs, p.lhs_hi[1], p.lhs_lo[1]>>
    [] (kind = "continuous" \/ p.multi_indices = <<>>)
       /\ (p.lhs_hi = <<>> \/ p.lhs_lo = <<>>) ->
         <<IF p.lhs_index = <<>> THEN "ref" ELSE "index", p.assign_lhs>> \o p.lhs_index
SingleAssign(p, kind) ==
  LET width == IF p.exprs = <<>> THEN 1 ELSE NodeWidth(p, Last(p.exprs))
      q == EnsureWire(PopExpr(p), p.assign_lhs, width)
  IN  IF p.exprs = <<>> THEN q ELSE StoreTo(q, kind, Target(p, kind), Last(p.exprs))

\* do_concat_lhs_assign: the rightmost name takes the lowest bits; ones is a
\* literal of 32 bits with that many low bits set.
ConcatAssign(p, kind) ==
  LET names == SelectSeq(p.concat_names, LAMBDA nm : Declared(p, nm) # <<>>)
      width(i) == Head(Declared(p, names[i])).width
      below(i) == FoldLeft(LAMBDA s, j : s + width(j), 0, [j \in 1..(Len(names) - i) |-> i + j])
      rhs == Last(p.exprs)
      slice(i) == IF below(i) = 0 /\ width(i) >= below(0) THEN rhs
                  ELSE <<"AND", <<"SHR", rhs, Lit(32, below(i))>>, <<"ones", width(i)>>>>
      one(i, q) == StoreTo(q, kind, <<"ref", names[i]>>, slice(i))
  IN  [(IF p.exprs = <<>> THEN p
        ELSE FoldRight(one, [i \in DOMAIN names |-> i], PopExpr(p)))
       EXCEPT !.concat_names = <<>>]

\* do_assign_stmt_finish, do_blocking_assign_finish, do_nonblocking_assign_finish
AssignFinish(p, kind) ==
  CASE p.concat_names # <<>> -> ConcatAssign(p, kind)
    [] p.concat_names = <<>> /\ p.assign_lhs = None -> Crash(p)
    [] p.concat_names = <<>> /\ p.assign_lhs # None ->
         [SingleAssign(p, kind) EXCEPT
            !.assign_lhs = None, !.lhs_index = <<>>, !.lhs_hi = <<>>, !.lhs_lo = <<>>,
            !.multi_indices = IF kind = "continuous" THEN @ ELSE <<>>]

-----------------------------------------------------------------------------
(* Processes and timing controls.                                           *)

\* start_always_process and its like
StartProcess(p0, kind) ==
  LET p == Open(p0, None) IN
  [Add(p, "processes", [kind |-> kind, body |-> Newest(p), sens |-> <<>>, auto |-> FALSE])
   EXCEPT !.process = Len(p.unit.processes) + 1,
          !.auto_sens = @ \/ kind \in {"always_comb", "always_latch"}]

\* record_sensitivity; finalize_process_sensitivity: the signals are looked up
\* when the process ends; an unknown name stays as an empty entry.
RecordSensitivity(p, nm) ==
  [p EXCEPT !.sens = Append(@, <<nm, p.edge_flag>>), !.edge_flag = 0]
Sensitivity(p) ==
  [i \in DOMAIN p.sens |->
     <<IF Declared(p, p.sens[i][1]) = <<>> THEN None ELSE p.sens[i][1], p.sens[i][2]>>]
FinishProcess(p) ==
  IF p.process = 0 THEN p
  ELSE [Restructured(Pop(p), p.unit.processes[p.process].body) EXCEPT
          !.unit.processes[p.process].sens = Sensitivity(p),
          !.unit.processes[p.process].auto = p.auto_sens,
          !.sens = <<>>, !.auto_sens = FALSE, !.process = 0]

\* do_delay_finish: the delay of a plain always process starts it again.
Repeats(p) ==
  /\ p.process # 0 /\ ~p.auto_sens /\ p.sens = <<>>
  /\ p.unit.processes[p.process].kind = "always"
DelayTaken(p) == DelayFinish([p EXCEPT !.loops = Repeats(p)])

\* Seeded fault: the edge stays for the next event control.
AtFinishStale(p) ==
  LET done == [p EXCEPT !.saved = None] IN
  IF p.saved = None \/ Current(p) = <<>> THEN done
  ELSE Emit(TakeLast(done), [k |-> "at", sig |-> p.saved, edge |-> p.edge_flag,
                             body |-> Last(Current(p))])

\* do_event_finish; the name waits in saved, which other statements use too.
AtFinish(p) ==
  LET done == [p EXCEPT !.edge_flag = 0, !.saved = None] IN
  IF p.saved = None \/ Current(p) = <<>> THEN done
  ELSE Emit(TakeLast(done), [k |-> "at", sig |-> p.saved, edge |-> p.edge_flag,
                             body |-> Last(Current(p))])

\* do_force_stmt, do_release_stmt: skip_past_keyword skips a name of letters.
Force(p) ==
  IF p.saved = None \/ p.exprs = <<>> THEN p
  ELSE Emit(PopExpr(p), [k |-> "force", lhs |-> "", rhs |-> Last(p.exprs)])
Release(p) == IF p.saved = None THEN p ELSE Emit(p, [k |-> "release", lhs |-> ""])

-----------------------------------------------------------------------------
(* Cases and loops.                                                         *)

\* do_case_item_enter: the patterns are what was pushed since the case began.
Patterns(p) == SubSeq(p.exprs, Last(p.case_sp) + 1, Len(p.exprs))
ItemOf(p) ==
  IF Patterns(p) = <<>> THEN p
  ELSE ItemEnter([p EXCEPT !.patterns = Patterns(p), !.exprs = SubSeq(@, 1, Last(p.case_sp))])
ItemDone(p) ==
  IF p.item = 0 THEN Pop(p) ELSE [ItemFinish(p, p.patterns) EXCEPT !.patterns = <<>>]
\* do_case_enter, do_case_finish
CaseOpen(p) ==
  [p EXCEPT !.case_sp = Append(@, Len(p.exprs)), !.items = <<>>, !.default = 0]
CaseDone(p, wild) ==
  [Emit(PopExpr(p), [k |-> "case", pick |-> Popped(p), items |-> p.items,
                     default |-> p.default, wild |-> wild])
   EXCEPT !.items = <<>>, !.case_sp = Front(@)]

\* do_for_init_save, do_for_step_save: the statement just read is put aside.
PutAside(p, f) ==
  IF Current(p) = <<>> THEN p ELSE [TakeLast(p) EXCEPT ![f] = <<Last(Current(p))>>]
Only(o) == IF o = <<>> THEN None ELSE o[1]
Store(lhs, rhs) == [k |-> "assign", lhs |-> lhs, rhs |-> rhs, nba |-> FALSE]
\* do_for_decl_init_save
DeclInit(p) ==
  [PopExpr(p) EXCEPT
     !.loop_init = IF p.assign_lhs = None \/ p.exprs = <<>> THEN @
                   ELSE <<Store(<<"ref", p.assign_lhs>>, Last(p.exprs))>>,
     !.assign_lhs = None]
BodyEnter(p) == LET q == Open(p, None) IN [q EXCEPT !.loop_body = Newest(q)]

\* The loop's block is the body, the step and a jump back to it.
CloseLoop(p0, init, cond, again, step) ==
  LET p == NewBlock(p0, None)
      a == Newest(p)
      q == [p EXCEPT !.heap[a].stmts =
              p.heap[p.loop_body].stmts \o again \o <<[k |-> "back", loop |-> a, cond |-> cond]>>]
  IN  Emit(Restructured(q, a),
           [k |-> "loop", loop |-> a, init |-> init, cond |-> cond, step |-> step])
\* do_for_finish, do_while_finish, do_forever_finish
ForFinish(p0) ==
  LET p == Pop(p0) IN
  [(IF p.loop_cond = <<>> \/ p.loop_body = 0 THEN p
    ELSE CloseLoop(p, p.loop_init, p.loop_cond, p.loop_step, p.loop_step))
   EXCEPT !.loop_init = <<>>, !.loop_cond = <<>>, !.loop_step = <<>>, !.loop_body = 0]
WhileFinish(p0) ==
  LET p == Pop(p0) IN
  [(IF p.loop_cond = <<>> \/ p.loop_body = 0 THEN p
    ELSE CloseLoop(p, <<>>, p.loop_cond, <<>>, <<>>))
   EXCEPT !.loop_cond = <<>>, !.loop_body = 0]
ForeverFinish(p0) ==
  LET p == Pop(p0) IN
  IF p.loop_body = 0 THEN p
  ELSE [CloseLoop(p, <<>>, <<>>, <<>>, <<>>) EXCEPT !.loop_body = 0]
\* do_repeat_finish: a counter of its own, one numbering for the whole process.
RepeatFinish(p0) ==
  LET p == Pop(p0)
      nm == "_repeat_cnt_" \o ToString(p.repeat_id)
      q == Add([p EXCEPT !.repeat_id = @ + 1], "signals", Signal(nm, "reg", 32, 0))
      c == <<"ref", nm>>
  IN  [(IF p.loop_body = 0 THEN p
        ELSE CloseLoop(q, <<Store(c, Only(p.loop_count))>>, <<<<"GT", c, Lit(32, 0)>>>>,
                       <<Store(c, <<"SUB", c, Lit(32, 1)>>)>>, <<>>))
       EXCEPT !.loop_count = <<>>, !.loop_body = 0]

-----------------------------------------------------------------------------
(* What a queued action does: its effects in order, x being its text.       *)

Declares(p, n, a, x) ==
  CASE n = "uir_create_design_unit"  -> [p EXCEPT !.unit = Unit(x, a[1])]
    [] n = "save_unit"               ->
         [p EXCEPT !.units = Append(@, p.unit), !.unit = NoUnit]
    [] n = "all_consumed"            -> [p EXCEPT !.consumed = p.at_end]
    [] n = "create_ports_from_named" -> PortsFromNamed(p)
    [] n = "add_bare_port_name"      -> AddBare(p, x)
    [] n = "add_port_signed"         -> AddPortSigned(p, a[1])
    [] n = "add_modport"             -> Add(p, "modports", [name |-> x, ports |-> <<>>])
    [] n = "add_modport_port"        -> ModportPort(p, x)
    [] n = "do_import"               -> Import(p, IF a[1] = "one" THEN x ELSE "*")
    [] n = "decl_input"  -> RangeUsed(DeclPort(p, p.saved, "in", "wire", Width(p, a[1])), a[1])
    [] n = "decl_inout"  -> RangeUsed(DeclPort(p, p.saved, "inout", "wire", Width(p, a[1])), a[1])
    [] n = "decl_output" ->
         RangeUsed(DeclPort(p, p.saved, "out", p.port_sig_type, Width(p, a[1])), a[1])
    [] n = "decl_reg"    ->
         RangeUsed(DeclSignal(p, p.saved, "reg", Width(p, a[1]), p.array_size), a[1])
    [] n = "decl_logic"  ->
         RangeUsed(DeclSignal(p, p.saved, "logic", Width(p, a[1]), p.array_size), a[1])
    [] n = "add_signal_signed"       -> RangeUsed(DeclNet(p, Width(p, a[1])), a[1])
    [] n = "decl_word"               -> DeclSignal(p, x, "reg", a[1], 0)
    [] n = "decl_real"               -> DeclReal(p, x)
    [] n = "decl_real_port"          -> DeclRealPort(p, x)
    [] n = "decl_event"              -> DeclEvent(p, x)
    [] n = "do_decl_init_assign"     -> InitAssign(p)
    [] n = "add_genvar_name"         -> [p EXCEPT !.genvars = @ \cup {x}]
    [] n = "saved_range"             -> [p EXCEPT !.saved_range_width = RangeWidth(p)]
    [] n = "array_range"             -> ArrayRange(p)
    [] n = "save_param_name"         -> [p EXCEPT !.param_name = x]
    [] n = "save_param_value"        -> ParamValue(p)
    [] n = "save_defparam_start"     -> [p EXCEPT !.defparam_path = x]
    [] n = "save_defparam_extend"    -> DefparamExtend(p, x)
    [] n = "save_defparam_value"     -> DefparamValue(p)
    [] n = "save_attr_name"          -> [p EXCEPT !.attrs = Append(@, <<x, None>>)]
    [] n = "save_attr_val"           -> AttrVal(p, x)
    [] n = "finish_attr_list"        -> FinishAttrs(p)
    [] n = "uir_add_instance"        -> AddInstance(p, x)
    [] n = "uir_add_connection"      ->
         IF a[1] = "open" THEN Connect(p, <<>>, None) ELSE Connect(PopExpr(p), Popped(p), None)
    [] n = "do_conn_modport"         -> ConnModport(p)
    [] n = "do_func_port_enter"      -> FuncPortEnter(p)
    [] n = "do_func_port_leave"      -> [p EXCEPT !.func_ports_mode = FALSE]
    [] n = "do_func_port_simple"     -> FuncPortSimple(p)
    [] n = "func_port_cleanup"       -> FuncPortCleanup(p)
    [] n = "start_task"              -> StartFunc(p, FALSE)
    [] n \in {"finish_function", "finish_task"} -> FinishFunc(p)

Expresses(p, n, a, x) ==
  CASE n = "do_binop"               -> Combine(p, 2, LAMBDA o : <<a[1], o[1], o[2]>>)
    [] n = "do_unop"                -> Combine(p, 1, LAMBDA o : <<a[1], o[1]>>)
    [] n = "do_ternary"             -> Combine(p, 3, LAMBDA o : <<"?", o[1], o[2], o[3]>>)
    [] n = "do_sys_func_expr0"      -> PushExpr(p, <<"sys", a[1]>>)
    [] n = "do_sys_func_expr1"      -> Combine(p, 1, LAMBDA o : <<"sys", a[1], o[1]>>)
    [] n = "do_sys_func_fopen_stub" -> PushExpr(p, Lit(32, 0))
    [] n = "do_part_select"         -> Selected(p, PartSelect(p), 2)
    [] n = "do_indexed_part_select" -> Selected(p, IndexedPart(p, a[1]), 2)
    [] n = "do_index_part_select"   -> Selected(p, IndexPart(p), 2)
    [] n = "do_multi_index_ref"     -> MultiRef(p)
    [] n = "push_index"             -> PushIndex(p)
    [] n = "index_ref"              -> IndexRef(p, x)
    [] n = "do_func_call_expr"      -> FuncCall(p)
    [] n = "make_ref_implicit"      -> RefImplicit(p, x)
    [] n = "parse_number_literal"   -> PushExpr(p, Number(x))
    [] n = "hier_append_lhs"        -> HierAppend(p, x)
    [] n = "hier_ref"               -> HierRef(p)
    [] n = "do_concat"              -> Concat(p)
    [] n = "do_replicate"           -> Replicate(p)
    [] n = "expr_pop"               -> PopExpr(p)

Executes(p, n, a, x) ==
  CASE n = "start_always_process"       -> StartProcess(p, "always")
    [] n = "start_initial_process"      -> StartProcess(p, "initial")
    [] n = "start_always_comb_process"  -> StartProcess(p, "always_comb")
    [] n = "start_always_ff_process"    -> StartProcess(p, "always_ff")
    [] n = "start_always_latch_process" -> StartProcess(p, "always_latch")
    [] n = "finish_process"     -> FinishProcess(p)
    [] n = "record_sensitivity" -> RecordSensitivity(p, x)
    [] n = "do_save_delay"      -> [PopExpr(p) EXCEPT !.delay = Popped(p)]
    [] n = "do_delay_finish"    -> DelayTaken(p)
    [] n = "do_event_enter"     -> [p EXCEPT !.saved = x]
    [] n = "do_event_finish"    -> AtFinish(p)
    [] n = "do_wait_finish"     -> WaitFinish(p)
    [] n = "do_trigger_stmt"    -> Emit(p, [k |-> "trigger", sig |-> x])
    [] n = "do_disable_stmt"    -> Emit(p, [k |-> "disable", name |-> x])
    [] n = "do_force_stmt"      -> Force(p)
    [] n = "do_release_stmt"    -> Release(p)
    [] n = "begin_named_block"  -> Open(p, x)
    [] n = "end_named_block"    -> EndNamed(p)
    [] n = "if_then_start"      -> ThenStart(p)
    [] n = "if_else_start"      -> ElseStart(p)
    [] n = "if_finish"          -> IfFinish(p)
    [] n = "do_case_enter"      -> CaseOpen(p)
    [] n = "do_case_item_enter" -> ItemOf(p)
    [] n = "do_case_item_finish"    -> ItemDone(p)
    [] n = "do_case_default_enter"  -> DefaultEnter(p)
    [] n = "do_case_default_finish" -> Pop(p)
    [] n = "do_case_finish"     -> CaseDone(p, a[1])
    [] n = "do_for_init_save"   -> PutAside(p, "loop_init")
    [] n = "do_for_step_save"   -> PutAside(p, "loop_step")
    [] n \in {"do_for_cond_save", "do_while_enter"} ->
         [PopExpr(p) EXCEPT !.loop_cond = Popped(p)]
    [] n = "do_for_decl_init_save" -> DeclInit(p)
    [] n = "do_repeat_enter"    -> [PopExpr(p) EXCEPT !.loop_count = Popped(p)]
    [] n \in {"do_for_body_enter", "do_while_body_enter", "do_repeat_body_enter",
              "do_forever_enter"} -> BodyEnter(p)
    [] n = "do_for_finish"      -> ForFinish(p)
    [] n = "do_while_finish"    -> WhileFinish(p)
    [] n = "do_repeat_finish"   -> RepeatFinish(p)
    [] n = "do_forever_finish"  -> ForeverFinish(p)
    [] n = "store_concat_name"  -> [p EXCEPT !.concat_names = Append(@, x)]
    [] n = "do_assign_stmt_finish"        -> AssignFinish(p, "continuous")
    [] n = "do_blocking_assign_finish"    -> AssignFinish(p, "blocking")
    [] n = "do_nonblocking_assign_finish" -> AssignFinish(p, "nonblocking")
    [] n = "do_task_enable_stmt" -> TaskEnable(p)
    [] n = "do_sys_display"      -> SysDisplay(p, a[1])
    [] n = "do_sys_stop_finish_with_arg" -> SysTask(PopExpr(p), a[1], <<>>, <<Popped(p)>>)
    [] n = "sys_task" ->
         SysTask(p, a[1], [i \in DOMAIN a[2] |-> IF a[2][i] = "text" THEN x ELSE p[a[2][i]]],
                 <<>>)

Expressing ==
  {"do_binop", "do_unop", "do_ternary", "do_sys_func_expr0", "do_sys_func_expr1",
   "do_sys_func_fopen_stub", "do_part_select", "do_indexed_part_select",
   "do_index_part_select", "do_multi_index_ref", "push_index", "index_ref",
   "do_func_call_expr", "make_ref_implicit", "parse_number_literal",
   "hier_append_lhs", "hier_ref", "do_concat", "do_replicate", "expr_pop"}
Declaring ==
  {"uir_create_design_unit", "save_unit", "all_consumed", "create_ports_from_named",
   "add_bare_port_name", "add_port_signed", "add_modport", "add_modport_port",
   "do_import", "decl_input", "decl_inout", "decl_output", "decl_reg", "decl_logic",
   "add_signal_signed", "decl_word", "decl_real", "decl_real_port", "decl_event",
   "do_decl_init_assign", "add_genvar_name", "saved_range", "array_range",
   "save_param_name", "save_param_value", "save_defparam_start",
   "save_defparam_extend", "save_defparam_value", "save_attr_name", "save_attr_val",
   "finish_attr_list", "uir_add_instance", "uir_add_connection", "do_conn_modport",
   "do_func_port_enter", "do_func_port_leave", "do_func_port_simple",
   "func_port_cleanup", "start_task", "finish_function", "finish_task"}

Invoked(p, n, a, x) ==
  CASE n \in Declaring  -> Declares(p, n, a, x)
    [] n \in Expressing -> Expresses(p, n, a, x)
    [] OTHER            -> Executes(p, n, a, x)

\* One effect; after a crash there is no more of them.
Effect(p, e, x) ==
  IF p.crashed THEN p
  ELSE CASE e.op = "set"  -> [p EXCEPT ![e.field] = e.val]
         [] e.op = "save" -> [p EXCEPT ![e.field] = x]
         [] e.op = "free" -> [p EXCEPT ![e.field] = None]
         [] e.op = "pop"  -> [PopExpr(p) EXCEPT ![e.field] = Popped(p)]
         [] e.op = "mark" -> [p EXCEPT ![e.field] = Len(p.exprs)]
         [] e.op = "atoi" -> [p EXCEPT ![e.field] = Leading(x)]
         [] e.op = "run"  -> Invoked(p, e.name, e.args, x)
Performed(p, thunk) == FoldLeft(LAMBDA q, e : Effect(q, e, thunk.text), p, thunk.act)

-----------------------------------------------------------------------------
(* verilog_parse, called for each text of a batch in turn.                  *)

VARIABLES batch,    \* what the process is given
          at,       \* the one being read
          parser,   \* the globals
          reading,  \* a text is matched and its result not yet returned
          todo,     \* the queued actions still to perform
          results   \* a result for each text read so far

vars == <<batch, at, parser, reading, todo, results>>

Init ==
  /\ batch \in Batches
  /\ at = 1
  /\ parser = Globals
  /\ reading = FALSE
  /\ todo = <<>>
  /\ results = <<>>

\* yyparsefrom: the match; nothing is performed unless all of it succeeds.
Parse ==
  /\ ~reading /\ at <= Len(TextsOf(batch))
  /\ LET text == TextsOf(batch)[at]
         m    == Match(Grammar, Grammar.design_file, text, Start) IN
     /\ parser' = [Reset(parser) EXCEPT !.at_end = AtEnd(text, m)]
     /\ todo' = IF m.ok THEN m.todo ELSE <<>>
  /\ reading' = TRUE
  /\ UNCHANGED <<batch, at, results>>

\* yyDone: the next action.
Perform ==
  /\ todo # <<>> /\ ~parser.crashed
  /\ parser' = Performed(parser, Head(todo))
  /\ todo' = Tail(todo)
  /\ UNCHANGED <<batch, at, reading, results>>

\* Seeded fault: what is left over is not looked at.
ResultOfMatch(q) ==
  [accepted |-> q.ok, reported |-> ~q.ok, crashed |-> q.crashed, heap |-> q.heap,
   units |-> IF ~q.ok THEN <<>>
             ELSE IF q.unit.name = None THEN q.units ELSE Append(q.units, q.unit)]

\* The rest of verilog_parse: the result, and the clean-up.
Result(q) ==
  [accepted |-> q.ok, reported |-> ~q.ok \/ ~q.consumed, crashed |-> q.crashed,
   heap |-> q.heap,
   units |-> IF ~q.ok THEN <<>>
             ELSE IF q.unit.name = None THEN q.units ELSE Append(q.units, q.unit)]
Return ==
  /\ reading /\ (todo = <<>> \/ parser.crashed)
  /\ results' = Append(results, Result(parser))
  /\ parser' = [parser EXCEPT !.saved = None, !.saved2 = None, !.saved3 = None,
                    !.assign_lhs = None, !.delay = <<>>, !.array_id = None,
                    !.name = None, !.genvars = {}, !.bare = <<>>]
  /\ at' = IF parser.crashed THEN Len(TextsOf(batch)) + 1 ELSE at + 1
  /\ todo' = <<>>
  /\ reading' = FALSE
  /\ UNCHANGED batch

Finished == ~reading /\ at > Len(TextsOf(batch)) /\ UNCHANGED vars

Next == Parse \/ Perform \/ Return \/ Finished

Spec == Init /\ [][Next]_vars
=============================================================================
