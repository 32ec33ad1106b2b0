------------------------------ MODULE VerilogText ------------------------------
(***************************************************************************)
(* What a Verilog source means, against which VerilogParser is checked.    *)
(* A source is given as a tree and said twice: as the lexemes of its text, *)
(* with as few parentheses as the precedence of the operators allows, and  *)
(* as the design units the language makes of it.                           *)
(*                                                                         *)
(* The statements of a process are compared as what they do in order: the  *)
(* parser moves what follows a timing control into its body, and what is   *)
(* left beside it would run at once.                                       *)
(***************************************************************************)
EXTENDS VerilogParser

CONSTANT FilesOf(_)  \* a batch's files: a text, whether it is Verilog, its units

-----------------------------------------------------------------------------
(* Text.                                                                    *)

Signs ==
  {"(", ")", "[", "]", "{", "}", ",", ";", ":", ".", "#", "@", "=", "<=", "->", "?", "+",
   "-", "*", "/", "%", "&", "|", "^", "~", "!", "<<", ">>", ">>>", "<", ">", ">=", "==",
   "!=", "===", "!==", "&&", "||", "::"}
Words(l)  == [i \in DOMAIN l |-> <<IF l[i] \in Signs THEN "SYMBOL" ELSE "NAME", l[i]>>]
Digits(n) == <<<<"NUMBER", <<0, n>>>>>>
Joined(l, Text(_)) ==
  FlattenSeq([i \in DOMAIN l |-> (IF i = 1 THEN <<>> ELSE Words(<<",">>)) \o Text(l[i])])
Listed(l, Text(_)) == FlattenSeq([i \in DOMAIN l |-> Text(l[i])])

-----------------------------------------------------------------------------
(* Expressions: <<"name", x>>, <<"number", n>>, <<"un", o, e>>,             *)
(* <<"bin", o, e, f>>, <<"cond", c, e, f>>, <<"slice", x, high, low>>,      *)
(* <<"call", f, l>>, <<"cat", l>>, <<"rep", n, e>>.                         *)

\* The binary operators from the loosest to the tightest, with their nodes; a
\* logical operator has the node of the bitwise one, === that of ==.
Binary ==
  <<<<<<"||", "OR">>>>, <<<<"&&", "AND">>>>, <<<<"|", "OR">>>>, <<<<"^", "XOR">>>>, <<<<"&", "AND">>>>,
    <<<<"==", "EQ">>, <<"!=", "NEQ">>, <<"===", "EQ">>, <<"!==", "NEQ">>>>,
    <<<<"<", "LT">>, <<">", "GT">>, <<"<=", "LE">>, <<">=", "GE">>>>,
    <<<<"<<", "SHL">>, <<">>>", "SRA">>, <<">>", "SHR">>>>,
    <<<<"+", "ADD">>, <<"-", "SUB">>>>, <<<<"*", "MUL">>, <<"/", "DIV">>, <<"%", "MOD">>>>>>
Level(o)    == CHOOSE i \in DOMAIN Binary : \E j \in DOMAIN Binary[i] : Binary[i][j][1] = o
BinNode(o)  == Head(SelectSeq(Binary[Level(o)], LAMBDA b : b[1] = o))[2]
UnNode(o)   == CASE o = <<"-">> -> "NEG"         [] o = <<"~">> -> "NOT"
                 [] o = <<"!">> -> "NOT"         [] o = <<"&">> -> "REDUCE_AND"
                 [] o = <<"|">> -> "REDUCE_OR"   [] o = <<"^">> -> "REDUCE_XOR"
                 [] o = <<"~", "&">> -> "REDUCE_NAND" [] o = <<"~", "^">> -> "REDUCE_XNOR"
Rank(e) ==
  CASE e[1] = "cond" -> 0 [] e[1] = "bin" -> Level(e[2]) [] e[1] = "un" -> 11 [] OTHER -> 12

RECURSIVE Expr(_), Means(_)
Bracketed(e, rank) ==
  IF Rank(e) >= rank THEN Expr(e) ELSE Words(<<"(">>) \o Expr(e) \o Words(<<")">>)
Expr(e) ==
  CASE e[1] = "name"   -> Words(<<e[2]>>)
    [] e[1] = "number" -> Digits(e[2])
    [] e[1] = "un"     -> Words(e[2]) \o Bracketed(e[3], 11)
    [] e[1] = "bin"    ->
         Bracketed(e[3], Rank(e)) \o Words(<<e[2]>>) \o Bracketed(e[4], Rank(e) + 1)
    [] e[1] = "cond"   -> Bracketed(e[2], 1) \o Words(<<"?">>) \o Expr(e[3])
                          \o Words(<<":">>) \o Bracketed(e[4], 0)
    [] e[1] = "slice"  -> Words(<<e[2], "[">>) \o Digits(e[3]) \o Words(<<":">>)
                          \o Digits(e[4]) \o Words(<<"]">>)
    [] e[1] = "call"   -> Words(<<e[2], "(">>) \o Joined(e[3], Expr) \o Words(<<")">>)
    [] e[1] = "cat"    -> Words(<<"{">>) \o Joined(e[2], Expr) \o Words(<<"}">>)
    [] e[1] = "rep"    ->
         Words(<<"{">>) \o Digits(e[2]) \o Words(<<"{">>) \o Expr(e[3]) \o Words(<<"}", "}">>)
Means(e) ==
  CASE e[1] = "name"   -> <<"ref", e[2]>>
    [] e[1] = "number" -> <<"num", 32, e[2]>>
    [] e[1] = "un"     -> <<UnNode(e[2]), Means(e[3])>>
    [] e[1] = "bin"    -> <<BinNode(e[2]), Means(e[3]), Means(e[4])>>
    [] e[1] = "cond"   -> <<"?", Means(e[2]), Means(e[3]), Means(e[4])>>
    [] e[1] = "slice"  -> <<"part", e[2], <<"num", 32, e[3]>>, <<"num", 32, e[4]>>>>
    [] e[1] = "call"   -> <<"call", e[2], [i \in DOMAIN e[3] |-> Means(e[3][i])]>>
    [] e[1] = "cat"    ->  \* a chain with the last item, the lowest bits, in front
         FoldLeft(LAMBDA r, x : <<"CONCAT", Means(x), r>>, Means(e[2][1]), Tail(e[2]))
    [] e[1] = "rep"    -> <<"REPLICATE", Means(e[3]), <<"num", 32, e[2]>>>>
MeansAll(l) == [i \in DOMAIN l |-> Means(l[i])]

-----------------------------------------------------------------------------
(* Statements: <<"put", x, e>>, <<"later", x, e>> (nonblocking),            *)
(* <<"if", c, S, S>>, <<"case", e, arms, S>> with arms <<l, S>>,            *)
(* <<"for", i, first, c, next, S>>, <<"while", c, S>>, <<"repeat", e, S>>,  *)
(* <<"forever", S>>, <<"named", nm, S>>, <<"after", n, s>>,                 *)
(* <<"at", edge, x, s>>, <<"wait", c, s>>, <<"trigger", x>>,                *)
(* <<"disable", nm>>, <<"enable", f, l>>, <<"display", l>>; S a list.       *)

Edge(n) == CASE n = 1 -> Words(<<"posedge">>) [] n = -1 -> Words(<<"negedge">>) [] n = 0 -> <<>>

RECURSIVE Stmt(_), Does(_)
Block(S) == Words(<<"begin">>) \o Listed(S, Stmt) \o Words(<<"end">>)
\* A list as one statement; an if is kept from the else of another.
Body(S) ==
  CASE S = <<>> -> Words(<<";">>)
    [] Len(S) = 1 /\ S[1][1] # "if" -> Stmt(S[1])
    [] OTHER -> Block(S)
Else(word, S) == IF S = <<>> THEN <<>> ELSE Words(word) \o Body(S)
Stored(x, o, e) == Words(<<x, o>>) \o Expr(e)
Arm(a) == Joined(a[1], Expr) \o Words(<<":">>) \o Body(a[2])
Stmt(s) ==
  CASE s[1] = "put"   -> Stored(s[2], "=", s[3]) \o Words(<<";">>)
    [] s[1] = "later" -> Stored(s[2], "<=", s[3]) \o Words(<<";">>)
    [] s[1] = "if"    -> Words(<<"if", "(">>) \o Expr(s[2]) \o Words(<<")">>) \o Body(s[3])
                         \o Else(<<"else">>, s[4])
    [] s[1] = "case"  -> Words(<<"case", "(">>) \o Expr(s[2]) \o Words(<<")">>)
                         \o Listed(s[3], Arm) \o Else(<<"default", ":">>, s[4])
                         \o Words(<<"endcase">>)
    [] s[1] = "for"   -> Words(<<"for", "(">>) \o Stored(s[2], "=", s[3]) \o Words(<<";">>)
                         \o Expr(s[4]) \o Words(<<";">>) \o Stored(s[2], "=", s[5])
                         \o Words(<<")">>) \o Body(s[6])
    [] s[1] \in {"while", "repeat"} ->
         Words(<<s[1], "(">>) \o Expr(s[2]) \o Words(<<")">>) \o Body(s[3])
    [] s[1] = "forever" -> Words(<<"forever">>) \o Body(s[2])
    [] s[1] = "named"   ->
         Words(<<"begin", ":", s[2]>>) \o Listed(s[3], Stmt) \o Words(<<"end">>)
    [] s[1] = "after"   -> Words(<<"#">>) \o Digits(s[2]) \o Stmt(s[3])
    [] s[1] = "at"      ->
         Words(<<"@", "(">>) \o Edge(s[2]) \o Words(<<s[3], ")">>) \o Stmt(s[4])
    [] s[1] = "wait"    -> Words(<<"wait", "(">>) \o Expr(s[2]) \o Words(<<")">>) \o Stmt(s[3])
    [] s[1] = "trigger" -> Words(<<"->", s[2], ";">>)
    [] s[1] = "disable" -> Words(<<"disable", s[2], ";">>)
    [] s[1] = "enable"  -> Words(<<s[2], "(">>) \o Joined(s[3], Expr) \o Words(<<")", ";">>)
    [] s[1] = "display" -> Words(<<"$display", "(">>) \o <<<<"STRING", "text">>>>
                           \o Words(<<",">>) \o Joined(s[2], Expr) \o Words(<<")", ";">>)

\* What a list does in order; a loop does its body and then "again".
Puts(x, e) == <<"put", <<"ref", x>>, Means(e), FALSE>>
Loops(init, c, S, step) == <<<<"loop", init, c, Does(S) \o step \o <<<<"again", c>>>>>>>>
Counter == "_repeat_cnt_0"
DoesOne(s) ==
  CASE s[1] = "put"   -> <<Puts(s[2], s[3])>>
    [] s[1] = "later" -> <<<<"put", <<"ref", s[2]>>, Means(s[3]), TRUE>>>>
    [] s[1] = "if"    -> <<<<"if", Means(s[2]), Does(s[3]), Does(s[4])>>>>
    [] s[1] = "case"  ->
         LET arm(i) == <<MeansAll(s[3][i][1]), Does(s[3][i][2])>>
         IN  <<<<"case", Means(s[2]), [i \in DOMAIN s[3] |-> arm(i)], Does(s[4])>>>>
    [] s[1] = "for"     ->
         Loops(<<Puts(s[2], s[3])>>, <<Means(s[4])>>, s[6], <<Puts(s[2], s[5])>>)
    [] s[1] = "while"   -> Loops(<<>>, <<Means(s[2])>>, s[3], <<>>)
    [] s[1] = "forever" -> Loops(<<>>, <<>>, s[2], <<>>)
    [] s[1] = "repeat"  ->
         LET c(o, n) == <<"bin", o, <<"name", Counter>>, <<"number", n>>>>
             down == <<Puts(Counter, c("-", 1))>>
         IN  Loops(<<Puts(Counter, s[2])>>, <<Means(c(">", 0))>>, s[3], down)
    [] s[1] = "named"   -> <<<<"named", s[2], Does(s[3])>>>>
    [] s[1] = "after"   -> <<<<"delay", <<"num", 32, s[2]>>>>>> \o Does(<<s[3]>>)
    [] s[1] = "at"      -> <<<<"at", s[2], s[3]>>>> \o Does(<<s[4]>>)
    [] s[1] = "wait"    -> <<<<"wait", Means(s[2])>>>> \o Does(<<s[3]>>)
    [] s[1] \in {"trigger", "disable"} -> <<s>>
    [] s[1] = "enable"  -> <<<<"enable", s[2], MeansAll(s[3])>>>>
    [] s[1] = "display" -> <<<<"display", MeansAll(s[2])>>>>
Does(S) == Listed(S, DoesOne)

\* What the nodes of a block do in order.  A node after a timing control, in the
\* same block, does not wait for it.
RECURSIVE Done(_, _)
Done(h, b) ==
  LET l == IF b = 0 THEN <<>> ELSE h[b].stmts
      put(n) == <<"put", n.lhs, n.rhs, n.nba>>
      RECURSIVE act(_)
      act(n) ==
        CASE n.k = "null"   -> <<>>
          [] n.k = "assign" -> <<put(n)>>
          [] n.k = "if"     -> <<<<"if", n.c, Done(h, n.then), Done(h, n.else)>>>>
          [] n.k = "case"   ->
               <<<<"case", n.pick[1],
                   [i \in DOMAIN n.items |-> <<n.items[i].c, Done(h, n.items[i].body)>>],
                   Done(h, n.default)>>>>
          [] n.k = "loop"   ->
               <<<<"loop", [i \in DOMAIN n.init |-> put(n.init[i])], n.cond, Done(h, n.loop)>>>>
          [] n.k = "back"   -> <<<<"again", n.cond>>>>
          [] n.k = "block"  -> IF h[n.id].name = None THEN Done(h, n.id)
                               ELSE <<<<"named", h[n.id].name, Done(h, n.id)>>>>
          [] n.k = "delay"  -> <<<<"delay", n.n>>>> \o act(n.body)
          [] n.k = "at"     -> <<<<"at", n.edge, n.sig>>>> \o act(n.body)
          [] n.k = "wait"   -> <<<<"wait", n.sig>>>> \o act(n.body)
          [] n.k = "trigger" -> <<<<"trigger", n.sig>>>>
          [] n.k = "disable" -> <<<<"disable", n.name>>>>
          [] n.k = "enable" -> <<<<"enable", n.name, n.args>>>>
          [] n.k = "sys"    -> <<<<"display", n.args>>>>
      late(i) == IF l[i].k \in Timing /\ i < Len(l) THEN <<<<"overtaken">>>> ELSE <<>>
  IN  FlattenSeq([i \in DOMAIN l |-> act(l[i]) \o late(i)])

-----------------------------------------------------------------------------
(* Units: a kind, a name, the ports of the header (all declared there, or   *)
(* only named), and items.  A declared name is <<x, dimensions, initial>>.  *)

Decl(type, signed, range, names) ==
  [op |-> "decl", type |-> type, signed |-> signed, range |-> range, names |-> names]
PortDecl(dir, reg, signed, range, names) ==
  [op |-> "port", dir |-> dir, reg |-> reg, signed |-> signed, range |-> range, names |-> names]
Assign(to, e)        == [op |-> "assign", to |-> to, e |-> e, delay |-> <<>>]
AssignLate(n, to, e) == [op |-> "assign", to |-> to, e |-> e, delay |-> <<n>>]
Process(kind, sens, S) == [op |-> "process", kind |-> kind, sens |-> sens, does |-> S]
Star == <<<<"*", 0>>>>
Instance(m, nm, conns) == [op |-> "instance", module |-> m, name |-> nm, conns |-> conns]
Param(word, nm, e)     == [op |-> "param", word |-> word, name |-> nm, e |-> e]
Func(nm, range, ports, S)  ==
  [op |-> "function", name |-> nm, range |-> range, ports |-> ports, does |-> S]
TaskOf(nm, ports, S) == [op |-> "task", name |-> nm, ports |-> ports, does |-> S]
Modport(nm, ports)   == [op |-> "modport", name |-> nm, ports |-> ports]
Imported(pkg, x)     == [op |-> "import", pkg |-> pkg, name |-> x]
UnitOf(kind, nm, ports, bare, items) ==
  [kind |-> kind, name |-> nm, ports |-> ports, bare |-> bare, items |-> items]

Bounds(r) == IF r = <<>> THEN <<>> ELSE
  Words(<<"[">>) \o Digits(r[1]) \o Words(<<":">>) \o Digits(r[2]) \o Words(<<"]">>)
When(c, words) == IF c THEN Words(words) ELSE <<>>
DeclaredName(x) ==
  Words(<<x[1]>>) \o Listed(x[2], Bounds)
  \o (IF x[3] = <<>> THEN <<>> ELSE Words(<<"=">>) \o Expr(x[3][1]))
Kinds(d) == When(d.signed, <<"signed">>) \o Bounds(d.range)
PortText(d) ==
  Words(<<d.dir>>) \o When(d.reg, <<"reg">>) \o Kinds(d) \o Joined(d.names, DeclaredName)
Sense(l) ==
  IF l = <<>> THEN <<>>
  ELSE Words(<<"@", "(">>)
       \o (IF l = Star THEN Words(<<"*">>)
           ELSE Joined(l, LAMBDA x : Edge(x[2]) \o Words(<<x[1]>>))) \o Words(<<")">>)
ConnText(c) ==
  Words(<<".", c[1], "(">>) \o Listed(c[2], Expr) \o Words(<<")">>)
ItemText(d) ==
  CASE d.op = "decl"   -> Words(<<d.type>>) \o Kinds(d) \o Joined(d.names, DeclaredName)
                          \o Words(<<";">>)
    [] d.op = "port"   -> PortText(d) \o Words(<<";">>)
    [] d.op = "assign" -> Words(<<"assign">>)
                          \o Listed(d.delay, LAMBDA n : Words(<<"#">>) \o Digits(n))
                          \o Expr(d.to) \o Words(<<"=">>) \o Expr(d.e) \o Words(<<";">>)
    [] d.op = "process"  -> Words(<<d.kind>>) \o Sense(d.sens) \o Body(d.does)
    [] d.op = "instance" -> Words(<<d.module, d.name, "(">>) \o Joined(d.conns, ConnText)
                            \o Words(<<")", ";">>)
    [] d.op = "param"    ->
         Words(<<d.word, d.name, "=">>) \o Expr(d.e) \o Words(<<";">>)
    [] d.op = "function" ->
         Words(<<"function">>) \o Bounds(d.range) \o Words(<<d.name, "(">>)
         \o Joined(d.ports, PortText) \o Words(<<")", ";">>) \o Body(d.does)
         \o Words(<<"endfunction">>)
    [] d.op = "task"     ->
         Words(<<"task", d.name, ";">>) \o Listed(d.ports, LAMBDA p : PortText(p) \o Words(<<";">>))
         \o Block(d.does) \o Words(<<"endtask">>)
    [] d.op = "modport"  ->
         Words(<<"modport", d.name, "(">>) \o Joined(d.ports, Words) \o Words(<<")", ";">>)
    [] d.op = "import"   -> Words(<<"import", d.pkg, "::", d.name, ";">>)
UnitText(u) ==
  Words(<<u.kind, u.name>>)
  \o (IF u.kind = "package" THEN <<>>
      ELSE Words(<<"(">>) \o Joined(u.ports, PortText)
           \o Joined(u.bare, LAMBDA x : Words(<<x>>)) \o Words(<<")">>))
  \o Words(<<";">>) \o Listed(u.items, ItemText) \o Words(<<"end" \o u.kind>>)

-----------------------------------------------------------------------------
(* What the units mean.                                                     *)

Spans(r) == IF r = <<>> THEN 1 ELSE Span(r[1], r[2])
Dims(x)  == [i \in DOMAIN x[2] |-> Spans(x[2][i])]
Size(x)  == IF x[2] = <<>> THEN 0 ELSE FoldLeft(LAMBDA n, k : n * k, 1, Dims(x))
\* The types with a width of their own: an integer is a reg of 32 bits.
Typed(d) ==
  CASE d.type = "integer" -> <<"reg", 32, FALSE>>
    [] d.type = "longint" -> <<"reg", 64, FALSE>>
    [] d.type = "real"    -> <<"real", 64, TRUE>>
    [] d.type = "event"   -> <<"event", 1, FALSE>>
    [] OTHER              -> <<d.type, Spans(d.range), d.signed>>
SignalOf(d, x) ==
  [name |-> x[1], type |-> Typed(d)[1], width |-> Typed(d)[2], signed |-> Typed(d)[3],
   size |-> Size(x), dims |-> Dims(x)]
Direction(w) == CASE w = "input" -> "in" [] w = "output" -> "out" [] w = "inout" -> "inout"
PortOf(d, x) ==
  [name |-> x[1], dir |-> Direction(d.dir), type |-> IF d.reg THEN "reg" ELSE "wire",
   width |-> Spans(d.range), msb |-> IF d.range = <<>> THEN 0 ELSE d.range[1],
   lsb |-> IF d.range = <<>> THEN 0 ELSE d.range[2], signed |-> d.signed,
   size |-> Size(x), dims |-> Dims(x)]
PortsOf(d) == [i \in DOMAIN d.names |-> PortOf(d, d.names[i])]
ArgOf(d)   == [name |-> d.names[1][1], dir |-> Direction(d.dir), width |-> Spans(d.range)]
Drives(x, e, delay) == [lhs |-> x, rhs |-> Means(e), delay |-> delay]
Initial(d) ==
  Listed(d.names, LAMBDA x : IF x[3] = <<>> THEN <<>>
                             ELSE <<Drives(<<"ref", x[1]>>, x[3][1], <<>>)>>)
Returns(d) ==
  [name |-> d.name, type |-> "reg", width |-> Spans(d.range), signed |-> FALSE, size |-> 0,
   dims |-> <<>>]
Routine(d, isFunction) ==
  [name |-> d.name, function |-> isFunction, automatic |-> FALSE,
   width |-> IF isFunction THEN Spans(d.range) ELSE 0,
   ports |-> [i \in DOMAIN d.ports |-> ArgOf(d.ports[i])],
   locals |-> IF isFunction THEN <<Returns(d)>> ELSE <<>>, body |-> Does(d.does)]
\* A process and what it does; the sensitivity is by name and edge.
ProcessOf(d) ==
  [kind |-> d.kind, auto |-> d.sens = Star \/ d.kind \in {"always_comb", "always_latch"},
   sens |-> IF d.sens = Star THEN <<>> ELSE d.sens, body |-> Does(d.does)]
\* A repeat counts down a signal of its own.
Counters(S) ==
  Listed(S, LAMBDA s : IF s[1] # "repeat" THEN <<>>
                       ELSE <<SignalOf(Decl("integer", FALSE, <<>>, <<>>), <<Counter, <<>>>>)>>)
Adds(u, list, l) == [u EXCEPT ![list] = @ \o l]
ItemMeans(u, d) ==
  CASE d.op = "decl"   ->
         Adds(Adds(u, "signals", [i \in DOMAIN d.names |-> SignalOf(d, d.names[i])]),
              "assigns", Initial(d))
    [] d.op = "port"   -> Adds(u, "ports", PortsOf(d))
    [] d.op = "assign" ->
         Adds(u, "assigns", <<Drives(Means(d.to), d.e,
                                     [i \in DOMAIN d.delay |-> <<"num", 32, d.delay[i]>>])>>)
    [] d.op = "process"  ->
         Adds(Adds(u, "processes", <<ProcessOf(d)>>), "signals", Counters(d.does))
    [] d.op = "instance" ->
         Adds(u, "instances", <<[name |-> d.name, module |-> d.module, conns |->
           [i \in DOMAIN d.conns |->
              [formal |-> d.conns[i][1], actual |-> MeansAll(d.conns[i][2]), modport |-> None]]]>>)
    [] d.op = "param"    -> Adds(u, "params", <<<<d.name, Means(d.e)>>>>)
    [] d.op \in {"function", "task"} -> Adds(u, "funcs", <<Routine(d, d.op = "function")>>)
    [] d.op = "modport"  ->
         Adds(u, "modports", <<[name |-> d.name, ports |->
           [i \in DOMAIN d.ports |-> <<d.ports[i][2], Direction(d.ports[i][1])>>]]>>)
    [] d.op = "import"   -> Adds(u, "imports", <<<<d.pkg, d.name>>>>)
UnitMeans(u) ==
  FoldLeft(ItemMeans, Adds(Unit(u.name, u.kind), "ports", Listed(u.ports, PortsOf)), u.items)

\* A file that is Verilog, and one that is not.
File(units) ==
  [text |-> Listed(units, UnitText), ok |-> TRUE,
   units |-> [i \in DOMAIN units |-> UnitMeans(units[i])]]
Broken(text) == [text |-> text, ok |-> FALSE, units |-> <<>>]
TextsOfFiles(b) == LET files == FilesOf(b) IN [i \in DOMAIN files |-> files[i].text]

-----------------------------------------------------------------------------
(* Properties.                                                              *)

\* The units read from a text, with what their statements do.  A name local to a
\* routine is a wire of the unit too: what uses it is read as if it were outside.
Seen(r) ==
  LET does(p)  == [p EXCEPT !.body = Done(r.heap, @)]
      all(l)   == [i \in DOMAIN l |-> does(l[i])]
      names(l) == {l[i].name : i \in DOMAIN l}
      inner(u) == UNION {names(u.funcs[i].ports \o u.funcs[i].locals) : i \in DOMAIN u.funcs}
      own(u)   == SelectSeq(u.signals, LAMBDA s : s.name \notin inner(u))
  IN  [i \in DOMAIN r.units |->
         [r.units[i] EXCEPT !.processes = all(@), !.funcs = all(@), !.signals = own(r.units[i])]]
\* Between texts: these parts of all units read are what the sources say.
Agree(parts) ==
  ~reading =>
    \A i \in {k \in DOMAIN results : FilesOf(batch)[k].ok} :
      LET got  == Seen(results[i])
          want == FilesOf(batch)[i].units
      IN  /\ Len(got) = Len(want)
          /\ \A j \in DOMAIN got : \A f \in parts : got[j][f] = want[j][f]

\* Every port, signal, parameter, instance, modport and import is read with its own
\* kind, sign, bounds and connections, whatever was declared before it in the
\* module, in another module of the file or in an earlier file: the globals that
\* carry a declaration's parts are set anew for each.
DeclarationsRead ==
  Agree({"name", "interface", "ports", "signals", "params", "instances", "modports",
         "imports"})

\* The nodes of a continuous assignment group its operands as the precedence and
\* the associativity of the operators do, although the actions only see a stack,
\* and alternatives given up have queued actions of their own.
ExpressionsRead == Agree({"assigns"})

\* Processes, functions and tasks do what their text says in its order: no
\* statement goes into another's branch, is lost with a global two constructs
\* share, or overtakes a timing control before it.
StatementsRead == Agree({"processes", "funcs"})

\* A text is taken with an error count of zero exactly when it is Verilog as a whole:
\* one with something missing or left over is rejected or counted, and the next is read
\* all the same (qsim_compile does not look at the count of a file that has a unit).
WholeTextRead ==
  ~reading => \A i \in DOMAIN results :
    FilesOf(batch)[i].ok <=> results[i].accepted /\ ~results[i].reported

\* When the actions of a text are through, what they pushed was taken: no operand,
\* open block, outer if, loop part or pattern is left for the next construct.
NothingLeft ==
  at > 1 /\ ~reading =>
    /\ parser.exprs = <<>> /\ parser.stack = <<>> /\ parser.ifs = <<>>
    /\ parser.case_sp = <<>> /\ parser.patterns = <<>> /\ parser.items = <<>>
    /\ parser.concat_names = <<>> /\ parser.loop_body = 0 /\ parser.loop_init = <<>>
    /\ parser.loop_cond = <<>> /\ parser.loop_step = <<>> /\ parser.loop_count = <<>>
    /\ parser.func = 0 /\ parser.process = 0 /\ parser.lhs_index = <<>>
    /\ ~parser.func_ports_mode
=============================================================================
