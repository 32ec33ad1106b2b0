------------------------------ MODULE MCVerilog ------------------------------
(***************************************************************************)
(* Batches for VerilogText: every pair of binary operators, both ways; the *)
(* pairs of the declarations, of the statements and of the files below,    *)
(* and files with a lexeme missing or left over before a whole one.        *)
(***************************************************************************)
EXTENDS VerilogText, VerilogGrammar

N(x) == <<"name", x>>
K(n) == <<"number", n>>
Bin(o, e, f) == <<"bin", o, e, f>>
Plain(x) == <<x, <<>>, <<>>>>

A == N("a")
B == N("b")
C == N("c")
Input(r, x) == PortDecl("input", FALSE, FALSE, r, <<Plain(x)>>)
Header == <<Input(<<3, 0>>, "a"), Input(<<0, 1>>, "b"), Input(<<>>, "c"),
            PortDecl("output", TRUE, FALSE, <<7, 0>>, <<Plain("x")>>)>>
Module(nm, items) == UnitOf("module", nm, Header, <<>>, items)
One(items) == <<File(<<Module("t", items)>>)>>

-----------------------------------------------------------------------------
Operators == UNION {{Binary[i][j][1] : j \in DOMAIN Binary[i]} : i \in DOMAIN Binary}
Nested(o, p) == <<Assign(N("x"), Bin(o, Bin(p, A, B), C)), Assign(N("x"), Bin(o, A, Bin(p, B, C)))>>
OperatorPairs == {<<"operators", o, i>> : o \in Operators, i \in DOMAIN Binary}
OperatorItems(o, i) == Listed(Binary[i], LAMBDA p : Nested(o, p[1]))

Unary == {<<"-">>, <<"~">>, <<"!">>, <<"&">>, <<"|">>, <<"^">>, <<"~", "&">>, <<"~", "^">>}
Un(o, e) == <<"un", o, e>>
Cond(c, e, f) == <<"cond", c, e, f>>
Operands ==
  {Cond(Cond(A, B, C), A, B), Cond(A, Cond(B, C, A), C), Cond(A, B, Cond(C, A, B)),
   Bin("+", Cond(A, B, C), A), <<"slice", "a", 2, 1>>, <<"cat", <<A, B, C>>>>, <<"rep", 2, A>>,
   Bin("-", <<"call", "f", <<A, Bin("+", B, C)>>>>, <<"cat", <<B>>>>)}
OperandPairs == {<<"operands", o, e>> : o \in Unary, e \in Operands}
OperandItems(o, e) ==
  <<Assign(N("x"), Un(o, e)), AssignLate(2, <<"slice", "x", 3, 2>>, Bin("&", Un(o, B), e))>>

-----------------------------------------------------------------------------
Declarations ==
  {Decl("wire", FALSE, <<>>, <<Plain("p"), <<"q", <<>>, <<Bin("+", A, K(1))>>>>>>),
   Decl("wire", TRUE, <<3, 0>>, <<Plain("p"), Plain("q")>>),
   Decl("tri1", FALSE, <<0, 2>>, <<Plain("p")>>),
   Decl("wand", FALSE, <<>>, <<Plain("p")>>),
   Decl("reg", FALSE, <<7, 0>>, <<<<"p", <<>>, <<K(1)>>>>, Plain("q")>>),
   Decl("reg", TRUE, <<>>, <<Plain("p")>>),
   Decl("logic", FALSE, <<1, 0>>, <<<<"p", <<<<0, 3>>>>, <<>>>>, Plain("q")>>),
   Decl("reg", FALSE, <<3, 0>>, <<<<"p", <<<<0, 3>>, <<2, 1>>>>, <<>>>>, <<"q", <<<<1, 0>>>>, <<>>>>>>),
   Decl("integer", FALSE, <<>>, <<Plain("p"), <<"q", <<>>, <<K(2)>>>>>>),
   Decl("real", FALSE, <<>>, <<Plain("p")>>),
   Decl("event", FALSE, <<>>, <<Plain("p"), Plain("q")>>),
   Param("parameter", "P", Bin("*", K(2), K(3))),
   Instance("m", "u", <<<<"i", <<Bin("|", A, B)>>>>, <<"j", <<>>>>, <<"k", <<C>>>>>>),
   Process("initial", <<>>, <<<<"put", "x", A>>>>)}
\* The dimensions and the sign read last are given to an integer too.
Stale(d, e) ==
  e.op = "decl" /\ e.type = "integer" /\ d.op = "decl"
  /\ (d.signed \/ \E i \in DOMAIN d.names : d.names[i][2] # <<>>)
DeclarationPairs ==
  {<<"items", d, e>> : <<d, e>> \in {p \in Declarations \X Declarations : ~Stale(p[1], p[2])}}

-----------------------------------------------------------------------------
X(e) == <<"put", "x", e>>
Statements ==
  {X(A), <<"later", "x", B>>, <<"trigger", "e">>, <<"disable", "t">>,
   <<"if", C, <<X(A)>>, <<>>>>, <<"if", Bin("<", A, B), <<X(A), X(B)>>, <<X(C)>>>>,
   <<"if", A, <<<<"if", B, <<X(A)>>, <<>>>>>>, <<<<"if", C, <<X(B)>>, <<X(C)>>>>>>>>,
   <<"case", A, <<<<<<K(1), K(2)>>, <<X(A)>>>>, <<<<B>>, <<X(B), X(C)>>>>>>, <<X(K(0))>>>>,
   <<"case", A, <<<<<<K(1)>>, <<<<"if", B, <<X(A)>>, <<>>>>>>>>>>, <<>>>>,
   <<"for", "x", K(0), Bin("<", N("x"), A), Bin("+", N("x"), K(1)), <<<<"later", "x", B>>>>>>,
   <<"while", A, <<X(A), <<"after", 1, X(B)>>, X(C)>>>>,
   <<"forever", <<<<"at", 1, "c", X(A)>>>>>>,
   <<"named", "n", <<X(A), <<"if", A, <<X(B)>>, <<>>>>>>>>,
   <<"after", 2, X(A)>>, <<"at", 1, "c", X(B)>>, <<"at", 0, "b", <<"later", "x", A>>>>,
   <<"wait", A, X(C)>>, <<"display", <<A, B>>>>, <<"enable", "go", <<A, Bin("+", B, C)>>>>}
RepeatTwice == <<"repeat", A, <<X(B), <<"after", 1, X(C)>>>>>>
Senses == {<<<<"c", 1>>>>, <<<<"a", 0>>, <<"c", -1>>>>, Star}
\* What follows a loop with a timing control in it is not kept behind it.
MaySuspend(s) == s[1] \in {"while", "forever", "repeat"}
Choosing == {s \in Statements : s[1] \in {"if", "case", "put"}}
Processes ==
  {<<"items", Process("initial", <<>>, <<s, r>>), Param("parameter", "P", K(1))>> :
     <<s, r>> \in {p \in Statements \X (Statements \cup {RepeatTwice}) : ~MaySuspend(p[1])}}
  \cup {<<"items", Process("always", l, <<s>>), Process("initial", <<>>, <<X(B)>>)>> :
     l \in Senses, s \in Statements}
  \cup {<<"items", Process(k, <<>>, <<s>>), Process("always", <<<<"a", 0>>>>, <<X(B), s>>)>> :
     k \in {"always_comb", "always_latch"}, s \in Choosing}

-----------------------------------------------------------------------------
F == Func("f", <<3, 0>>, <<Input(<<3, 0>>, "i"), Input(<<>>, "j")>>,
          <<<<"put", "f", Bin("+", N("i"), N("j"))>>>>)
Go == TaskOf("go", <<Input(<<1, 0>>, "i"), PortDecl("output", FALSE, FALSE, <<>>, <<Plain("o")>>)>>,
             <<<<"put", "o", N("i")>>, <<"after", 1, <<"put", "o", K(0)>>>>>>)
Old(nm) ==
  UnitOf("module", nm, <<>>, <<"a", "b">>,
         <<PortDecl("input", FALSE, TRUE, <<3, 0>>, <<Plain("a")>>),
           PortDecl("output", TRUE, FALSE, <<>>, <<Plain("b")>>), Assign(B, A)>>)
Bus == UnitOf("interface", "bus", <<Input(<<>>, "c")>>, <<>>,
              <<Decl("logic", FALSE, <<3, 0>>, <<Plain("d")>>),
                Modport("m", <<<<"input", "d">>, <<"output", "c">>>>)>>)
Pack == UnitOf("package", "p", <<>>, <<>>, <<Param("parameter", "W", K(4))>>)
Files ==
  <<<<Module("t", <<F, Assign(N("x"), <<"call", "f", <<A, B>>>>)>>)>>,
   <<Module("t", <<Go, Process("initial", <<>>, <<<<"enable", "go", <<A, B>>>>, X(C)>>)>>)>>,
   <<Old("t"), Module("u", <<Assign(N("x"), A)>>)>>, <<Bus, Module("t", <<Imported("p", "*")>>)>>,
   <<Pack, Old("t")>>, <<Module("t", <<Decl("reg", TRUE, <<3, 0>>, <<<<"m", <<<<0, 3>>>>, <<>>>>>>)>>)>>,
   <<Module("t", <<Process("initial", <<>>, <<<<"if", A, <<X(A)>>, <<X(B)>>>>, X(C)>>)>>)>>>>
FilePairs == {<<"files", i, j>> : i \in DOMAIN Files, j \in DOMAIN Files}

Needed == <<"(", ")", "[", "]", "end", ";", "=", "endmodule", "module">>
Lexemes(i) == File(Files[i]).text
Missing(i) == {j \in DOMAIN Lexemes(i) : Lexemes(i)[j] \in Range(Words(Needed))}
LeftOver   == <<";", "module", "endmodule", "x">>
BrokenFiles ==
  UNION {{<<"missing", i, j>> : j \in Missing(i)} \cup {<<"over", i, j>> : j \in DOMAIN LeftOver} :
         i \in DOMAIN Files}

TheBatches ==
  OperatorPairs \cup OperandPairs \cup DeclarationPairs \cup Processes \cup FilePairs
  \cup BrokenFiles
TheFiles(b) ==
  LET next == File(<<Old("u")>>)
  IN  CASE b[1] = "operators" -> One(OperatorItems(b[2], b[3]))
        [] b[1] = "operands"  -> One(OperandItems(b[2], b[3]))
        [] b[1] = "items"     -> One(Tail(b))
        [] b[1] = "files"     -> <<File(Files[b[2]]), File(Files[b[3]])>>
        [] b[1] = "missing"   -> <<Broken(RemoveAt(Lexemes(b[2]), b[3])), next>>
        [] b[1] = "over"      -> <<Broken(Lexemes(b[2]) \o Words(<<LeftOver[b[3]]>>)), next>>
=============================================================================
