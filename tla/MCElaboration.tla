---------------------------- MODULE MCElaboration ----------------------------
(***************************************************************************)
(* Sources for Elaboration: every pair of the constructs below in one      *)
(* module, in Verilog and in VHDL; files of directives; designs of several *)
(* files, with and without a library.                                      *)
(***************************************************************************)
EXTENDS Elaboration

A == Item("a", None)
B == Item("b", None)
C == Item("c", None)
Indexed(n) == Item(n, "i")
Leaf(n)    == Instance(n, "leaf", "d")
Up(body)   == For("up", "i", Lit(0), Lit(1), 1, body)
Down(body) == For("down", "i", Name("P"), Lit(1), -1, body)

\* In a loop: an if with or without else, a case.
LoopIf     == If(Is("i", 1), <<Indexed("x")>>, <<Indexed("y"), Indexed("z")>>)
LoopIfOnly == If(Is("i", 0), <<Indexed("x")>>, <<>>)
LoopCase   == Case(Name("i"), <<Arm(<<0>>, <<Indexed("x")>>), Arm(<<1, 2>>, <<Leaf("y")>>)>>,
                   <<Indexed("z")>>)
LoopPair   == If(Is("P", 2), <<Indexed("v")>>, <<B>>)

Constructs ==
  {A, Leaf("u"), Up(<<Indexed("a")>>), Down(<<Indexed("a"), Leaf("u")>>),
   Up(<<LoopIf, Indexed("b")>>), Up(<<Indexed("b"), LoopIfOnly>>), Down(<<LoopCase>>),
   Up(<<LoopIf, LoopCase, LoopPair>>), For("none", "i", Lit(3), Name("P"), 1, <<B>>),
   If(Lit(1), <<A, Up(<<Indexed("b")>>)>>, <<C>>), If(Lit(0), <<A>>, <<B, Leaf("v")>>),
   If(Lit(0), <<Up(<<A>>)>>, <<>>), If(Lit(1), <<B>>, <<>>),
   Case(Lit(1), <<Arm(<<0>>, <<A>>), Arm(<<1, 2>>, <<B>>), Arm(<<1>>, <<C>>)>>, <<A>>),
   Case(Lit(4), <<Arm(<<0>>, <<A>>)>>, <<Up(<<C>>)>>)}
\* After an if without else in a loop, the parser takes the next if of the file
\* for one in a loop.
Misread(x, y) == x.t = "for" /\ LoopIfOnly \in ToSet(x.body) /\ y.t = "if"

\* Two constructs in one module, in two modules of one file, or in two files.
Ports   == {"d"}
M(n, l) == Module("verilog", n, Ports, [P |-> Len(l)], l)
One(tree)   == Text("one", "verilog", TRUE, tree)
LeafFile    == Text("leaf", "verilog", TRUE, <<M("leaf", <<>>)>>)
TopFile     == Text("top", "verilog", TRUE, <<M("top", <<Instance("m", "one", "d"), A>>)>>)
Session(b)  == [batches |-> b, library |-> <<>>]
VerilogInputs ==
  UNION {{Session(<<<<One(<<M("one", <<x, y>>)>>), LeafFile>>, <<TopFile>>>>),
          Session(<<<<One(<<M("one", <<x>>), M("two", <<y, B>>)>>), LeafFile>>>>)} :
         <<x, y>> \in {p \in Constructs \X Constructs : ~Misread(p[1], p[2])}}

VhdlConstructs ==
  {A, Up(<<Indexed("a"), B>>), Down(<<Indexed("b"), Leaf("u")>>), If(Is("P", 2), <<A, B>>, <<C>>),
   If(Is("P", 1), <<A>>, <<>>), If(Name("P"), <<Leaf("u")>>, <<>>)}
Entity(n, l) == Text(n, "vhdl", TRUE, <<Module("vhdl", n, Ports, [P |-> Len(l)], l)>>)
VhdlInputs ==
  {Session(<<<<Entity("one", l), LeafFile>>, <<TopFile>>>>) :
     l \in BoundedSeq(VhdlConstructs, 2)}

-----------------------------------------------------------------------------
(* Directives, around a module's items.                                     *)

MCFiles ==
  ("guard" :> <<Group(TRUE, <<On("G", <<Define("G", <<>>), Define("W", <<A, Use("X")>>)>>)>>, <<>>)>>)
  @@ ("items" :> <<Group(FALSE, <<On("G", <<A>>), On("H", <<B>>)>>, <<C>>)>>)
  @@ ("outer" :> <<B, Include("items"), C>>)
  @@ ("itself" :> <<A, Include("itself")>>)

Switches == {<<>>, <<Define("G", <<>>)>>, <<Define("H", <<>>)>>,
             <<Define("G", <<>>), Define("H", <<>>)>>, <<Define("G", <<>>), Undef("G")>>,
             <<Define("G", <<>>), Define("H", <<>>), ResetAll>>, <<Define("G", <<A>>), Define("G", <<>>)>>}
Inner == Group(TRUE, <<On("H", <<A, Define("K", <<>>)>>)>>, <<B>>)
Directed ==
  {<<Inner, Group(FALSE, <<On("K", <<C>>)>>, <<>>)>>,
   <<Group(FALSE, <<On("G", <<Inner, A>>), On("H", <<B, Inner>>), On("G", <<C>>)>>, <<C, Inner>>)>>,
   <<Group(TRUE, <<On("G", <<A>>), On("K", <<B>>), On("H", <<C>>)>>, <<B>>), Include("items")>>,
   <<Up(<<Group(FALSE, <<On("H", <<A>>)>>, <<Indexed("b")>>)>>), Define("K", <<>>), Undef("H")>>,
   <<Group(FALSE, <<On("H", <<Include("outer"), Inner>>)>>, <<Include("items")>>)>>,
   <<Include("guard"), Define("X", <<B, Leaf("u")>>), Include("guard"), Use("X"),
     Group(FALSE, <<On("W", <<C, Use("W")>>)>>, <<>>)>>}
\* Conditionals as deep as their stack holds.
Deep(n) == FoldLeft(LAMBDA l, x : <<Group(FALSE, <<On(x, l)>>, <<A>>)>>, <<B>>, [i \in 1 .. n |-> "G"])
Rejected ==
  {<<Include("nowhere")>>, <<A, Include("itself")>>,
   [i \in 1 .. MaxMacros + 1 |-> Define(<<"G", "H", "K", "W", "X", "Y">>[i], <<>>)]}
DirectiveInputs ==
  {Session(<<<<One(<<M("one", x \o y)>>), LeafFile>>>>) : x \in Switches, y \in Directed}
  \cup {Session(<<<<One(x \o <<M("one", y)>>), LeafFile>>>>) :
          x \in Switches, y \in Directed \cup {Deep(MaxCond - 1)}}
  \cup {Session(<<<<[One(<<M("one", x)>>) EXCEPT !.fine = FALSE], LeafFile>>, <<One(<<M("one", <<A>>)>>)>>>>) :
          x \in Rejected}

-----------------------------------------------------------------------------
(* Designs.                                                                 *)

Ref(n) == Instance("u", n, "d")
OtherLeaf  == Text("other", "verilog", TRUE, <<Module("verilog", "leaf", {"q"}, [P |-> 0], <<C>>)>>)
MidFile    == Text("mid", "verilog", TRUE, <<M("mid", <<Ref("leaf"), B>>)>>)
Tops == {One(<<M("one", <<Instance("u", m, pt), x>>)>>) :
           m \in {"mid", "leaf", "two"}, pt \in {"d", "q", None}, x \in {A, Ref("leaf"), Ref("one")}}
Libraries == {<<>>, "leaf" :> LeafFile, "mid" :> MidFile, ("leaf" :> LeafFile) @@ ("mid" :> MidFile)}
DesignInputs ==
  {[batches |-> <<<<t>> \o fs>>, library |-> l] :
     t \in Tops, fs \in {<<>>, <<LeafFile>>, <<OtherLeaf, LeafFile>>}, l \in Libraries}
  \cup {Session(<<<<t>>, <<MidFile, LeafFile>>>>) : t \in Tops}

MCInputs == VerilogInputs \cup VhdlInputs \cup DirectiveInputs \cup DesignInputs
=============================================================================
