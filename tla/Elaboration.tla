----------------------------- MODULE Elaboration -----------------------------
(***************************************************************************)
(* From source files to an elaborated design: each file is preprocessed    *)
(* and parsed, libraries are searched for modules that are instantiated    *)
(* and not defined (qsim_compile), and uir_elaborate expands the generate  *)
(* constructs and binds instances and ports.  A session may compile more   *)
(* files afterwards and elaborate again.                                   *)
(*                                                                         *)
(* One step is one line preprocessed, one token parsed, one search of the  *)
(* libraries, one round of expansion or one binding.                       *)
(***************************************************************************)
EXTENDS Preprocessor, Generates

CONSTANT Inputs  \* records [batches, library]

\* Libraries are searched by qsim_compile, which compiles one batch.
ASSUME InputsAssumption ==
  \A i \in Inputs :
    /\ i.batches # <<>> /\ (i.library = <<>> \/ Len(i.batches) = 1)
    /\ \A n \in DOMAIN i.library : i.library[n].fine

VARIABLES
  input,   \* the input compiled
  batch,   \* how many batches of files have been started
  todo,    \* files of the batch that are left
  file,    \* the file being read
  phase,   \* "idle", "reading", "parsing", "expanding" or "done"
  q,       \* the preprocessor
  tokens,  \* what is left to parse of the file
  g,       \* the parsers' and the elaborator's memory
  units,   \* the design units compiled, in order
  ok,      \* success of the compilation and of the last elaboration
  read     \* history: the modules of the files read, in order

vars == <<input, batch, todo, file, phase, q, tokens, g, units, ok, read>>

Text(name, lang, fine, tree) == [name |-> name, lang |-> lang, fine |-> fine, tree |-> tree]
NoFile == Text(None, "verilog", TRUE, <<>>)

Init ==
  /\ input \in Inputs
  /\ batch = 1 /\ todo = input.batches[1]
  /\ file = NoFile /\ phase = "idle"
  /\ q = Preprocess(<<>>) /\ tokens = <<>>
  /\ g = Parser(Memory)
  /\ units = <<>> /\ ok = TRUE /\ read = <<>>

-----------------------------------------------------------------------------
(* Reading a file.                                                          *)

\* verilog_parse_file_ex, or vhdl_parse which has no preprocessor.
OpenFile ==
  /\ phase = "idle" /\ todo # <<>>
  /\ file' = Head(todo) /\ todo' = Tail(todo)
  /\ g' = Parser([units |-> g.units, gens |-> g.gens, dead |-> g.dead])
  /\ LET lines == Lines(file'.tree, file'.lang) IN
     IF file'.lang = "verilog"
     THEN phase' = "reading" /\ q' = Preprocess(lines) /\ tokens' = <<>>
     ELSE phase' = "parsing" /\ tokens' = lines /\ UNCHANGED q
  /\ UNCHANGED <<input, batch, units, ok, read>>

Reads(r) ==
  q' = r /\ UNCHANGED <<input, batch, todo, file, phase, tokens, g, units, ok, read>>
Directive(t) == phase = "reading" /\ Reading(q) /\ Top(q).lines # <<>> /\ Line(q).t = t

DefineLine   == Directive("define") /\ Reads(Obey(q, DefineMacro(q, Line(q).n, Line(q).v)))
UndefLine    == Directive("undef") /\ Reads(Obey(q, UndefMacro(q, Line(q).n)))
ResetallLine == Directive("resetall") /\ Reads(Obey(q, [q EXCEPT !.macros = <<>>]))
IfdefLine    == Directive("ifdef") /\ Reads(OpenCond(q, Defined(q, Line(q).n)))
IfndefLine   == Directive("ifndef") /\ Reads(OpenCond(q, ~Defined(q, Line(q).n)))
ElsifLine    == Directive("elsif") /\ Reads(NextBranch(q, Defined(q, Line(q).n)))
ElseLine     == Directive("orelse") /\ Reads(NextBranch(q, TRUE))
EndifLine    == Directive("fi") /\ Reads(CloseCond(q))
IncludeLine  == Directive("include") /\ Reads(OpenInclude(q, Line(q).f))
OtherLine    ==
  /\ phase = "reading" /\ Reading(q) /\ Top(q).lines # <<>>
  /\ Line(q).t \notin {"define", "undef", "resetall", "ifdef", "ifndef", "elsif", "orelse",
                       "fi", "include"}
  /\ Reads(EmitLine(q))
EndOfSource  == phase = "reading" /\ Reading(q) /\ Top(q).lines = <<>> /\ Reads(CloseFile(q))

\* verilog_preprocessor_process returns: a file in error is not parsed.
EndReading ==
  /\ phase = "reading" /\ ~Reading(q) /\ ~q.overrun
  /\ IF q.error THEN phase' = "idle" /\ ok' = FALSE /\ tokens' = <<>>
     ELSE phase' = "parsing" /\ tokens' = Substituted(q) /\ UNCHANGED ok
  /\ UNCHANGED <<input, batch, todo, file, q, g, units, read>>

-----------------------------------------------------------------------------
(* Parsing.                                                                 *)

Parses(h) ==
  /\ g' = h /\ tokens' = Tail(tokens)
  /\ UNCHANGED <<input, batch, todo, file, phase, q, units, ok, read>>
Token(t) == phase = "parsing" /\ tokens # <<>> /\ Head(tokens).t = t

ModuleToken   == Token("module") /\ Parses(StartModule(g, Head(tokens).m))
EndToken      == Token("endmodule") /\ Parses(SaveUnit(g))
ItemToken     == Token("item") /\ Parses(ParseItem(g, Head(tokens)))
LabelToken    == Token("label") /\ Parses(BlockLabel(g, Head(tokens).n))
ForToken      == Token("for") /\ Parses(ForEnter(g, Head(tokens).c))
EndForToken   == Token("endfor") /\ Parses(ForLeave(g))
IfToken       == Token("if") /\ Parses(IfEnter(g, Head(tokens).e))
EndIfToken    == Token("endif") /\ Parses(IfLeave(g))
ElseToken     == Token("else") /\ Parses(ElseEnter(g))
CaseToken     == Token("case") /\ Parses(CaseEnter(g, Head(tokens).e))
ArmToken      == Token("arm") /\ Parses(CaseItemEnter(g, Head(tokens).pats))
EndArmToken   == Token("endarm") /\ Parses(CaseItemLeave(g))
DefaultToken  == Token("default") /\ Parses(CaseDefaultEnter(g))
EndCaseToken  == Token("endcase") /\ Parses(CaseLeave(g))
VhdlForToken  == Token("vfor") /\ Parses(VhdlForEnter(g, Head(tokens).c))
VhdlEndFor    == Token("vendfor") /\ Parses(VhdlForLeave(g))
VhdlIfToken   == Token("vif") /\ Parses(VhdlIfEnter(g, Head(tokens).e))
VhdlElseToken == Token("velse") /\ Parses(VhdlElse(g))
VhdlEndIf     == Token("vendif") /\ Parses(VhdlIfLeave(g))

\* The file's units join the others (qsim_compile, add_unit).
EndParsing ==
  /\ phase = "parsing" /\ tokens = <<>>
  /\ units' = units \o g.done
  /\ read' = read \o Modules(Files, file.tree)
  /\ phase' = "idle"
  /\ UNCHANGED <<input, batch, todo, file, q, tokens, g, ok>>

-----------------------------------------------------------------------------
(* Libraries and elaboration.                                               *)

Named(n)   == {i \in DOMAIN units : g.units[units[i]].m.n = n}
Insts(u)   == SelectSeq(g.units[u].leaves, LAMBDA l : l.of # None)
Wanted(us) == FlattenSeq([i \in DOMAIN us |-> Insts(us[i])])

\* Seeded fault: only the instances of the first unit are considered.
MissingOfFirst == {n \in {l.of : l \in ToSet(Wanted(SubSeq(units, 1, 1)))} : Named(n) = {}}
\* collect_missing_modules
Missing == {n \in {l.of : l \in ToSet(Wanted(units))} : Named(n) = {}}

\* The do loop of qsim_compile: files found are compiled and searched again.
SearchLibrary ==
  /\ phase = "idle" /\ todo = <<>>
  /\ LET found == SetToSeq(Missing \cap DOMAIN input.library) IN
     IF ok /\ found # <<>>
     THEN todo' = [i \in DOMAIN found |-> input.library[found[i]]] /\ UNCHANGED phase
     ELSE phase' = "expanding" /\ UNCHANGED todo
  /\ UNCHANGED <<input, batch, file, q, tokens, g, units, ok, read>>

Unexpanded == SelectInSeq(units, LAMBDA u : g.units[u].gens # <<>>)

\* uir_expand_generates: unit after unit, round after round.
ExpandRound ==
  /\ phase = "expanding" /\ Unexpanded > 0
  /\ g' = ExpandPass(g, units[Unexpanded])
  /\ UNCHANGED <<input, batch, todo, file, phase, q, tokens, units, ok, read>>

\* unit_map_lookup
FirstNamed(n) == IF Named(n) = {} THEN 0 ELSE CHOOSE i \in Named(n) : \A j \in Named(n) : i <= j

\* bind_instances and bind_ports: an instance bound before stays as it is.
Bound(l) ==
  IF l.of = None \/ l.to # 0 THEN l
  ELSE [l EXCEPT !.to = FirstNamed(l.of)]
PortFound(l) == l.port = None \/ l.port \in g.units[units[l.to]].m.ports

Bind ==
  /\ phase = "expanding" /\ Unexpanded = 0
  /\ g' = FoldLeft(LAMBDA h, u : [h EXCEPT !.units[u].leaves = [i \in DOMAIN @ |-> Bound(@[i])]],
                   g, units)
  /\ ok' = (ok /\ \A i \in DOMAIN units : \A l \in ToSet(g'.units[units[i]].leaves) :
                    l.of # None => l.to # 0 /\ PortFound(l))
  /\ phase' = "done"
  /\ UNCHANGED <<input, batch, todo, file, q, tokens, units, read>>

\* The session's client compiles more files.
CompileMore ==
  /\ phase = "done" /\ batch < Len(input.batches)
  /\ batch' = batch + 1 /\ todo' = input.batches[batch + 1]
  /\ phase' = "idle" /\ ok' = TRUE
  /\ UNCHANGED <<input, file, q, tokens, g, units, read>>

Preprocessing ==
  \/ OpenFile \/ DefineLine \/ UndefLine \/ ResetallLine \/ IfdefLine \/ IfndefLine
  \/ ElsifLine \/ ElseLine \/ EndifLine \/ IncludeLine \/ OtherLine \/ EndOfSource
  \/ EndReading
Parsing ==
  \/ ModuleToken \/ EndToken \/ ItemToken \/ LabelToken \/ ForToken \/ EndForToken
  \/ IfToken \/ EndIfToken \/ ElseToken \/ CaseToken \/ ArmToken \/ EndArmToken
  \/ DefaultToken \/ EndCaseToken \/ VhdlForToken \/ VhdlEndFor \/ VhdlIfToken
  \/ VhdlElseToken \/ VhdlEndIf \/ EndParsing
Elaborating == SearchLibrary \/ ExpandRound \/ Bind \/ CompileMore
\* Everything compiled and elaborated: the only place to stop.
Finished == phase = "done" /\ batch = Len(input.batches) /\ UNCHANGED vars

Next == Preprocessing \/ Parsing \/ Elaborating \/ Finished

Spec == Init /\ [][Next]_vars

-----------------------------------------------------------------------------
(* Properties.                                                              *)

\* The state has the shape the operators above expect, and the parsers' globals
\* point to units and nodes that exist.
TypeOK ==
  /\ phase \in {"idle", "reading", "parsing", "expanding", "done"}
  /\ batch \in 1 .. Len(input.batches) /\ ok \in BOOLEAN
  /\ ToSet(units) \subseteq 1 .. LastUnit(g)
  /\ {g.unit, g.saved, g.ifOuter, g.caseOuter, g.caseTemp, g.outer} \subseteq 0 .. LastUnit(g)
  /\ {g.gen, g.ifNode, g.caseNode} \subseteq 0 .. LastGen(g)
  /\ g.dead \subseteq 1 .. LastUnit(g)
  /\ Len(q.macros) <= MaxMacros
  /\ \A i, j \in DOMAIN q.macros : q.macros[i].n = q.macros[j].n => i = j

\* What the preprocessor hands to the parser is what the directives mean where
\* they stand: nested conditionals, definitions inside and after them, included
\* files with conditionals of their own, macros in macros.  A file that ends in
\* an error is one that includes a missing file or one too deep, or defines too many
\* macros; none of those compiled opens MaxCond conditionals at once.
Preprocessed ==
  phase = "reading" /\ ~Reading(q) =>
    /\ ~q.overrun /\ q.error = ~file.fine
    /\ ~q.error => Substituted(q) = Lines(Kept(Files, file.tree, <<>>).out, "verilog")

Count(s, x) == Cardinality({i \in DOMAIN s : s[i] = x})
Shown(l) == [n |-> l.n, at |-> l.at, of |-> l.of, port |-> l.port, arg |-> l.arg]

\* Expansion leaves in each unit exactly the items its generate constructs
\* stand for, under the names and with the genvar values of their iterations,
\* whatever was parsed before in the same file and however often the design is
\* elaborated.
Expanded ==
  phase = "done" =>
    /\ Len(units) = Len(read)
    /\ \A i \in DOMAIN units :
         LET have == [j \in DOMAIN g.units[units[i]].leaves |->
                        Shown(g.units[units[i]].leaves[j])]
             want == ItemsOf(read[i])
         IN  \A x \in ToSet(have) \cup ToSet(want) : Count(have, x) = Count(want, x)

\* While generates are expanded, a template belongs to one pending node and has
\* not been destroyed: no iteration reads what another one freed.
Owned ==
  phase = "expanding" =>
    LET all == FlattenSeq([i \in DOMAIN units |-> Reach(g, units[i])])
    IN  /\ ToSet(all) \cap g.dead = {}
        /\ Cardinality(ToSet(all)) = Len(all)

\* An elaboration binds every instance to the first unit of its module's name,
\* among the files given and those found in the libraries, and it succeeds just
\* when each has one with the port connected.
Linked ==
  phase = "done" =>
    LET insts == ToSet(Wanted(units)) IN
    /\ \A l \in insts : /\ l.to = FirstNamed(l.of)
                        /\ l.to = 0 => l.of \notin DOMAIN input.library
    /\ (\A f \in ToSet(FlattenSeq(SubSeq(input.batches, 1, batch))) : f.fine) =>
         (ok <=> \A l \in insts :
                   LET first == SelectInSeq(read, LAMBDA m : m.n = l.of)
                   IN  first > 0 /\ (l.port = None \/ l.port \in read[first].ports))
=============================================================================
