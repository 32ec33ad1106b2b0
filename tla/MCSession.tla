----------------------------- MODULE MCSession -----------------------------
(***************************************************************************)
(* The design and the test bench of the session's run.                     *)
(***************************************************************************)
EXTENDS Session

Gets(lhs, op, in) == [lhs |-> lhs, op |-> op, in |-> in, vhdl |-> FALSE, delay |-> 0]
In(src, dst)  == [src |-> src, dst |-> dst, dir |-> "in"]
Out(src, dst) == [src |-> src, dst |-> dst, dir |-> "out"]
Put(lhs, op, in) == [lhs |-> lhs, op |-> op, in |-> in, nba |-> FALSE]
Load(lhs, in)    == [lhs |-> lhs, op |-> "buf", in |-> <<in>>, nba |-> TRUE]
Always(edge, x, do) ==
  [on |-> <<[sig |-> x, edge |-> edge]>>,
   body |-> <<[cond |-> [k |-> "always", sig |-> x], do |-> do]>>]

\* A VHDL process with if rising_edge(x).
Rising(x, a) ==
  [Always("any", x, <<a>>) EXCEPT !.body[1].cond = [k |-> "rising", sig |-> x]]

Unit(name, needs, group, index, assigns, gates, procs, wires) ==
  [name |-> name, needs |-> needs,
   flat |-> [group |-> group, index |-> index, assigns |-> assigns, gates |-> gates,
             procs |-> procs, wires |-> wires]]
Wires(names) == [x \in ToSet(names) |-> "wire"]

\* One module with all of it, out of order in the table of signals:
\*  - a shift register of two stages q1, q2; the clock of the second comes out
\*    of an instance two levels deep (clk, bi, ci, bo, gclk);
\*  - a body that assigns at once behind a port (ce, cy, y), a primitive g;
\*  - nets of two drivers w and o, and a three-state net t;
\*  - VHDL: s, loaded from q2, and v; p follows d after a delay.
Index == <<"z", "y", "cy", "ce", "g", "q2", "ci", "bi", "bo", "gclk", "n",
           "m", "w", "o", "t", "k", "s", "v", "p", "h", "d", "q1", "clk">>
Top ==
  Unit("top", {},
       [w |-> "wand", o |-> "wor", t |-> "tri0", s |-> "std", v |-> "std"] @@ Wires(Index), Index,
       <<Gets("bo", "buf", <<"ci">>), Gets("n", "not", <<"q2">>), Gets("z", "not", <<"y">>),
         Gets("w", "buf", <<"h">>), Gets("w", "buf", <<"d">>),
         Gets("o", "buf", <<"h">>), Gets("o", "not", <<"d">>),
         Gets("t", "tri", <<"d", "h">>), Gets("m", "and", <<"w", "o">>),
         [Gets("v", "not", <<"s">>) EXCEPT !.vhdl = TRUE],
         [Gets("p", "buf", <<"d">>) EXCEPT !.delay = 2]>>,
       <<[lhs |-> "g", op |-> "and", in |-> <<"z", "d">>]>>,
       <<Always("pos", "gclk", <<Load("q2", "q1")>>),
         Always("any", "ce", <<Put("cy", "buf", <<"ce">>)>>),
         Always("pos", "clk", <<Load("q1", "d")>>), Rising("gclk", Load("s", "q2"))>>,
       <<In("bi", "ci"), In("clk", "bi"), In("d", "ce"), In("h", "k"), Out("bo", "gclk"), Out("cy", "y")>>)
\* An instance of it is of a module nobody has the source of.
Broken == Unit("broken", {"nowhere"}, Wires(<<"b">>), <<"b">>, <<>>, <<>>, <<>>, <<>>)
Mixed == {Top, Broken}
Bench == {<<"clk", "0">>, <<"clk", "1">>, <<"d", "1">>, <<"h", "0">>}
Overrides == {<<"d", "0">>, <<"n", "1">>}
=============================================================================
