---------------------------- MODULE MCStatements ----------------------------
EXTENDS Statements

Initial(l) == [lang |-> "verilog", kind |-> "initial", body |-> l]
Always(l)  == [lang |-> "verilog", kind |-> "always", body |-> l]
Vhdl(l)    == [lang |-> "vhdl", kind |-> "process", body |-> l]

\* Statements a test bench is made of, labelled by their place i in the list.
Shape(i) ==
  LET j == 10 * i IN
  <<Do(i), After(1, Do(i)), After(2, Null), After(2, Begin(<<Do(i), Do(j)>>)),
   At("e", Do(i)), Wait("f", Do(i)), Wait("f", After(1, Do(i))), Null,
   If(High, <<Do(i), After(1, Do(j))>>, <<Do(-i)>>), If(Low, <<Do(-i)>>, <<Do(i)>>),
   Repeat(0, <<Do(i)>>), Repeat(5, <<Do(i)>>), Repeat(2, <<After(1, Do(i)), Do(j)>>),
   Repeat(Endless, <<Do(i), After(2, Do(j))>>),
   Named("b", <<Do(i), Disable("b"), Do(-i)>>), Named("b", <<After(1, Do(i)), Do(j)>>),
   Named("b", <<Repeat(2, <<If(High, <<Disable("b")>>, <<>>), Do(-i)>>), Do(-j)>>),
   Repeat(2, <<Named("b", <<Do(i), Disable("b")>>), Do(j)>>),
   Case("x", <<[c |-> "y", body |-> <<Do(-i)>>], [c |-> "x", body |-> <<After(1, Do(i))>>]>>,
        <<>>),
   Call("t", <<Do(i), After(1, Do(j))>>), After(1, At("e", Do(i))),
   At("e", Begin(<<After(1, Repeat(2, <<Do(i)>>))>>)), Wait("f", If(High, <<Do(i)>>, <<>>)),
   If(High, <<If(Low, <<>>, <<Do(i), After(1, Null)>>), Do(j)>>, <<Do(-i)>>)>>

\* Nested conditionals of the VHDL reader and its other statements.
Arms(x, y, a, b) == <<[c |-> x, body |-> a], [c |-> y, body |-> b]>>
VShape(i) ==
  LET j == 10 * i
      inner(l) == Elsif(Arms(Low, High, <<Do(-l)>>, <<Do(l)>>), <<Do(-l)>>)
      nested(l) == Elsif(Arms(Low, Low, <<inner(-l)>>, <<Do(-l)>>), <<Do(l), inner(10 * l)>>)
  IN
  <<Do(i), inner(i), nested(i), If(High, <<nested(i), Do(j)>>, <<>>),
   Elsif(Arms(High, High, <<nested(i)>>, <<Do(-i)>>), <<inner(-i)>>),
   Case("x", <<[c |-> "y", body |-> <<Case("z", <<>>, <<Do(-i)>>)>>],
               [c |-> "x", body |-> <<Case("y", <<[c |-> "y", body |-> <<Do(i)>>]>>, <<>>),
                                      Do(j)>>]>>, <<Do(-j)>>),
   Repeat(4, <<inner(i)>>), Wait("f", Null), After(1, Null)>>

Lists(S(_)) ==
  LET n == Len(S(1))
      pair == [k \in 1 .. n * n |-> <<S(1)[((k - 1) \div n) + 1], S(2)[((k - 1) % n) + 1]>>]
  IN  [k \in 1 .. n |-> <<S(1)[k]>>] \o pair \o [k \in 1 .. n * n |-> Append(pair[k], Do(3))]

Written ==
  LET v == Lists(Shape)
      h == Lists(VShape)
  IN  [k \in DOMAIN v |-> Initial(v[k])] \o [k \in DOMAIN h |-> Vhdl(h[k])]
      \o <<Always(<<After(2, Do(1))>>), Always(<<After(1, Do(1)), Do(2)>>),
           Always(<<After(2, Repeat(2, <<Do(1)>>)), If(High, <<Do(2)>>, <<>>)>>)>>

\* A process that waits as well, and processes that drive what others wait for.
Other == Initial(<<At("e", Do(1)), After(1, Do(2))>>)
Drivers ==
  {Initial(<<After(1, Trigger("e")), After(1, Put("f", TRUE))>>),
    Initial(<<After(1, Put("f", TRUE)), Trigger("e"), After(2, Put("f", FALSE))>>),
   Initial(<<After(1, Put("f", TRUE)), After(0, Trigger("e"))>>)}

Ordinary == ToSet(SelectSeq(Written, Ordered))
DesignsOf(ps) ==
  {<<p>> : p \in {q \in ps : ~Waits(q)}}
  \cup {<<p, d>> : p \in {q \in ps : Waits(q)}, d \in Drivers}
  \cup {<<p, Other, d>> : p \in {q \in ps : Waits(q)}, d \in Drivers}
OrderedDesigns == DesignsOf(Ordinary)
=============================================================================
