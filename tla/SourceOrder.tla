---------------------------- MODULE SourceOrder ----------------------------
(***************************************************************************)
(* What the two hardware languages promise about the order of statements:  *)
(* the reference against which Lowering and Statements are checked.        *)
(*                                                                         *)
(* A process is a list of statements.  Data is abstract: an assignment is  *)
(* the label it leaves in the trace, a condition is a one-bit signal or    *)
(* the literal High or Low.  The meaning of a list is the list of acts a   *)
(* process performs: labels and the suspensions between them.              *)
(***************************************************************************)
EXTENDS Integers, SequencesExt

CONSTANTS
  Budget,    \* LOOP_SYNC_BUDGET: back jumps a loop takes before it yields
  IfNest,    \* nested ifs whose state the front ends can save
  StackMax,  \* nested statement blocks the front ends can keep open
  Unroll     \* bound of the model: iterations of an endless loop looked at

ASSUME SourceAssumption ==
  Budget \in Nat /\ IfNest \in Nat /\ StackMax \in Nat \ {0} /\ Unroll \in Nat

None == "none"
High == "1"
Low  == "0"
Endless == -1

\* The statements.
Do(l)          == [op |-> "assign", lab |-> l]
Put(f, v)      == [op |-> "put", sig |-> f, v |-> v]
Trigger(f)     == [op |-> "trigger", sig |-> f]
Null           == [op |-> "null"]
After(n, b)    == [op |-> "delay", n |-> n, body |-> <<b>>]
At(f, b)       == [op |-> "at", sig |-> f, body |-> <<b>>]
Wait(f, b)     == [op |-> "wait", sig |-> f, body |-> <<b>>]
Begin(b)       == [op |-> "begin", body |-> b]
Named(nm, b)   == [op |-> "named", name |-> nm, body |-> b]
Disable(nm)    == [op |-> "disable", name |-> nm]
Repeat(n, b)   == [op |-> "loop", n |-> n, body |-> b]
Call(nm, b)    == [op |-> "call", name |-> nm, body |-> b]
If(c, b, e)    == [op |-> "if", arms |-> <<[c |-> c, body |-> b]>>, other |-> e]
Elsif(as, e)   == [op |-> "if", arms |-> as, other |-> e]
Case(v, as, e) == [op |-> "case", pick |-> v, arms |-> as, other |-> e]

Bodies(s) ==
  CASE s.op \in {"delay", "at", "wait", "begin", "named", "loop", "call"} -> {s.body}
    [] s.op \in {"if", "case"} -> {a.body : a \in ToSet(s.arms)} \cup {s.other}
    [] OTHER -> {}

RECURSIVE Inside(_), Deepest(_, _)
\* The statements under a list, its own included; how deep statements of the
\* kinds ops nest.
Inside(l) ==
  ToSet(l) \cup UNION {UNION {Inside(b) : b \in Bodies(s)} : s \in ToSet(l)}
Deepest(l, ops) ==
  Max({0} \cup {(IF s.op \in ops THEN 1 ELSE 0)
                + Max({0} \cup {Deepest(b, ops) : b \in Bodies(s)}) : s \in ToSet(l)})

-----------------------------------------------------------------------------
(* The meaning of a list: its acts, and the block whose disable ended it.   *)

Act(k, x) == [k |-> k, x |-> x]

RECURSIVE Meaning(_), Meanings(_), Times(_, _)
Meanings(l) ==
  IF l = <<>> THEN [acts |-> <<>>, out |-> None]
  ELSE LET m == Meaning(Head(l))
           r == Meanings(Tail(l))
       IN  IF m.out # None THEN m ELSE [acts |-> m.acts \o r.acts, out |-> r.out]
Times(n, l) == IF n = 0 THEN <<>> ELSE l \o Times(n - 1, l)
Meaning(s) ==
  CASE s.op = "assign" -> [acts |-> <<Act("do", s.lab)>>, out |-> None]
    [] s.op = "delay" -> LET m == Meanings(s.body)
                         IN  [m EXCEPT !.acts = <<Act("delay", s.n)>> \o @]
    [] s.op \in {"at", "wait"} -> LET m == Meanings(s.body)
                                  IN  [m EXCEPT !.acts = <<Act(s.op, s.sig)>> \o @]
    [] s.op = "begin" -> Meanings(s.body)
    [] s.op \in {"named", "call"} ->
         LET m == Meanings(s.body)
         IN  [m EXCEPT !.out = IF @ = s.name THEN None ELSE @]
    [] s.op = "disable" -> [acts |-> <<>>, out |-> s.name]
    [] s.op = "loop" -> Meanings(Times(IF s.n = Endless THEN Unroll ELSE s.n, s.body))
    [] s.op = "if" -> LET j == SelectInSeq(s.arms, LAMBDA a : a.c = High)
                      IN  Meanings(IF j = 0 THEN s.other ELSE s.arms[j].body)
    [] s.op = "case" -> LET j == SelectInSeq(s.arms, LAMBDA a : a.c = s.pick)
                        IN  Meanings(IF j = 0 THEN s.other ELSE s.arms[j].body)
    [] OTHER -> [acts |-> <<>>, out |-> None]

\* What a process does: an always block is an endless loop.
Acts(p) ==
  Meanings(IF p.kind = "always" THEN <<Repeat(Endless, p.body)>> ELSE p.body).acts

Labels(p) == LET d == SelectSeq(Acts(p), LAMBDA a : a.k = "do")
             IN  [i \in DOMAIN d |-> d[i].x]

Waits(p) == \E s \in Inside(p.body) : s.op \in {"at", "wait"}

RECURSIVE Timed(_, _)
\* The labels of an act list with their times, for a process that only delays.
Timed(as, t) ==
  IF as = <<>> THEN <<>>
  ELSE IF Head(as).k = "delay" THEN Timed(Tail(as), t + Head(as).x)
  ELSE <<<<Head(as).x, t>>>> \o Timed(Tail(as), t)

-----------------------------------------------------------------------------
(* The processes that the product is expected to run in source order.  All  *)
(* other forms are read or executed differently; the README lists them.     *)

Timing == {"delay", "at", "wait"}

\* A loop that yields has its remaining iterations after what follows it.
Suspends(s) ==
  \E t \in Inside(<<s>>) :
    t.op \in Timing \/ (t.op = "loop" /\ t.n - 1 > Budget)

RECURSIVE Splice(_), Exits(_)
\* Unnamed blocks are read into the block around them, empty statements to nothing.
Splice(l) ==
  FlattenSeq([i \in DOMAIN l |-> CASE l[i].op = "begin" -> Splice(l[i].body)
                                   [] l[i].op = "null" -> <<>>
                                   [] OTHER -> <<l[i]>>])
\* The blocks a list disables from outside.
Exits(l) ==
  UNION {IF s.op = "disable" THEN {s.name}
         ELSE UNION {Exits(b) : b \in Bodies(s)} \ (IF s.op = "named" THEN {s.name} ELSE {})
         : s \in ToSet(l)}

Flat(l) == LET m == Splice(l) IN \A i \in DOMAIN m : i < Len(m) => ~Suspends(m[i])

RECURSIVE Orderly(_, _), InOrder(_)
\* A list whose suspending members are timing controls, of one statement each
\* and none inside another of its kind; the last member may be anything if
\* nothing follows the list.
Orderly(list, last) ==
  LET l == Splice(list) IN
  \A i \in DOMAIN l :
    /\ InOrder(l[i])
    /\ l[i].op \in Timing =>
         LET b == Splice(l[i].body) IN
         /\ Len(b) = 1 \/ (b = <<>> /\ l[i].op = "delay" /\ i = 1)
         /\ \A t \in Inside(b) : t.op # l[i].op
         /\ Orderly(b, last /\ i = Len(l))
    /\ Suspends(l[i]) => l[i].op \in Timing \/ (last /\ i = Len(l))
InOrder(s) ==
  CASE s.op = "if" -> \A b \in Bodies(s) : Orderly(b, TRUE)
    [] s.op = "case" -> \A b \in Bodies(s) : Orderly(b, TRUE) /\ Flat(b)
    [] s.op = "call" -> Orderly(s.body, TRUE) /\ Flat(s.body)
    [] s.op = "named" -> /\ Orderly(s.body, TRUE)
                         /\ \A t \in Inside(s.body) : t.op = "disable" => ~Suspends(s)
    [] s.op = "loop" -> Orderly(s.body, FALSE)
    [] OTHER -> TRUE

\* A process that arrives at @(e) in the scan that woke it by e is woken again.
OneWake(l) ==
  /\ \A s \in Inside(l) : s.op = "loop" => \A t \in Inside(s.body) : t.op # "at"
  /\ \A s \in Inside(l), t \in Inside(l) :
       s.op = "at" /\ t.op = "at" /\ s.sig = t.sig => s = t

\* Constructs the readers keep one global for: the inner one undoes the outer.
Once(l) ==
  /\ \A op \in {"loop", "named", "case"} : Deepest(l, {op}) <= 1
  /\ Deepest(l, {"if"}) <= IfNest
  /\ Deepest(l, {"if", "case", "loop", "named"}) < StackMax

VerilogOrdered(p) ==
  /\ Once(p.body) /\ OneWake(p.body) /\ Exits(p.body) = {}
  /\ IF p.kind = "always"
     THEN LET l == Splice(p.body) IN
          /\ Orderly(l, FALSE) /\ l # <<>> /\ l[1].op = "delay"
          /\ {t.op : t \in Inside(Tail(l) \o l[1].body)} \cap Timing = {}
     ELSE Orderly(p.body, TRUE)

RECURSIVE Trailing(_)
\* In VHDL a wait suspends nothing: only what ends a process may contain one.
Trailing(l) == Flat(l) /\ \A s \in ToSet(l) : \A b \in Bodies(s) :
                            Trailing(b) /\ (s.op = "loop" => Flat(Append(b, Null)))

VhdlOrdered(p) ==
  /\ Deepest(p.body, {"loop"}) <= 1 /\ Deepest(p.body, {"if"}) <= IfNest
  /\ Deepest(p.body, {"if", "case", "loop"}) < StackMax
  /\ Trailing(p.body)

Ordered(p) == IF p.lang = "vhdl" THEN VhdlOrdered(p) ELSE VerilogOrdered(p)
=============================================================================
