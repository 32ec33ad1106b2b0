----------------------------- MODULE Simulator -----------------------------
(***************************************************************************)
(* The simulation context of uir_sim.c with one thread, as a record, and   *)
(* its operations as operators on that record: the propagation of a change *)
(* through continuous assignments, primitives, processes and port wires,   *)
(* the batches of uir_sim_run, force and set, save and restore.            *)
(*                                                                         *)
(* A design is a record of what uir_sim_create collects:                   *)
(*   group    signal -> net group                                          *)
(*   index    the signals in the order of the signal table                 *)
(*   assigns  [lhs, op, in, vhdl, delay], delay 0 for none                 *)
(*   gates    combinational primitives [lhs, op, in]                       *)
(*   procs    [on, body]: on is a sequence of [sig, edge], empty for an    *)
(*            initial block; body a sequence of branches [cond, do], the   *)
(*            first that holds is executed                                 *)
(*   wires    port connections [src, dst, dir]                             *)
(* Bodies do not suspend (Statements has those) and signals are one bit.   *)
(***************************************************************************)
EXTENDS Nets, Integers, FiniteSets, TLC

CONSTANTS
  CascadeMax,   \* depth at which a cascade is given up: 16
  SettleMax,    \* rounds of port wire settling, one less are made: 16
  MaxDeltas     \* max_deltas_per_time

ASSUME SimulatorAssumption == CascadeMax \in Nat /\ SettleMax \in Nat /\ MaxDeltas \in Nat

Direct == 0     \* the source of a write that is no numbered driver: pid -1

Signals(d) == DOMAIN d.group

\* uir_sim_create; the callbacks are installed by the caller.
NewContext(d) ==
  LET initial == [x \in Signals(d) |-> InitialOf(d.group[x])]
  IN  [d |-> d, val |-> initial, prev |-> initial,
       slots |-> [x \in Signals(d) |-> <<>>],  \* driver slots [by, val]
       needs |-> {},          \* needs_resolve
       queue |-> <<>>, now |-> 0, delta |-> 0,
       inited |-> FALSE, stop |-> FALSE,
       lines |-> {},          \* coverage: the processes whose body ran
       breaks |-> {}, hit |-> FALSE,
       told |-> <<>>]         \* history: the last value reported of a signal

\* event_cb
Report(s, x) == [s EXCEPT !.told = (x :> s.val[x]) @@ @]

-----------------------------------------------------------------------------
(* Expressions and writes.                                                  *)

Op(op, args) ==
  CASE op = "buf" -> args[1]
    [] op = "off" -> "Z"
    [] op = "not" -> CASE args[1] = "0" -> "1" [] args[1] = "1" -> "0" [] OTHER -> "X"
    [] op = "and" -> IF "0" \in Range(args) THEN "0"
                     ELSE IF Range(args) = {"1"} THEN "1" ELSE "X"
    [] op = "tri" -> CASE args[1] = "1" -> args[2] [] args[1] = "0" -> "Z" [] OTHER -> "X"

Value(s, e) == Op(e.op, [i \in DOMAIN e.in |-> s.val[e.in[i]]])

\* The slot of a driver, or a new one behind the others (at most eight: a
\* design here has no more drivers to a net).
Slot(slots, by, v) ==
  IF \E i \in DOMAIN slots : slots[i].by = by
  THEN [i \in DOMAIN slots |-> IF slots[i].by = by THEN [by |-> by, val |-> v] ELSE slots[i]]
  ELSE Append(slots, [by |-> by, val |-> v])

Overwrite(s, x, v) == [s EXCEPT !.val[x] = v, !.prev[x] = s.val[x]]

\* signal_write_resolved: a numbered driver of a net only fills its slot.
WriteSignal(s, x, v, by) ==
  LET g == s.d.group[x]
  IN  IF g \in {"supply0", "supply1"} THEN s
      ELSE IF by # Direct /\ g # "wire"
           THEN [s EXCEPT !.slots[x] = Slot(s.slots[x], by, v), !.needs = @ \cup {x}]
      ELSE IF g = "std" /\ s.val[x] = v THEN s
      ELSE Overwrite(s, x, v)

-----------------------------------------------------------------------------
(* The event queue: signal updates only.                                    *)

NotAfter(e, f) ==
  e.time < f.time \/ (e.time = f.time /\ e.delta <= f.delta)

\* schedule_event
Insert(s, e) ==
  LET same == {i \in DOMAIN s.queue : s.queue[i] = [e EXCEPT !.val = s.queue[i].val]}
      at   == SelectLastInSeq(s.queue, LAMBDA f : NotAfter(f, e))
  IN  IF e.nba /\ e.by # Direct /\ same # {}
      THEN [s EXCEPT !.queue = [i \in DOMAIN s.queue |-> IF i \in same THEN e ELSE s.queue[i]]]
      ELSE [s EXCEPT !.queue = InsertAt(@, at + 1, e)]

Event(t, dl, x, v, nba, by) ==
  [time |-> t, delta |-> dl, sig |-> x, val |-> v, nba |-> nba, by |-> by]

InsertNow(s, x, v) == Insert(s, Event(s.now, s.delta, x, v, FALSE, Direct))

\* Seeded fault: a nonblocking assignment is due in the current delta.
NonblockingNow(s, p, x, v) == Insert(s, Event(s.now, s.delta, x, v, TRUE, p))

Nonblocking(s, p, x, v) == Insert(s, Event(s.now, s.delta + 1, x, v, TRUE, p))

\* The update of a delayed assignment, which filters the narrower pulses.
Delayed(s, x, v, n) ==
  Insert([s EXCEPT !.queue = SelectSeq(@, LAMBDA e : e.sig # x \/ e.time >= s.now + n)],
         Event(s.now + n, 0, x, v, FALSE, Direct))

-----------------------------------------------------------------------------
(* Process bodies (exec_assign and the branches around it).                 *)

Holds(s, c) ==
  CASE c.k = "always" -> TRUE
    [] c.k = "high"   -> s.val[c.sig] = "1"
    [] c.k = "rising" -> s.prev[c.sig] = "0" /\ s.val[c.sig] = "1"

\* A blocking assignment writes at once and leaves prev_value alone.
Assign(s, p, a) ==
  LET v == Value(s, a)
  IN  IF a.nba THEN Nonblocking(s, p, a.lhs, v)
      ELSE Report([s EXCEPT !.val[a.lhs] = v], a.lhs)

\* The body of process p; its statements are on one line, numbered p.
RunBody(s, p) ==
  LET body == s.d.procs[p].body
      b == SelectInSeq(body, LAMBDA x : Holds(s, x.cond))
      t == [s EXCEPT !.lines = @ \cup {p}, !.hit = @ \/ p \in s.breaks]
  IN  IF b = 0 THEN t
      ELSE FoldLeft(LAMBDA u, a : Assign(u, p, a), t, body[b].do)

EdgeMatch(edge, old, new) ==
  CASE edge = "pos" -> new = "1" /\ old # "1"
    [] edge = "neg" -> new = "0" /\ old # "0"
    [] OTHER -> old # new

Sensitive(s, p, x, old) ==
  \E i \in DOMAIN s.d.procs[p].on :
    LET o == s.d.procs[p].on[i]
    IN  o.sig = x /\ EdgeMatch(o.edge, old, s.val[x])

-----------------------------------------------------------------------------
(* check_and_trigger_impl: what follows from a change of x, which was old.  *)

RECURSIVE Trigger(_, _, _, _, _)

\* Seeded fault: what follows from a change is done, but it is not reported.
DriveSilently(s, i, x, depth, full) ==
  LET a == s.d.assigns[i]
      w == WriteSignal(s, a.lhs, Value(s, a), IF a.vhdl THEN Direct ELSE i)
  IN  IF a.lhs = x \/ w.val[a.lhs] = s.val[a.lhs] THEN w
      ELSE Trigger(w, a.lhs, s.val[a.lhs], depth, full)

\* Continuous assignment i, re-evaluated because of x.  Only a signal the
\* assignment changed, and not x itself, is followed further.
Drive(s, i, x, depth, full) ==
  LET a == s.d.assigns[i]
      v == Value(s, a)
      w == WriteSignal(s, a.lhs, v, IF a.vhdl THEN Direct ELSE i)
  IN  IF a.delay > 0 THEN Delayed(s, a.lhs, v, a.delay)
      ELSE IF w.val[a.lhs] = s.val[a.lhs] THEN w
      ELSE IF a.lhs = x THEN Report(w, a.lhs)
      ELSE Trigger(Report(w, a.lhs), a.lhs, s.val[a.lhs], depth, full)

\* evaluate_combinational_udp: a change is followed, but not reported.
Gate(s, g) ==
  LET v == Value(s, g)
      w == WriteSignal(s, g.lhs, v, Direct)
  IN  IF w.val[g.lhs] = s.val[g.lhs] THEN w
      ELSE Trigger(w, g.lhs, s.val[g.lhs], 0, TRUE)

\* Those of a sequence of elements that read x.
Readers(es, x) == SelectSeq([i \in DOMAIN es |-> i], LAMBDA i : x \in Range(es[i].in))

\* propagate_port_wires
Forward(s, x) ==
  FoldLeft(LAMBDA t, w : IF w.src = x /\ t.val[x] # t.val[w.dst]
                         THEN InsertNow(t, w.dst, t.val[x]) ELSE t,
           s, s.d.wires)

\* The bodies sensitive to the change.  Alone they are a seeded fault: what a
\* body assigned at once stays inside its module.
BodiesOnly(s, x, old) ==
  FoldLeft(LAMBDA t, p : IF Sensitive(t, p, x, old) THEN RunBody(t, p) ELSE t,
           s, [p \in DOMAIN s.d.procs |-> p])

\* Phase 2: the bodies; then the port wires of the other signals they assigned
\* at once.
Bodies(s, x, old) ==
  LET t == BodiesOnly(s, x, old)
  IN  FoldLeft(LAMBDA u, w : IF w.src # x /\ u.val[w.src] # s.val[w.src]
                             THEN InsertNow(u, w.dst, u.val[w.src]) ELSE u,
               t, s.d.wires)

\* Phase 1: the continuous assignments that read x, and the primitives.
DriveAll(s, x, depth, full) ==
  FoldLeft(LAMBDA t, i : Drive(t, i, x, depth + 1, full), s, Readers(s.d.assigns, x))
GateAll(s, x) == FoldLeft(LAMBDA t, i : Gate(t, t.d.gates[i]), s, Readers(s.d.gates, x))

\* The bodies run only in a full propagation; the port wires are always last.
Follow(s, x, old, full) == Forward(IF full THEN Bodies(s, x, old) ELSE s, x)

Trigger(s, x, old, depth, full) ==
  IF depth > CascadeMax THEN s
  ELSE Follow(GateAll(DriveAll(s, x, depth, full), x), x, old, full)

-----------------------------------------------------------------------------
(* The batches of uir_sim_run.                                              *)

\* A list of changes [sig, old] is triggered one after the other.
TriggerAll(s, changes) ==
  FoldLeft(LAMBDA t, c : Trigger(t, c.sig, c.old, 0, TRUE), s, changes)

Change(s, x) == [sig |-> x, old |-> s.val[x]]

AtKey(s) == s.queue # <<>> /\ Head(s.queue).time = s.now /\ Head(s.queue).delta = s.delta

Pop(s) == [s EXCEPT !.queue = Tail(@)]

\* Applying: the batch under way is [s, changes, seen]; seen holds the changed
\* std_logic signals with their values before the batch.
RECURSIVE ApplyEvents(_), SettleWires(_, _), ResolveNets(_), RunLoop(_, _, _, _)

Apply(b, e) ==
  LET s == Pop(b.s)
      w == WriteSignal(s, e.sig, e.val, Direct)
      std == s.d.group[e.sig] = "std"
      seen == \E i \in DOMAIN b.seen : b.seen[i].sig = e.sig
  IN  IF std /\ seen
      THEN [b EXCEPT !.s = [s EXCEPT !.val[e.sig] = StdLogic(StdLogic("Z", @), e.val)]]
      ELSE IF w.val[e.sig] = s.val[e.sig] THEN [b EXCEPT !.s = w]
      ELSE IF std
           THEN [b EXCEPT !.s = Report(w, e.sig), !.seen = Append(@, Change(s, e.sig))]
      ELSE [b EXCEPT !.s = Report(w, e.sig), !.changes = Append(@, Change(s, e.sig))]

\* Phase 1, and the check of the std_logic signals after it.
ApplyEvents(b) ==
  LET known == SelectSeq(b.s.d.index, LAMBDA x :
                 \E i \in DOMAIN b.seen : b.seen[i].sig = x /\ b.seen[i].old # b.s.val[x])
      was(x) == b.seen[SelectInSeq(b.seen, LAMBDA c : c.sig = x)].old
  IN  IF AtKey(b.s) THEN ApplyEvents(Apply(b, Head(b.s.queue)))
      ELSE [b EXCEPT !.s = FoldLeft(Report, @, known),
                     !.changes = @ \o [i \in DOMAIN known |->
                                         [sig |-> known[i], old |-> was(known[i])]]]

\* Events of the key, written without a report.
RECURSIVE Carry(_)
Carry(b) ==
  LET s == Pop(b.s)
      e == Head(b.s.queue)
      w == WriteSignal(s, e.sig, e.val, Direct)
  IN  IF ~AtKey(b.s) THEN b
      ELSE Carry(IF w.val[e.sig] = s.val[e.sig] THEN [b EXCEPT !.s = w]
                 ELSE [b EXCEPT !.s = w, !.changes = Append(@, Change(s, e.sig))])

\* One level of the hierarchy.
CarryDown(b) ==
  Carry([b EXCEPT !.s = FoldLeft(LAMBDA t, w : IF w.dir = "out" \/ t.val[w.src] = t.val[w.dst]
                                               THEN t ELSE InsertNow(t, w.dst, t.val[w.src]),
                                 b.s, b.s.d.wires)])

\* Phase 1.5: the input port wires carry the changes down, level by level.
SettleWires(b, rounds) ==
  LET c == CarryDown(b)
  IN  IF rounds <= 1 THEN b
      ELSE IF Len(c.changes) = Len(b.changes) THEN c ELSE SettleWires(c, rounds - 1)

\* Phase 2.5: resolve_net_types until nothing changes; nothing is reported.
ResolveNets(s) ==
  LET due == SelectSeq(s.d.index, LAMBDA x : x \in s.needs)
      new(x) == Resolve(s.d.group[x], [i \in DOMAIN s.slots[x] |-> s.slots[x][i].val], s.val[x])
      t == [s EXCEPT !.needs = {},
                     !.val = FoldLeft(LAMBDA v, x : [v EXCEPT ![x] = new(x)], s.val, due)]
      changed == SelectSeq(due, LAMBDA x : t.val[x] # s.val[x])
  IN  IF changed = <<>> THEN t
      ELSE ResolveNets(TriggerAll(t, [i \in DOMAIN changed |-> Change(s, changed[i])]))

\* Phases 2 and 2.5.
Propagated(b) == ResolveNets(TriggerAll(b.s, b.changes))
Batch(s) ==
  Propagated(SettleWires(ApplyEvents([s |-> s, changes |-> <<>>, seen |-> <<>>]), SettleMax))

\* n batches have been run at the current time.
RunLoop(s, until, at, n) ==
  LET h == Head(s.queue)
      m == IF h.time = at THEN n + 1 ELSE 1
  IN  IF s.queue = <<>> \/ s.stop THEN s
      ELSE IF h.time > until THEN s
      ELSE IF m > MaxDeltas THEN [s EXCEPT !.stop = TRUE]
      ELSE RunLoop(Batch([s EXCEPT !.now = h.time, !.delta = h.delta]),
                   until, h.time, m)

\* The first part of initial_eval, once: every body runs, whatever it waits for,
\* and then what changed is triggered, signal by signal.
FirstEval(s) ==
  FoldLeft(LAMBDA u, x : IF u.val[x] = s.val[x] THEN u ELSE Trigger(u, x, s.val[x], 0, TRUE),
           FoldLeft(RunBody, [s EXCEPT !.inited = TRUE], [p \in DOMAIN s.d.procs |-> p]),
           s.d.index)

\* The second part, in every run: all continuous assignments and primitives.
EvalAll(s) ==
  FoldLeft(Gate,
           FoldLeft(LAMBDA u, i : Drive(u, i, "", 0, TRUE), s, [i \in DOMAIN s.d.assigns |-> i]),
           s.d.gates)

\* uir_sim_run; a new delta is begun for what the client does next.
Run(s, duration) ==
  [RunLoop(EvalAll(IF s.inited THEN s ELSE FirstEval(s)), s.now + duration, -1, 0)
     EXCEPT !.delta = @ + 1]

-----------------------------------------------------------------------------
(* The client's operations on the context.                                  *)

\* uir_sim_set_signal
SetSignal(s, x, v) ==
  InsertNow(IF s.inited THEN s ELSE Trigger([s EXCEPT !.val[x] = v], x, s.val[x], 0, FALSE),
            x, v)

\* uir_sim_force_signal
ForceSignal(s, x, v) ==
  Trigger(Report([s EXCEPT !.val[x] = v, !.prev[x] = s.val[x]], x), x, s.val[x], 0, TRUE)

\* uir_sim_release_signal
ReleaseSignal(s, x) ==
  Trigger(Report([s EXCEPT !.val[x] = "X"], x), x, s.val[x], 0, TRUE)

Position(d, x) == SelectInSeq(d.index, LAMBDA y : y = x)

\* uir_sim_save: what a checkpoint holds.  Signals go by their place in the table.
Saved(s) ==
  [val |-> [i \in DOMAIN s.d.index |-> s.val[s.d.index[i]]],
   now |-> s.now, delta |-> s.delta, inited |-> s.inited,
   queue |-> [i \in DOMAIN s.queue |->
                [s.queue[i] EXCEPT !.sig = Position(s.d, @), !.by = 1]],
   lines |-> s.lines, hit |-> s.hit]

\* Seeded fault: the restored simulation runs its processes anew.
RestoredAnew(d, k) ==
  [NewContext(d) EXCEPT
     !.val = [x \in Signals(d) |-> k.val[Position(d, x)]],
     !.now = k.now, !.delta = k.delta, !.lines = k.lines, !.hit = k.hit,
     !.queue = [i \in DOMAIN k.queue |-> [k.queue[i] EXCEPT !.sig = d.index[@]]]]

\* uir_sim_restore: a new context, filled.  Every event is process 0's, here 1's.
Restored(d, k) ==
  [NewContext(d) EXCEPT
     !.val = [x \in Signals(d) |-> k.val[Position(d, x)]],
     !.now = k.now, !.delta = k.delta, !.inited = k.inited,
     !.lines = k.lines, !.hit = k.hit,
     !.queue = [i \in DOMAIN k.queue |-> [k.queue[i] EXCEPT !.sig = d.index[@]]]]
=============================================================================
