------------------------------ MODULE Session ------------------------------
(***************************************************************************)
(* A client's session (session.c): units are compiled, elaborated into a   *)
(* simulation, which is stepped, driven, saved, restored and debugged, in  *)
(* any order of calls.  Every call is synchronous, so a step of the model  *)
(* is one call with all that the simulator does in it.                     *)
(*                                                                         *)
(* A unit is [name, needs, flat]: the modules it instantiates and what a   *)
(* simulation of it as a top module consists of, its instances included.   *)
(***************************************************************************)
EXTENDS Simulator

CONSTANTS
  Sources,     \* the units the client has the sources of
  Stimuli,     \* what the client sets, pairs of a signal and a value
  Forced,      \* what it forces, likewise
  Names,       \* names of checkpoints
  Durations,   \* of time steps
  MaxCalls     \* bound of the model: calls made

ASSUME SessionAssumption == Durations \subseteq Nat /\ MaxCalls \in Nat

VARIABLES
  units,   \* the compiled units, in the order of compilation
  elab,    \* the number of units of the last elaboration, 0 for none
  sim,     \* the simulation or NoSim
  saved,   \* the checkpoints
  breaks,  \* the session's breakpoints
  reply,   \* what the last call was, or what debug_run answered
  calls,   \* number of calls so far
  whole,   \* history: the simulation each checkpoint was taken of
  twin     \* history: that simulation, had it gone on as the restored one does

vars == <<units, elab, sim, saved, breaks, reply, calls, whole, twin>>

NoSim == [d |-> "none"]
Live == sim # NoSim

Call(name) == calls < MaxCalls /\ calls' = calls + 1 /\ reply' = name

-----------------------------------------------------------------------------
(* Compilation and elaboration.                                             *)

Bound(us) ==
  \A i \in DOMAIN us : us[i].needs \subseteq {us[j].name : j \in DOMAIN us}

\* The top modules are those no unit instantiates.
Tops(us) ==
  SelectSeq(us, LAMBDA u : \A i \in DOMAIN us : u.name \notin us[i].needs)

Flat(us) ==
  LET parts(f) == FoldLeft(LAMBDA l, u : l \o u.flat[f], <<>>, Tops(us))
  IN  [f \in {"index", "assigns", "gates", "procs", "wires"} |-> parts(f)]

\* uir_sim_create
Design(us) ==
  [group |-> [x \in Range(Flat(us).index) |->
                (CHOOSE u \in Range(us) : x \in DOMAIN u.flat.group).flat.group[x]],
   index |-> Flat(us).index, assigns |-> Flat(us).assigns, gates |-> Flat(us).gates,
   procs |-> Flat(us).procs, wires |-> Flat(us).wires]

\* add_unit after a successful parse; a unit is compiled once.
Compile(u) ==
  /\ Call("compile") /\ \A i \in DOMAIN units : units[i] # u
  /\ units' = Append(units, u)
  /\ UNCHANGED <<elab, sim, saved, breaks, whole, twin>>

\* Seeded fault: a failed elaboration leaves the old simulation.
ElaborateKeeping ==
  /\ Call("elaborate") /\ units # <<>>
  /\ elab' = Len(units)
  /\ sim' = IF Bound(units) THEN NewContext(Design(units)) ELSE sim
  /\ twin' = NoSim
  /\ UNCHANGED <<units, saved, breaks, whole>>

\* qsim_session_elaborate: the old simulation goes first, whatever the outcome.
Elaborate ==
  /\ Call("elaborate") /\ units # <<>>
  /\ elab' = Len(units)
  /\ sim' = IF Bound(units) THEN NewContext(Design(units)) ELSE NoSim
  /\ twin' = NoSim
  /\ UNCHANGED <<units, saved, breaks, whole>>

\* qsim_session_reset keeps checkpoints and breakpoints.
Reset ==
  /\ Call("reset")
  /\ units' = <<>> /\ elab' = 0 /\ sim' = NoSim /\ twin' = NoSim
  /\ UNCHANGED <<saved, breaks, whole>>

-----------------------------------------------------------------------------
(* Stepping and driving: the twin is treated alike.                         *)

Both(Operate(_)) ==
  /\ sim' = Operate(sim)
  /\ twin' = IF twin = NoSim THEN NoSim ELSE Operate(twin)

\* qsim_session_step_delta and qsim_session_step_time
Step(duration) ==
  /\ Live /\ Call("step")
  /\ Both(LAMBDA s : Run(s, duration))
  /\ UNCHANGED <<units, elab, saved, breaks, whole>>

\* qsim_session_set_str
Set(x, v) ==
  /\ Live /\ x \in Signals(sim.d) /\ Call("set")
  /\ Both(LAMBDA s : SetSignal(s, x, v))
  /\ UNCHANGED <<units, elab, saved, breaks, whole>>

\* qsim_session_force_str
Force(x, v) ==
  /\ Live /\ x \in Signals(sim.d) /\ Call("force")
  /\ Both(LAMBDA s : ForceSignal(s, x, v))
  /\ UNCHANGED <<units, elab, saved, breaks, whole>>

Release(x) ==
  /\ Live /\ x \in Signals(sim.d) /\ Call("force")
  /\ Both(LAMBDA s : ReleaseSignal(s, x))
  /\ UNCHANGED <<units, elab, saved, breaks, whole>>

-----------------------------------------------------------------------------
(* Checkpoints.                                                             *)

\* qsim_session_save_checkpoint replaces one of the same name.
Save(n) ==
  /\ Live /\ Call("save")
  /\ saved' = (n :> Saved(sim)) @@ saved
  /\ whole' = (n :> sim) @@ whole
  /\ UNCHANGED <<units, elab, sim, breaks, twin>>

\* qsim_session_restore_checkpoint: the units of the last elaboration are built
\* anew, even after a failed one; a checkpoint that does not fit leaves no
\* simulation, and one that fits is taken for one of theirs.
Restore(n) ==
  LET d == Design(SubSeq(units, 1, elab))
      fits == Len(d.index) = Len(saved[n].val)
  IN  /\ n \in DOMAIN saved /\ elab > 0 /\ Call("restore")
      /\ sim' = IF fits THEN [Restored(d, saved[n]) EXCEPT !.breaks = breaks] ELSE NoSim
      /\ twin' = IF fits /\ whole[n].d = d THEN whole[n] ELSE NoSim
      /\ UNCHANGED <<units, elab, saved, breaks, whole>>

-----------------------------------------------------------------------------
(* Breakpoints: the session keeps a list, and so does the simulation.       *)

AddBreak(l) ==
  /\ Call("break") /\ l \notin breaks
  /\ breaks' = breaks \cup {l}
  /\ sim' = IF Live THEN [sim EXCEPT !.breaks = @ \cup {l}] ELSE NoSim
  /\ UNCHANGED <<units, elab, saved, whole, twin>>

RemoveBreak(l) ==
  /\ Call("break") /\ l \in breaks
  /\ breaks' = breaks \ {l}
  /\ sim' = IF Live THEN [sim EXCEPT !.breaks = @ \ {l}] ELSE NoSim
  /\ UNCHANGED <<units, elab, saved, whole, twin>>

\* qsim_session_clear_breakpoints: the simulation's own list stays.
ClearBreaks ==
  /\ Call("break") /\ breaks # {}
  /\ breaks' = {}
  /\ sim' = IF Live THEN [sim EXCEPT !.hit = FALSE] ELSE NoSim
  /\ UNCHANGED <<units, elab, saved, whole, twin>>

RECURSIVE Debug(_), Advance(_), Stepped(_, _)

\* The loop of qsim_session_debug_run: a step of no duration, then one of one
\* time unit, until a breakpoint or until that step no longer moves the time.
Stepped(t, u) == IF u.now = t.now \/ u.hit THEN u ELSE Debug(u)
Advance(t) == Stepped(t, Run(t, 1))
Debug(s) == IF s.hit THEN s ELSE Advance(Run(s, 0))

\* What debug_run leaves and answers.
DebugEnds(s) ==
  /\ Call(IF s.hit THEN "hit" ELSE "complete")
  /\ sim' = s /\ twin' = NoSim

DebugRun ==
  /\ Live
  /\ DebugEnds(Debug([sim EXCEPT !.hit = FALSE, !.breaks = @ \cup breaks]))
  /\ UNCHANGED <<units, elab, saved, breaks, whole>>

-----------------------------------------------------------------------------
Init ==
  /\ units = <<>> /\ elab = 0 /\ sim = NoSim /\ saved = <<>> /\ breaks = {}
  /\ reply = "none" /\ calls = 0 /\ whole = <<>> /\ twin = NoSim

Next ==
  \/ \E u \in Sources : Compile(u)
  \/ Elaborate
  \/ Reset
  \/ \E n \in Durations : Step(n)
  \/ \E p \in Stimuli : Set(p[1], p[2])
  \/ \E p \in Forced : Force(p[1], p[2])
  \/ \E p \in Forced : Release(p[1])
  \/ \E n \in Names : Save(n)
  \/ \E n \in Names : Restore(n)
  \/ \E l \in {1} : AddBreak(l)
  \/ \E l \in {1} : RemoveBreak(l)
  \/ ClearBreaks
  \/ DebugRun

Spec == Init /\ [][Next]_vars

-----------------------------------------------------------------------------
(* Properties.                                                              *)

\* What a session holds fits together: its simulation is of exactly the units
\* of the last elaboration, never of an earlier one, and every checkpoint has
\* its history.
TypeOK ==
  /\ \A i \in DOMAIN units : units[i] \in Sources
  /\ elab \in 0 .. Len(units)
  /\ Live => /\ elab > 0 /\ sim.d = Design(SubSeq(units, 1, elab))
             /\ sim.val \in [Signals(sim.d) -> FourStates]
             /\ sim.now \in Nat /\ sim.delta \in Nat
             /\ sim.needs \subseteq Signals(sim.d)
  /\ DOMAIN saved = DOMAIN whole /\ DOMAIN saved \subseteq Names
  /\ breaks \subseteq {1} /\ calls \in 0 .. MaxCalls

Drivers(s, x) == {i \in DOMAIN s.d.assigns : s.d.assigns[i].lhs = x}

\* What the drivers of a net make of it by the definition of the net, in no order.
NetOf(group, driven) ==
  LET strong == driven \ {"Z"}
  IN  CASE strong = {} -> IF group = "tri0" THEN "0" ELSE IF group = "tri1" THEN "1" ELSE "Z"
        [] Cardinality(strong) = 1 -> CHOOSE v \in strong : TRUE
        [] group = "wand" /\ "0" \in strong -> "0"
        [] group = "wor" /\ "1" \in strong -> "1"
        [] OTHER -> "X"

\* Every combinational element of s agrees with its inputs.
Consistent(s) ==
  /\ \A i \in DOMAIN s.d.assigns :
       LET a == s.d.assigns[i]
       IN  s.d.group[a.lhs] = "wire" =>
             \/ s.val[a.lhs] = Value(s, a)
             \/ a.delay > 0 /\ \E j \in DOMAIN s.queue : s.queue[j].sig = a.lhs
  /\ \A i \in DOMAIN s.d.gates : s.val[s.d.gates[i].lhs] = Value(s, s.d.gates[i])
  /\ \A i \in DOMAIN s.d.wires : s.val[s.d.wires[i].src] = s.val[s.d.wires[i].dst]
  /\ \A x \in Signals(s.d) \ s.needs :
       Drivers(s, x) # {} /\ s.d.group[x] # "wire" =>
         s.val[x] = NetOf(s.d.group[x], {Value(s, s.d.assigns[i]) : i \in Drivers(s, x)})

\* When a step returns, the combinational part of the design has settled: every
\* assignment, primitive, net and port agrees with what it is computed from,
\* whatever was set, forced, released or restored before.
Settled == Live /\ reply = "step" => Consistent(sim)

\* The registers among the signals, and what their processes load x with.
Loads(s) == UNION {Range(b.do) : b \in UNION {Range(s.d.procs[p].body) : p \in DOMAIN s.d.procs}}
Registers(s) == {a.lhs : a \in {b \in Loads(s) : b.nba}}
Loaded(s, x) ==
  NetOf(s.d.group[x], {Value(s, a) : a \in {b \in Loads(s) : b.lhs = x}})

OnlyClock(s) == s.inited /\ Consistent(s) /\ \A i \in DOMAIN s.queue : s.queue[i].sig = "clk"

\* Race freedom of a clock cycle: in a step in which only the clock changes,
\* however it reaches a register, the register loads what its input was before
\* the edge; without a rising edge it keeps its value.
Cycle ==
  [][(Live /\ reply' = "step" /\ "clk" \in Signals(sim.d) /\ OnlyClock(sim)) =>
       \A x \in {y \in Registers(sim) : sim.d.group[y] = "wire"} :
         sim'.val[x] = IF sim.val["clk"] # "1" /\ sim'.val["clk"] = "1"
                       THEN Loaded(sim, x) ELSE sim.val[x]]_vars

View(s) ==
  <<s.val, s.now, s.delta, [i \in DOMAIN s.queue |-> <<s.queue[i].sig, s.queue[i].val>>]>>

\* A restored simulation cannot be told from the one that was saved: both go
\* through the same values and times under the same calls.
RestoredAgrees == twin # NoSim => View(sim) = View(twin)

\* The last value the client was told of a signal computed by an assignment or
\* a body is its value: no change goes unreported (event_cb).
ReportsCurrent ==
  Live => \A i \in DOMAIN sim.d.assigns \cup DOMAIN sim.d.procs :
            \A x \in DOMAIN sim.told :
              (/\ \A p \in Stimuli : p[1] # x
               /\ sim.d.group[x] \in {"wire", "std"}
               /\ \A g \in Range(sim.d.gates) : g.lhs # x
               /\ \A w \in Range(sim.d.wires) : w.dst # x \/ w.dir = "out")
              => sim.told[x] = sim.val[x]
=============================================================================
