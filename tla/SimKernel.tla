----------------------------- MODULE SimKernel -----------------------------
(***************************************************************************)
(* The event kernel of the product simulator (libqsim/src/uir_sim.c): the  *)
(* pending-event queue and the serial loop of uir_sim_run, over every flat *)
(* design.                                                                 *)
(*                                                                         *)
(* What a design does is abstract: while a body may run (initial_eval, a   *)
(* delayed statement, the processes and waiters of a changed signal) any   *)
(* of the statement kinds in Effects may execute, with any operands, in    *)
(* any order and number.  What the kernel does with them is exact: which   *)
(* (time, delta) key each one is queued under, what it replaces or         *)
(* removes, and when the loop takes it off the queue.                      *)
(*                                                                         *)
(* The queue is a linked list kept sorted by (time, delta) and FIFO among  *)
(* equals.  Here it is a set of events, each with the number ord of its    *)
(* insertion: the list order is Before.                                    *)
(***************************************************************************)
EXTENDS Integers, FiniteSets

CONSTANTS
  Signals,     \* the signals of the flattened design
  Parts,       \* the bit ranges a signal is divided into
  Values,      \* what a bit range can hold
  Ranges,      \* the sets of parts a write may name; Parts is a whole write
  Procs,       \* processes, the values of tls_pid
  None,        \* no process (tls_pid = -1), no signal
  Effects,     \* the statement kinds the design uses
  Api,         \* the calls the client makes between runs besides run itself
  StmtDelays,  \* delays of #n statements
  WireDelays,  \* delays of delayed assigns and of path delays
  Durations,   \* durations the client asks uir_sim_run for
  MaxDeltas,   \* max_deltas_per_time
  RecordUntil  \* last time at which a delayed statement is recorded

CONSTANTS      \* bounds of the model, not of the code
  Horizon,     \* no event is queued for a later time
  MaxPending,  \* no more events are queued at once
  MaxStamp,    \* insertion numbers
  DeltaCap     \* no NBA is queued for, and no run starts at, a larger delta

StatementKinds ==
  {"blocking", "nonblocking", "delayed", "direct", "wire", "net", "transport",
   "inertial", "stop", "finish"}

\* What the wiring of a design does by itself, without a process.
WireKinds == {"direct", "transport", "inertial"}

ASSUME KernelAssumption ==
  /\ Parts # {} /\ Parts \in Ranges /\ Ranges \subseteq SUBSET Parts
  /\ None \notin Signals \cup Procs
  /\ Effects \subseteq StatementKinds
  /\ Api \subseteq {"set", "continue"}
  /\ StmtDelays \subseteq Nat /\ WireDelays \subseteq Nat /\ Durations \subseteq Nat
  /\ MaxDeltas \in Nat /\ RecordUntil \in Nat
  /\ Horizon \in Nat /\ MaxPending \in Nat /\ MaxStamp \in Nat /\ DeltaCap \in Nat

VARIABLES
  now,       \* current_time
  delta,     \* current_delta
  pending,   \* the event queue
  val,       \* the value of every signal
  stopped,   \* stop_requested
  finished,  \* finish_requested
  inited,    \* initial_eval_done
  pc,        \* where uir_sim_run is; "idle" when it is not running
  endTime,   \* end_time of the run
  lastTime,  \* last_delta_time, -1 for UINT64_MAX
  deltas,    \* deltas_at_current_time
  changed,   \* signals on the batch's change list, not yet triggered
  snap,      \* the values of all signals when the delayed statement under way
             \* began; of one signal, what the set_signal under way asked for
  recording  \* recording_mode

client == <<stopped, finished, inited>>
locals == <<endTime, lastTime, deltas>>
vars == <<now, delta, pending, val, client, pc, locals, changed, snap, recording>>

Vectors == [Parts -> Values]
Writes  == UNION {[r -> Values] : r \in Ranges}
NoWrite == [p \in {} |-> None]
NoSnap  == [s \in {} |-> None]

\* The value of a signal after a whole or part-select write.
Overlay(old, w) == [p \in Parts |-> IF p \in DOMAIN w THEN w[p] ELSE old[p]]

-----------------------------------------------------------------------------
(* The event queue.                                                        *)

Stamps == 0 .. MaxStamp

Updates ==
  [time : Nat, delta : Nat, stmt : {FALSE}, sig : Signals, wr : Writes,
   nba : BOOLEAN, pid : Procs \cup {None}, ord : Nat, issue : Nat]
Resumes ==
  [time : Nat, delta : {0}, stmt : {TRUE}, sig : {None}, wr : {NoWrite},
   nba : {FALSE}, pid : {None}, ord : Nat, issue : Nat]
Events == Updates \cup Resumes

\* A signal update; issue is the number of the assignment that gave its value.
Update(t, d, s, w, nba, p, n) ==
  [time |-> t, delta |-> d, stmt |-> FALSE, sig |-> s, wr |-> w, nba |-> nba,
   pid |-> p, ord |-> n, issue |-> n]

\* A statement to resume: always under delta 0 of its time.
Resume(t, n) ==
  [time |-> t, delta |-> 0, stmt |-> TRUE, sig |-> None, wr |-> NoWrite, nba |-> FALSE,
   pid |-> None, ord |-> n, issue |-> n]

SameKey(e, f) == e.time = f.time /\ e.delta = f.delta

\* Seeded faults: events appended at the tail; inserted ahead of their equals.
BeforeByArrival(e, f) == e.ord < f.ord
BeforeLastInFirst(e, f) ==
  \/ e.time < f.time
  \/ e.time = f.time /\ e.delta < f.delta
  \/ SameKey(e, f) /\ e.ord > f.ord

\* The order of the list: sorted by key, first in first out within a key.
Before(e, f) ==
  \/ e.time < f.time
  \/ e.time = f.time /\ e.delta < f.delta
  \/ SameKey(e, f) /\ e.ord < f.ord

IsHead(h) == h \in pending /\ \A e \in pending \ {h} : Before(h, e)

\* The next insertion number: the least that exceeds every one in use.
Newest(n) ==
  /\ \A e \in pending : e.ord < n /\ e.issue < n
  /\ \A m \in 0 .. n - 1 : \E e \in pending : e.ord >= m \/ e.issue >= m

\* The event of q an NBA of process p replaces: same key, signal, process and range.
SameSlot(e, f) ==
  /\ SameKey(e, f) /\ e.sig = f.sig /\ e.nba /\ f.nba
  /\ e.pid = f.pid /\ DOMAIN e.wr = DOMAIN f.wr

\* schedule_event: an NBA issued by a process takes over the event already
\* queued for its slot, at that event's place; anything else is inserted.
Insert(q, e) ==
  LET twins == {f \in q : e.pid # None /\ SameSlot(e, f)}
  IN  IF twins = {} THEN q \cup {e}
      ELSE (q \ twins) \cup {[f EXCEPT !.wr = e.wr, !.issue = e.issue] : f \in twins}

\* Seeded fault: the filter removes the pulses at the target time instead.
PulsesKept(q, s, target) == {e \in q : e.stmt \/ e.sig # s \/ e.time # target}

\* The inertial filter of a delayed continuous assignment to s.
WithoutPulses(q, s, target) ==
  {e \in q : e.stmt \/ e.sig # s \/ e.time >= target}

-----------------------------------------------------------------------------
(* What a body may do.                                                     *)

InBody == pc \in {"set", "init", "stmt", "trigger"}

Sources == IF pc = "stmt" THEN {None} ELSE Procs \cup {None}

Enabled(kind) ==
  InBody /\ kind \in IF pc = "set" THEN Effects \cap WireKinds ELSE Effects

\* Bounds of the model, see the constants.
Room == Cardinality(pending) < MaxPending

Schedules == UNCHANGED <<now, delta, val, client, pc, locals, changed, snap, recording>>

\* exec_assign, delay 0: the signal is written at once.
Blocking(s, w) ==
  /\ Enabled("blocking")
  /\ val' = [val EXCEPT ![s] = Overlay(@, w)]
  /\ UNCHANGED <<now, delta, pending, client, pc, locals, changed, snap, recording>>

\* Seeded fault: an NBA is queued in the current delta.
NonblockingInPlace(p, s, w) ==
  /\ Enabled("nonblocking") /\ Room /\ delta < DeltaCap
  /\ \E n \in Stamps :
       /\ Newest(n)
       /\ pending' = Insert(pending, Update(now, delta, s, w, TRUE, p, n))
  /\ Schedules

\* exec_assign, delay 1: an update for the next delta of the current time.
Nonblocking(p, s, w) ==
  /\ Enabled("nonblocking") /\ Room /\ delta < DeltaCap
  /\ \E n \in Stamps :
       /\ Newest(n)
       /\ pending' = Insert(pending, Update(now, delta + 1, s, w, TRUE, p, n))
  /\ Schedules

\* Any other update: under the current key (a task's output argument, the port
\* wire of a changed signal) or one delta later (the result of a VITAL call).
Direct(s, w, ahead) ==
  /\ Enabled("direct") /\ Room /\ delta + ahead <= DeltaCap
  /\ \E n \in Stamps :
       /\ Newest(n)
       /\ pending' = Insert(pending, Update(now, delta + ahead, s, w, FALSE, None, n))
  /\ Schedules

\* A path delay: the new value travels d time units, delta 0.
Transport(s, w, d) ==
  /\ Enabled("transport") /\ Room /\ now + d <= Horizon
  /\ \E n \in Stamps :
       /\ Newest(n)
       /\ pending' = Insert(pending, Update(now + d, 0, s, w, FALSE, None, n))
  /\ Schedules

\* assign #d: earlier updates of the signal are filtered, then the new one queued.
Inertial(s, w, d) ==
  /\ Enabled("inertial") /\ Room /\ now + d <= Horizon
  /\ \E n \in Stamps :
       /\ Newest(n)
       /\ pending' = Insert(WithoutPulses(pending, s, now + d),
                            Update(now + d, 0, s, w, FALSE, None, n))
  /\ Schedules

\* #d statement (schedule_stmt_event): the rest of the body resumes d later.
Delayed(d) ==
  /\ Enabled("delayed") /\ Room /\ now + d <= Horizon
  /\ \E n \in Stamps :
       /\ Newest(n)
       /\ pending' = pending \cup {Resume(now + d, n)}
  /\ Schedules

StopTask ==
  /\ Enabled("stop") /\ stopped' = TRUE
  /\ UNCHANGED <<now, delta, pending, val, finished, inited, pc, locals, changed, snap, recording>>

FinishTask ==
  /\ Enabled("finish") /\ finished' = TRUE
  /\ UNCHANGED <<now, delta, pending, val, stopped, inited, pc, locals, changed, snap, recording>>

Statement ==
  \/ \E s \in Signals, w \in Writes : Blocking(s, w)
  \/ \E p \in Sources, s \in Signals, w \in Writes : Nonblocking(p, s, w)
  \/ \E s \in Signals, w \in Vectors, ahead \in {0, 1} : Direct(s, w, ahead)
  \/ \E s \in Signals, w \in Vectors, d \in WireDelays : Transport(s, w, d)
  \/ \E s \in Signals, w \in Vectors, d \in WireDelays : Inertial(s, w, d)
  \/ \E d \in StmtDelays : Delayed(d)
  \/ StopTask
  \/ FinishTask

-----------------------------------------------------------------------------
(* The client.                                                             *)

\* uir_sim_set_signal before the first run: the signal is written at once, and
\* the assigns, port wires and path delays it feeds run before the call goes on.
SetFirst(s, w) ==
  /\ pc = "idle" /\ "set" \in Api /\ ~inited
  /\ val' \in {v \in [Signals -> Vectors] : v[s] = w}
  /\ pc' = "set" /\ snap' = [t \in {s} |-> w]
  /\ UNCHANGED <<now, delta, pending, client, locals, changed, recording>>

\* uir_sim_set_signal: an update under the current key.
SetSignal(s, w) ==
  /\ "set" \in Api /\ Room
  /\ \/ inited /\ pc = "idle"
     \/ ~inited /\ pc = "set" /\ snap = [t \in {s} |-> w]
  /\ \E n \in Stamps :
       /\ Newest(n)
       /\ pending' = Insert(pending, Update(now, delta, s, w, FALSE, None, n))
  /\ pc' = "idle" /\ snap' = NoSnap
  /\ UNCHANGED <<now, delta, val, client, locals, changed, recording>>

\* uir_sim_clear_stop.
Continue ==
  /\ pc = "idle" /\ "continue" \in Api /\ stopped
  /\ stopped' = FALSE
  /\ UNCHANGED <<now, delta, pending, val, finished, inited, pc, locals, changed, snap, recording>>

\* uir_sim_run is called.
RunBegin(d) ==
  /\ pc = "idle" /\ delta <= DeltaCap /\ now + d <= Horizon
  /\ pc' = "init" /\ endTime' = now + d
  /\ UNCHANGED <<now, delta, pending, val, client, lastTime, deltas, changed, snap, recording>>

-----------------------------------------------------------------------------
(* The loop of uir_sim_run.                                                *)

\* initial_eval returns; its statements ran under pc = "init".
InitDone ==
  /\ pc = "init" /\ pc' = "head" /\ inited' = TRUE
  /\ UNCHANGED <<now, delta, pending, val, stopped, finished, locals, changed, snap, recording>>

\* Seeded fault: the counter starts again with every batch.
DeltasAtReset(t) == 1

\* deltas_at_current_time of a batch at time t.
DeltasAt(t) == IF t = lastTime THEN deltas + 1 ELSE 1

Due(h) == IsHead(h) /\ ~stopped /\ ~finished /\ h.time <= endTime

\* The run returns: the next set_signal gets a delta of its own.
Return ==
  /\ pc' = "idle" /\ delta' = delta + 1
  /\ endTime' = 0 /\ lastTime' = -1 /\ deltas' = 0
  /\ UNCHANGED <<now, pending, val, finished, inited, changed, snap, recording>>

RunEnd ==
  /\ pc = "head"
  /\ \/ pending = {} \/ stopped \/ finished
     \/ \E h \in pending : IsHead(h) /\ h.time > endTime
  /\ Return /\ UNCHANGED stopped

\* Too many batches at one time: a combinatorial loop.
LoopDetected ==
  /\ pc = "head"
  /\ \E h \in pending : Due(h) /\ DeltasAt(h.time) > MaxDeltas
  /\ Return /\ stopped' = TRUE

BeginBatch ==
  /\ pc = "head"
  /\ \E h \in pending :
       /\ Due(h) /\ DeltasAt(h.time) <= MaxDeltas
       /\ now' = h.time /\ delta' = h.delta
       /\ lastTime' = h.time /\ deltas' = DeltasAt(h.time)
  /\ pc' = "apply"
  /\ UNCHANGED <<pending, val, client, endTime, changed, snap, recording>>

\* The head of the queue is in the batch under way.
InBatch(h) == IsHead(h) /\ h.time = now /\ h.delta = delta

\* Phase 1: a signal update is written; a real change joins the change list.
ApplyUpdate ==
  /\ pc = "apply"
  /\ \E h \in pending :
       /\ InBatch(h) /\ ~h.stmt
       /\ pending' = pending \ {h}
       /\ val' = [val EXCEPT ![h.sig] = Overlay(@, h.wr)]
       /\ changed' = IF val'[h.sig] = val[h.sig] THEN changed ELSE changed \cup {h.sig}
  /\ UNCHANGED <<now, delta, client, pc, locals, snap, recording>>

\* Phase 1: a delayed statement resumes.
ApplyResume ==
  /\ pc = "apply"
  /\ \E h \in pending : InBatch(h) /\ h.stmt /\ pending' = pending \ {h}
  /\ pc' = "stmt" /\ snap' = val /\ recording' = (now <= RecordUntil)
  /\ UNCHANGED <<now, delta, val, client, locals, changed>>

\* The statement is done; recorded signals that differ join the change list.
ResumeDone ==
  /\ pc = "stmt" /\ pc' = "apply"
  /\ changed' = IF recording THEN changed \cup {s \in Signals : val[s] # snap[s]}
                ELSE changed
  /\ recording' = FALSE /\ snap' = NoSnap
  /\ UNCHANGED <<now, delta, pending, val, client, locals>>

\* The head of the queue, if any, is in a later batch.
Drained == pending = {} \/ \E h \in pending : IsHead(h) /\ ~InBatch(h)

\* Phase 1.5: the input port wires carry the changes to the signals ws below
\* them, which join the change list; their events are applied as they are queued.
PortWires(ws) ==
  /\ val' \in {v \in [Signals -> Vectors] : \A s \in Signals \ ws : v[s] = val[s]}
  /\ changed' = changed \cup ws

\* The batch is drained: its changes are triggered, then its nets resolved.
ApplyDone ==
  /\ pc = "apply" /\ Drained
  /\ \E ws \in IF "wire" \in Effects THEN SUBSET Signals ELSE {{}} : PortWires(ws)
  /\ pc' = IF changed' = {} THEN "resolve" ELSE "trigger"
  /\ UNCHANGED <<now, delta, pending, client, locals, snap, recording>>

\* Phase 2: the assigns, processes and waiters of one changed signal have run.
TriggerDone(s) ==
  /\ pc = "trigger" /\ s \in changed
  /\ changed' = changed \ {s}
  /\ pc' = IF changed' = {} THEN "resolve" ELSE "trigger"
  /\ UNCHANGED <<now, delta, pending, val, client, locals, snap, recording>>

\* Phase 2.5: the nets ns with several drivers (wand, wor, tri0, tri1, std_logic)
\* take another value, which is triggered in its turn, in the same batch, until a
\* pass over the nets changes none.  The batch count does not see these rounds.
ResolveNets(ns) ==
  /\ pc = "resolve"
  /\ val' \in {v \in [Signals -> Vectors] : {s \in Signals : v[s] # val[s]} = ns}
  /\ changed' = ns
  /\ pc' = IF ns = {} THEN "head" ELSE "trigger"
  /\ UNCHANGED <<now, delta, pending, client, locals, snap, recording>>

Engine ==
  \/ InitDone \/ RunEnd \/ LoopDetected \/ BeginBatch
  \/ ApplyUpdate \/ ApplyResume \/ ResumeDone \/ ApplyDone
  \/ \E s \in Signals : TriggerDone(s)
  \/ \E ns \in IF "net" \in Effects THEN SUBSET Signals ELSE {{}} : ResolveNets(ns)

Client ==
  \/ \E s \in Signals, w \in Vectors : SetFirst(s, w) \/ SetSignal(s, w)
  \/ Continue
  \/ \E d \in Durations : RunBegin(d)

Init ==
  /\ now = 0 /\ delta = 0 /\ pending = {}
  /\ \E v \in Vectors : val = [s \in Signals |-> v]
  /\ stopped = FALSE /\ finished = FALSE /\ inited = FALSE
  /\ pc = "idle" /\ endTime = 0 /\ lastTime = -1 /\ deltas = 0
  /\ changed = {} /\ snap = NoSnap /\ recording = FALSE

Next == Engine \/ Statement \/ Client

Spec == Init /\ [][Next]_vars

\* Every body is finite and the loop keeps going: uir_sim_run is ordinary
\* sequential code, and a statement never disables the engine's own step.
FairSpec == Spec /\ WF_vars(Engine)

-----------------------------------------------------------------------------
(* Properties.                                                             *)

Locations == {"idle", "set", "init", "head", "apply", "stmt", "trigger", "resolve"}

\* Every variable has its type; a run never begins more than max_deltas_per_time
\* batches at one time.
TypeOK ==
  /\ now \in Nat /\ delta \in Nat /\ pending \subseteq Events
  /\ val \in [Signals -> Vectors]
  /\ stopped \in BOOLEAN /\ finished \in BOOLEAN /\ inited \in BOOLEAN
  /\ pc \in Locations
  /\ endTime \in Nat /\ lastTime \in Nat \cup {-1} /\ deltas \in 0 .. MaxDeltas
  /\ changed \subseteq Signals
  /\ snap \in UNION {[S -> Vectors] : S \in SUBSET Signals} /\ recording \in BOOLEAN

\* Simulated time never goes back, whatever the design queues, across runs,
\* stops and continues (uir_sim_run: current_time is set to the head's time).
TimeMonotone == [][now' >= now]_vars

\* No queued event is overdue: its time is still to come or is the current one.
NothingOverdue == \A e \in pending : e.time >= now

\* One process never has two NBAs queued for the same slot: were there two, the
\* IEEE 1164 table would resolve a process against itself (schedule_event).
OneNbaPerSlot ==
  \A e, f \in pending : e # f /\ e.pid # None => ~SameSlot(e, f)

\* Race freedom of nonblocking assignment: while the bodies of a batch run, no
\* NBA issued so far is due before a later batch, so no body of this batch can
\* read a value another body of it assigned (exec_assign, current_delta + 1).
NbaDeferred ==
  pc \in {"stmt", "trigger", "resolve"} =>
    \A e \in pending : e.nba => e.time = now /\ e.delta > delta

\* "Last assignment wins" (schedule_event): two NBAs of one source to the same
\* bits at the same time are applied in the order in which they were issued.
NbaSourceOrder ==
  \A e, f \in pending :
    (/\ e.nba /\ f.nba /\ e.time = f.time /\ e.pid = f.pid /\ e.sig = f.sig
     /\ DOMAIN e.wr \cap DOMAIN f.wr # {} /\ e.issue < f.issue) => Before(e, f)

\* Inertial delay: a later change of the right-hand side leaves no earlier pulse
\* in the queue (for signals that one delayed assign and processes drive).
NoStalePulse ==
  \A e, f \in pending :
    ~e.stmt /\ ~f.stmt /\ ~e.nba /\ ~f.nba /\ e.sig = f.sig => e.time = f.time

\* uir_sim_run comes back: zero-delay activity that goes from batch to batch,
\* however long it could go on, runs into the combinatorial-loop limit.  Two kinds
\* stay inside one batch and escape the limit: statements that resume for ever,
\* and nets that never settle (wand w; assign w = en ? ~w : 0).
RunReturns ==
  \/ []<><<ApplyResume>>_vars
  \/ <>[](pc \in {"trigger", "resolve"})
  \/ (pc \notin {"idle", "set"}) ~> (pc = "idle")

=============================================================================
