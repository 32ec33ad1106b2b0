----------------------------- MODULE Statements -----------------------------
(***************************************************************************)
(* The execution of lowered processes (uir_sim.c): exec_stmt, the waiters, *)
(* the statement events of the queue and the two phases of a batch that    *)
(* concern them, for a small set of designs run to completion.             *)
(*                                                                         *)
(* One step is one statement event executed with everything it calls, or   *)
(* the second phase of its batch.  The queue holds statement events only:  *)
(* they all have delta 0, so their order is that of their times and, for   *)
(* one time, of their insertion.                                           *)
(*                                                                         *)
(* block_hier is left out: every name in it begins with a dot and no       *)
(* disable target does, so the comparisons that would cancel an event or a *)
(* waiter are false whatever the design.                                   *)
(***************************************************************************)
EXTENDS Lowering

CONSTANTS
  Designs,      \* sequences of processes [lang, kind, body]
  MaxDepth,     \* the limit of exec_stmt's static counter
  RecordUntil,  \* last time at which a delayed statement's writes are noticed
  Horizon       \* bound of the model: nothing after this time is executed

ASSUME StatementsAssumption ==
  MaxDepth \in Nat /\ RecordUntil \in Nat /\ Horizon \in Nat

VARIABLES
  design,  \* the design simulated: the code of each process, and its plan
  now,     \* current_time; -1 before initial_eval
  open,    \* whether the batch at now still takes events
  m        \* the rest of the simulator's state, a record

vars == <<design, now, open, m>>

\* The fields of the context that exec_stmt and what it calls read and write.
Machine ==
  [queue   |-> <<>>,    \* statement events
   waiters |-> <<>>,
   high    |-> {High},  \* the signals that are 1
   count   |-> <<>>,    \* loop counters, by process and loop
   budget  |-> 0,       \* loop_sync_budget
   depth   |-> 0,       \* xdepth
   stop    |-> None,    \* disable_block_name
   rec     |-> FALSE,   \* recording_mode
   written |-> <<>>,    \* recorded_changes: signals written, first writes first
   changes |-> <<>>,    \* the change list of the batch
   trace   |-> <<>>]    \* history: who did what and when

Holds(s, c) == c \in s.high

Log(s, p, l, t) == [s EXCEPT !.trace = Append(@, [p |-> p, lab |-> l, time |-> t])]

-----------------------------------------------------------------------------
(* The event queue and the waiters.                                         *)

\* schedule_stmt_event: after every event that is not later.
Schedule(s, e) ==
  LET i == SelectLastInSeq(s.queue, LAMBDA x : x.time <= e.time)
  IN  [s EXCEPT !.queue = InsertAt(@, i + 1, e)]

\* add_waiter
AddWaiter(s, p, n) ==
  [s EXCEPT !.waiters = Append(@, [p |-> p, node |-> n])]

\* Slot w is freed: the last waiter takes its place.
DropWaiter(s, w) ==
  LET l == s.waiters IN [s EXCEPT !.waiters = Front([l EXCEPT ![w] = Last(l)])]

Fires(s, waiter, sig) ==
  /\ waiter.node.sig = sig
  /\ waiter.node.k = "wait" => Holds(s, sig)

-----------------------------------------------------------------------------
(* exec_stmt: the machine s after process p executed node n at time t.      *)

RECURSIVE Exec(_, _, _, _), ExecList(_, _, _, _, _), Kind(_, _, _, _), Scan(_, _, _, _)

Undo(s, n) == [s EXCEPT !.depth = @ - n]

\* The counter goes up with every statement.  It comes down where a disable
\* ends a block and, by two, when the limit makes it skip the statement.
Exec(s, p, t, n) ==
  IF n = NoNode THEN s
  ELSE IF s.depth + 1 > MaxDepth THEN Undo(s, 2)
  ELSE Kind([s EXCEPT !.depth = @ + 1], p, t, n)

Block(b) == [k |-> "block", id |-> b]

\* The statements of a block from the i-th on; a disable under way ends it.
ExecList(s, p, t, blk, i) ==
  LET r == Exec(s, p, t, blk.stmts[i])
  IN  IF i > Len(blk.stmts) THEN s
      ELSE IF r.stop = None THEN ExecList(r, p, t, blk, i + 1)
      ELSE Undo([r EXCEPT !.stop = IF @ = blk.name THEN None ELSE @], 1)

\* check_waiters_on_change: a waiter whose body ran is removed afterwards, and
\* the waiter moved into its slot is looked at next.
Scan(s, t, sig, w) ==
  IF w > Len(s.waiters) THEN s
  ELSE LET x == s.waiters[w]
       IN  IF ~Fires(s, x, sig) THEN Scan(s, t, sig, w + 1)
           ELSE Scan(DropWaiter(Exec(s, x.p, t, x.node.body), w), t, sig, w)

Counter(s, k) == IF k \in DOMAIN s.count THEN s.count[k] ELSE 0
SetCounter(s, k, v) == [s EXCEPT !.count = (k :> v) @@ @]
\* The condition of a loop; an endless one has none.
Goes(s, p, n) == n.n = Endless \/ Counter(s, <<p, n.loop>>) > 0

\* UIR_LOOP
ExecLoop(s, p, t, n) ==
  LET i == IF n.n = Endless THEN s ELSE Exec(s, p, t, [n EXCEPT !.k = "init"])
  IN  IF Goes(i, p, n) THEN Exec([i EXCEPT !.budget = Budget], p, t, Block(n.loop)) ELSE i

\* Seeded fault: past the budget the loop gives up.
LoopBackStops(s, p, t, n) ==
  IF Goes(s, p, n) /\ s.budget > 0
  THEN Exec([s EXCEPT !.budget = @ - 1], p, t, Block(n.loop)) ELSE s

\* UIR_LOOP_BACK: the body again at once or, past the budget, as an event.
LoopBack(s, p, t, n) ==
  CASE ~Goes(s, p, n) -> s
    [] Goes(s, p, n) /\ s.budget > 0 ->
         Exec([s EXCEPT !.budget = @ - 1], p, t, Block(n.loop))
    [] OTHER ->
         Schedule([s EXCEPT !.budget = Budget],
                  [time |-> t, p |-> p, node |-> Block(n.loop), again |-> NoNode])

\* UIR_WAIT
ExecWait(s, p, t, n) ==
  IF Holds(s, n.sig) THEN Exec(s, p, t, n.body) ELSE AddWaiter(s, p, n)

\* UIR_EVENT_TRIGGER: the event is 1 while the waiters are looked at.
ExecTrigger(s, p, t, n) ==
  LET r == Scan([s EXCEPT !.high = @ \cup {n.sig}], t, n.sig, 1)
  IN  [r EXCEPT !.high = @ \ {n.sig}]

\* The block a case chooses: the first item that matches, or the default.
Chosen(n) ==
  LET j == SelectInSeq(n.items, LAMBDA a : a.c = n.pick)
  IN  IF j = 0 THEN n.default ELSE n.items[j].body

Branch(s, n) == IF Holds(s, n.c) THEN n.then ELSE n.else

ExecBranch(s, p, t, b) == IF b = 0 THEN s ELSE Exec(s, p, t, Block(b))

\* A blocking assignment, noticed while recording is on.
Write(s, f, v) ==
  [s EXCEPT !.high = IF v THEN @ \cup {f} ELSE @ \ {f},
            !.written = IF s.rec /\ f \notin ToSet(@) THEN Append(@, f) ELSE @]

\* The switch of exec_stmt.
Kind(s, p, t, n) ==
  CASE n.k = "do"      -> Log(s, p, n.lab, t)
    [] n.k = "put"     -> Write(s, n.sig, n.v)
    [] n.k = "block"   -> ExecList(s, p, t, design[p].code[n.id], 1)
    [] n.k = "if"      -> ExecBranch(s, p, t, Branch(s, n))
    [] n.k = "case"    -> ExecBranch(s, p, t, Chosen(n))
    [] n.k = "delay"   ->
         Schedule(s, [time |-> t + n.n, p |-> p, node |-> n.body,
                      again |-> IF n.again THEN n ELSE NoNode])
    [] n.k = "wait"    -> ExecWait(s, p, t, n)
    [] n.k = "at"      -> AddWaiter(s, p, n)
    [] n.k = "trigger" -> ExecTrigger(s, p, t, n)
    [] n.k = "disable" -> [s EXCEPT !.stop = n.name]
    [] n.k = "loop"    -> ExecLoop(s, p, t, n)
    [] n.k = "init"    -> SetCounter(s, <<p, n.loop>>, n.n)
    [] n.k = "step"    -> SetCounter(s, <<p, n.loop>>, Counter(s, <<p, n.loop>>) - 1)
    [] n.k = "back"    -> LoopBack(s, p, t, n)
    [] n.k = "call"    -> IF s.stop = n.name THEN [s EXCEPT !.stop = None]
                          ELSE Exec(s, p, t, Block(n.body))
    [] OTHER -> s

-----------------------------------------------------------------------------
(* The run.                                                                 *)

\* A process as it is executed, and what its text says it does: the labels and,
\* if it only delays, their times up to the horizon.
Compiled(proc) ==
  [code |-> Lower(proc), waits |-> Waits(proc), labels |-> Labels(proc),
   plan |-> IF Waits(proc) THEN <<>>
            ELSE SelectSeq(Timed(Acts(proc), 0), LAMBDA x : x[2] <= Horizon)]

Init ==
  /\ \E d \in Designs : design = [p \in DOMAIN d |-> Compiled(d[p])]
  /\ now = -1 /\ open = FALSE /\ m = Machine

\* initial_eval: every process once, in order; its writes wake no waiter.
InitialEval ==
  /\ now = -1 /\ now' = 0
  /\ m' = FoldLeft(LAMBDA s, p : Exec(s, p, 0, Block(1)), m, [p \in DOMAIN design |-> p])
  /\ UNCHANGED <<design, open>>

\* The changes a statement event leaves: signals whose value differs.
Noted(before, s) ==
  [s EXCEPT !.rec = FALSE, !.written = <<>>,
            !.changes = @ \o SelectSeq(s.written, LAMBDA f : Holds(before, f) # Holds(s, f))]

\* Phase 1: the head of the queue, with its repetition if it is an always body.
Resume ==
  /\ now >= 0 /\ m.queue # <<>>
  /\ LET e == Head(m.queue)
         s == [m EXCEPT !.queue = Tail(@), !.rec = e.time <= RecordUntil]
         r == Exec(s, e.p, e.time, e.node)
     IN  /\ e.time <= Horizon /\ (open => e.time = now)
         /\ now' = e.time /\ open' = TRUE
         /\ m' = Noted(m, Exec(r, e.p, e.time, e.again))
  /\ UNCHANGED design

\* The time of the next event; a time that is never run when there is none.
NextTime == IF m.queue = <<>> THEN Horizon + 1 ELSE Head(m.queue).time

\* Phase 2: the waiters of every changed signal.
Settle ==
  /\ open /\ NextTime # now
  /\ open' = FALSE
  /\ m' = FoldLeft(LAMBDA s, f : Scan(s, now, f, 1), [m EXCEPT !.changes = <<>>], m.changes)
  /\ UNCHANGED <<design, now>>

Next == InitialEval \/ Resume \/ Settle

Spec == Init /\ [][Next]_vars

-----------------------------------------------------------------------------
Over == now >= 0 /\ ~open /\ NextTime > Horizon

\* What process p has executed, with and without the times.
Done(p) == LET d == SelectSeq(m.trace, LAMBDA x : x.p = p)
           IN  [i \in DOMAIN d |-> <<d[i].lab, d[i].time>>]
DoneLabels(p) == [i \in DOMAIN Done(p) |-> Done(p)[i][1]]

\* The queue is in order, events lie ahead, and what is recorded belongs to a
\* batch under way.
TypeOK ==
  /\ now \in -1 .. Horizon /\ open \in BOOLEAN
  /\ \A i \in DOMAIN m.queue :
       /\ m.queue[i].time >= now
       /\ i > 1 => m.queue[i - 1].time <= m.queue[i].time
  /\ \A w \in ToSet(m.waiters) : w.node.k \in {"at", "wait"}
  /\ ~m.rec /\ m.written = <<>> /\ (open \/ m.changes = <<>>)

\* Lowering and execution keep the order of the source: what a process has done
\* is a beginning of what its text says, at the times its delays add up to
\* (restructure_delays, the wrapping of statements and the loop lowering).
FollowsSource ==
  \A p \in DOMAIN design :
    IF design[p].waits
    THEN IsPrefix(DoneLabels(p), design[p].labels)
    ELSE IsPrefix(Done(p), design[p].plan)

\* Nothing is dropped on the way: when nothing is left to run before the horizon,
\* a process that only delays has done all its text says, and one that waits has
\* done all of it or is on the queue, or in the list of waiters for an event or for
\* a condition that does not hold.
NothingLost ==
  Over => \A p \in DOMAIN design :
            IF design[p].waits
            THEN \/ DoneLabels(p) = design[p].labels
                 \/ \E w \in ToSet(m.waiters) :
                      w.p = p /\ (w.node.k = "wait" => ~Holds(m, w.node.sig))
                 \/ \E e \in ToSet(m.queue) : e.p = p
            ELSE Done(p) = design[p].plan
=============================================================================
