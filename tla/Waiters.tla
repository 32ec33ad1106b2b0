------------------------------ MODULE Waiters ------------------------------
(***************************************************************************)
(* The list of waiting statements (uir_sim.c), under every design: how a   *)
(* statement joins it, how a change or a trigger walks it, and what the    *)
(* bodies it wakes do to it meanwhile.  A batch is the serial one.         *)
(*                                                                         *)
(* A body is any sequence of the statements that concern the list.  What   *)
(* the bodies of a design do to the walk they run under is a parameter.    *)
(***************************************************************************)
EXTENDS Integers, Sequences, FiniteSets

CONSTANTS
  Signals,      \* nets and variables
  Events,       \* named events
  Statements,   \* the wait and event-control statements of the design
  Habits,       \* what designs do under a walk; see Habit
  MaxArrivals,  \* bound of the model: statements that come to wait
  MaxNest,      \* bound of the model: walks under way
  MaxChanges    \* bound of the model: changes noted at a time

Names == Signals \cup Events
Bit == {"0", "1", "x"}
Edge == {"pos", "neg", "any"}

\* @(n): it waits for an edge of one name; for none if there is no such name.
AtStatement ==
  {[kind |-> "at", on |-> o, edge |-> e] : o \in {{}} \cup {{n} : n \in Names}, e \in Edge}

\* wait (c): c is a condition on the signals it mentions, never on an event.
WaitStatement ==
  UNION {{[kind |-> "wait", on |-> o, goal |-> g] : g \in SUBSET [o -> Bit]} :
           o \in SUBSET Signals}

\* "trigger": a woken body triggers an event;
\* "rejoin": what runs under a walk waits for an edge of the signal of the walk;
\* "overwrite": what runs under a walk writes or triggers the signal of the walk.
Habit == {"trigger", "rejoin", "overwrite"}

ASSUME WaitersAssumption ==
  /\ Signals \cap Events = {}
  /\ Statements \subseteq AtStatement \cup WaitStatement
  /\ Habits \subseteq SUBSET Habit
  /\ {MaxArrivals, MaxNest, MaxChanges} \subseteq Nat

VARIABLES
  value,     \* the value of each name; an event is 1 while it is triggered
  waiters,   \* the list: [id, stmt]
  arrived,   \* how many have joined it; the next one's id is one more
  walks,     \* check_waiters_on_change and its caller, one record per nested call
  phase,     \* of the batch: its events, the changes they made, resolved nets
  event,     \* the statement event executed: none, recorded, silent, or over
  recorded,  \* recorded_changes: [sig, old], first writes only
  changes,   \* the change list: [sig, old]
  habits,    \* what the bodies of the design do
  woken,     \* history: who has been woken
  due,       \* history: who waits for an edge that has come
  missed     \* history: signals that changed and were not walked for it since

vars == <<value, waiters, arrived, walks, phase, event, recorded, changes,
          habits, woken, due, missed>>

-----------------------------------------------------------------------------
(* The walks.  A walk has slot 0 while the processes and assigns that the   *)
(* change concerns run, and who # 0 while the body of a woken statement     *)
(* does.  It is fresh as long as new_val is the value it pointed to.        *)

Walk(n, old) == [sig |-> n, old |-> old, slot |-> 0, who |-> 0, fresh |-> TRUE]

Top == walks[Len(walks)]
WithTop(f) == [walks EXCEPT ![Len(walks)] = f]
UnderWay == {walks[k].sig : k \in DOMAIN walks}

\* Some statement of the design is being executed.
Executing ==
  IF walks = <<>> THEN event \in {"recorded", "silent"} ELSE Top.slot = 0 \/ Top.who # 0

\* The value new_val shows: any, once the object it points to was freed.
Shown(f) == IF f.fresh THEN {value[f.sig]} ELSE Bit

\* n is written: its old value object is freed.
Freed(n, w) == [k \in DOMAIN w |-> [w[k] EXCEPT !.fresh = @ /\ w[k].sig # n]]

-----------------------------------------------------------------------------
(* What wakes a statement.                                                  *)

Holds(s) == [n \in s.on |-> value[n]] \in s.goal

\* edge_match, and edge 0
Matches(edge, old, new) ==
  CASE edge = "pos" -> new = "1" /\ old # "1"
    [] edge = "neg" -> new = "0" /\ old # "0"
    [] OTHER -> TRUE

\* Seeded fault: whatever changes concerns every condition.
FiresOnAny(s, f, new) ==
  IF s.kind = "wait" THEN Holds(s) ELSE Matches(s.edge, f.old, new)

Fires(s, f, new) ==
  /\ f.sig \in s.on
  /\ IF s.kind = "wait" THEN Holds(s) ELSE Matches(s.edge, f.old, new)

\* Those on the list that wait for this edge of n.
Waiting(n, old, new) ==
  {x.id : x \in {y \in {waiters[i] : i \in DOMAIN waiters} :
                   y.stmt.kind = "at" /\ n \in y.stmt.on /\ Matches(y.stmt.edge, old, new)}}

\* Seeded fault: the slot is closed up, and what came behind it lost.
DroppedTail(w) == SubSeq(waiters, 1, w - 1)

\* The removal of slot w: the last one takes its place.  As the code has it, the
\* last one goes even if w is no slot any more.
Dropped(w) ==
  LET n == Len(waiters) IN
  [i \in 1 .. n - 1 |-> IF i = w THEN waiters[n] ELSE waiters[i]]

-----------------------------------------------------------------------------
(* Statements.                                                              *)

\* Seeded fault: a wait joins the list whether or not its condition holds.
JoinAlways(s) ==
  /\ Executing
  /\ arrived < MaxArrivals
  /\ s.on # {}
  /\ s.kind = "at" /\ s.on \cap UnderWay # {} => "rejoin" \in habits
  /\ arrived' = arrived + 1
  /\ waiters' = Append(waiters, [id |-> arrived + 1, stmt |-> s])
  /\ UNCHANGED <<value, walks, phase, event, recorded, changes, habits, woken, due, missed>>

\* UIR_WAIT, UIR_EVENT_CTRL and add_waiter: a wait whose condition holds goes on;
\* a statement that mentions no signal is not kept.
Join(s) ==
  /\ Executing
  /\ arrived < MaxArrivals
  /\ s.on # {}
  /\ s.kind = "wait" => ~Holds(s)
  /\ s.kind = "at" /\ s.on \cap UnderWay # {} => "rejoin" \in habits
  /\ arrived' = arrived + 1
  /\ waiters' = Append(waiters, [id |-> arrived + 1, stmt |-> s])
  /\ UNCHANGED <<value, walks, phase, event, recorded, changes, habits, woken, due, missed>>

IsRecorded(n) == \E k \in DOMAIN recorded : recorded[k].sig = n

\* A blocking assign of v to n.
Assign(n, v) ==
  /\ Executing
  /\ n \in UnderWay => "overwrite" \in habits
  /\ value' = [value EXCEPT ![n] = v]
  /\ walks' = Freed(n, walks)
  /\ IF event = "recorded"
     THEN /\ IsRecorded(n) \/ Len(changes) + Len(recorded) < MaxChanges
          /\ recorded' = IF IsRecorded(n) THEN recorded
                         ELSE Append(recorded, [sig |-> n, old |-> value[n]])
          /\ UNCHANGED missed
     ELSE /\ missed' = missed \cup {n}
          /\ UNCHANGED recorded
  /\ UNCHANGED <<waiters, arrived, phase, event, changes, habits, woken, due>>

\* A force statement, an assign or a port wire: never recorded.
Drive(n, v) ==
  /\ Executing
  /\ n \in UnderWay => "overwrite" \in habits
  /\ value' = [value EXCEPT ![n] = v]
  /\ walks' = Freed(n, walks)
  /\ missed' = missed \cup {n}
  /\ UNCHANGED <<waiters, arrived, phase, event, recorded, changes, habits, woken, due>>

\* UIR_EVENT_TRIGGER up to check_and_trigger
Trigger(n) ==
  /\ Executing
  /\ Len(walks) < MaxNest
  /\ walks # <<>> /\ Top.who # 0 => "trigger" \in habits
  /\ n \in UnderWay => "overwrite" \in habits
  /\ value' = [value EXCEPT ![n] = "1"]
  /\ walks' = Append(Freed(n, walks), Walk(n, value[n]))
  /\ due' = due \cup Waiting(n, value[n], "1")
  /\ UNCHANGED <<waiters, arrived, phase, event, recorded, changes, habits, woken, missed>>

-----------------------------------------------------------------------------
(* check_waiters_on_change.                                                 *)

\* check_and_trigger is back.  A trigger looks its new value up now.
Start ==
  /\ walks # <<>> /\ Top.slot = 0
  /\ walks' = WithTop([Top EXCEPT !.slot = 1, !.fresh = @ \/ Top.sig \in Events])
  /\ UNCHANGED <<value, waiters, arrived, phase, event, recorded, changes,
                 habits, woken, due, missed>>

\* The walk is at a slot, and no body runs.
AtSlot == walks # <<>> /\ Top.slot \in DOMAIN waiters /\ Top.who = 0

Pass ==
  /\ AtSlot
  /\ \E new \in Shown(Top) : ~Fires(waiters[Top.slot].stmt, Top, new)
  /\ walks' = WithTop([Top EXCEPT !.slot = @ + 1])
  /\ UNCHANGED <<value, waiters, arrived, phase, event, recorded, changes,
                 habits, woken, due, missed>>

Wake ==
  /\ AtSlot
  /\ \E new \in Shown(Top) : Fires(waiters[Top.slot].stmt, Top, new)
  /\ walks' = WithTop([Top EXCEPT !.who = waiters[Top.slot].id])
  /\ woken' = woken \cup {waiters[Top.slot].id}
  /\ due' = due \ {waiters[Top.slot].id}
  /\ UNCHANGED <<value, waiters, arrived, phase, event, recorded, changes, habits, missed>>

\* Seeded fault: the waiter moved into the freed slot is passed over.
BodyDoneSkipping ==
  /\ walks # <<>> /\ Top.who # 0
  /\ waiters' = Dropped(Top.slot)
  /\ walks' = WithTop([Top EXCEPT !.who = 0, !.slot = @ + 1])
  /\ UNCHANGED <<value, arrived, phase, event, recorded, changes, habits, woken, due, missed>>

\* The body is back: its statement is removed, and the slot looked at again.
BodyDone ==
  /\ walks # <<>> /\ Top.who # 0
  /\ waiters' = Dropped(Top.slot)
  /\ walks' = WithTop([Top EXCEPT !.who = 0])
  /\ UNCHANGED <<value, arrived, phase, event, recorded, changes, habits, woken, due, missed>>

\* The walk is over; a trigger ends with it.
WalkDone ==
  /\ walks # <<>> /\ Top.who = 0 /\ Top.slot > Len(waiters)
  /\ LET outer == SubSeq(walks, 1, Len(walks) - 1) IN
       IF Top.sig \in Events
       THEN walks' = Freed(Top.sig, outer) /\ value' = [value EXCEPT ![Top.sig] = "0"]
       ELSE walks' = outer /\ UNCHANGED value
  /\ UNCHANGED <<waiters, arrived, phase, event, recorded, changes, habits, woken, due, missed>>

-----------------------------------------------------------------------------
(* The batch.                                                               *)

Between == walks = <<>> /\ event = "none"

\* A statement event begins; it is recorded up to time 30, initial_eval never is.
Begin ==
  /\ phase = "events" /\ Between
  /\ event' \in {"recorded", "silent"}
  /\ UNCHANGED <<value, waiters, arrived, walks, phase, recorded, changes,
                 habits, woken, due, missed>>

Differs(r) == r.old # value[r.sig]

\* The event is over.  What it wrote is noted, one signal after the other, unless
\* it put back what was there.
Note ==
  /\ walks = <<>> /\ event # "none" /\ recorded # <<>>
  /\ event' = "over"
  /\ recorded' = Tail(recorded)
  /\ IF Differs(Head(recorded))
     THEN changes' = Append(changes, Head(recorded)) /\ UNCHANGED missed
     ELSE missed' = missed \cup {Head(recorded).sig} /\ UNCHANGED changes
  /\ UNCHANGED <<value, waiters, arrived, walks, phase, habits, woken, due>>

End ==
  /\ walks = <<>> /\ event # "none" /\ recorded = <<>>
  /\ event' = "none"
  /\ UNCHANGED <<value, waiters, arrived, walks, phase, recorded, changes,
                 habits, woken, due, missed>>

Noted(n, v) ==
  /\ v # value[n]
  /\ Len(changes) < MaxChanges
  /\ value' = [value EXCEPT ![n] = v]
  /\ changes' = Append(changes, [sig |-> n, old |-> value[n]])

\* A signal event, or a port wire behind one, gives n a new value.
Apply(n, v) ==
  /\ phase = "events" /\ Between
  /\ Noted(n, v)
  /\ UNCHANGED <<waiters, arrived, walks, phase, event, recorded, habits, woken, due, missed>>

\* resolve_net_types gives net n a new value.
Resolve(n, v) ==
  /\ phase = "nets" /\ Between
  /\ Noted(n, v)
  /\ UNCHANGED <<waiters, arrived, walks, phase, event, recorded, habits, woken, due, missed>>

\* The next change of the list is taken up: first check_and_trigger.
Take ==
  /\ phase = "changes" /\ walks = <<>> /\ changes # <<>>
  /\ LET c == Head(changes) IN
       /\ walks' = <<Walk(c.sig, c.old)>>
       /\ due' = due \cup Waiting(c.sig, c.old, value[c.sig])
       /\ missed' = missed \ {c.sig}
  /\ changes' = Tail(changes)
  /\ UNCHANGED <<value, waiters, arrived, phase, event, recorded, habits, woken>>

\* The events of the batch are executed; the changes are worked off; the nets
\* are resolved, until none changes any more.
NextPhase ==
  /\ Between
  /\ \/ phase = "events" /\ phase' = "changes"
     \/ phase = "changes" /\ changes = <<>> /\ phase' = "nets"
     \/ phase = "nets" /\ phase' = IF changes = <<>> THEN "events" ELSE "changes"
  /\ UNCHANGED <<value, waiters, arrived, walks, event, recorded, changes,
                 habits, woken, due, missed>>

Init ==
  /\ value = [n \in Names |-> "x"]
  /\ waiters = <<>> /\ arrived = 0
  /\ walks = <<>>
  /\ phase = "events" /\ event = "none"
  /\ recorded = <<>> /\ changes = <<>>
  /\ habits \in Habits
  /\ woken = {} /\ due = {} /\ missed = {}

Statement ==
  \/ \E s \in Statements : Join(s)
  \/ \E n \in Signals, v \in Bit : Assign(n, v) \/ Drive(n, v)
  \/ \E n \in Events : Trigger(n)

WalkStep == Start \/ Pass \/ Wake \/ BodyDone \/ WalkDone

Batch ==
  \/ Begin \/ Note \/ End \/ Take \/ NextPhase
  \/ \E n \in Signals, v \in Bit : Apply(n, v) \/ Resolve(n, v)

Next == Statement \/ WalkStep \/ Batch

Spec == Init /\ [][Next]_vars

-----------------------------------------------------------------------------
(* Properties.                                                              *)

Walks ==
  [sig : Names, old : Bit, slot : Nat, who : Nat, fresh : BOOLEAN]

Changes == [sig : Signals, old : Bit]

\* The variables have their types.
TypeOK ==
  /\ value \in [Names -> Bit]
  /\ waiters \in Seq([id : Nat \ {0}, stmt : Statements])
  /\ arrived \in Nat
  /\ walks \in Seq(Walks)
  /\ phase \in {"events", "changes", "nets"}
  /\ event \in {"none", "recorded", "silent", "over"}
  /\ recorded \in Seq(Changes) /\ changes \in Seq(Changes)
  /\ habits \in Habits
  /\ woken \subseteq Nat /\ due \subseteq Nat /\ missed \subseteq Signals

Listed == {waiters[i].id : i \in DOMAIN waiters}
Running == {walks[k].who : k \in DOMAIN walks} \ {0}

\* check_waiters_on_change executes the body of a statement and removes it: a
\* statement that came to wait is on the list once, or was woken; one that was
\* woken is on the list only while its body runs, so it is not woken again.
NoneLost ==
  /\ \A i, j \in DOMAIN waiters : waiters[i].id = waiters[j].id => i = j
  /\ 1 .. arrived = Listed \cup woken
  /\ Listed \cap woken \subseteq Running

\* A walk wakes every statement that waited, when it set out, for the edge it
\* announces, whatever joins and leaves the list meanwhile.
AllDueWoken ==
  "overwrite" \notin habits /\ walks = <<>> => due = {}

\* A statement is woken by an edge that comes after it began to wait: not by one
\* that was announced before.
WokenByCause ==
  [][ /\ habits \cap {"rejoin", "overwrite"} = {}
      /\ woken' # woken
      /\ waiters[Top.slot].stmt.kind = "at"
      => waiters[Top.slot].id \in due ]_vars

\* Between batches no wait sleeps whose condition holds, unless one of the
\* signals it mentions changed unannounced since it was last walked for.
NoMissedWait ==
  phase = "events" /\ Between /\ changes = <<>> =>
    \A i \in DOMAIN waiters :
      LET s == waiters[i].stmt IN
      s.kind = "wait" /\ Holds(s) => s.on \cap missed # {}
=============================================================================
