---------------------------- MODULE RefScheduler ----------------------------
(***************************************************************************)
(* The standalone delta-cycle scheduler (libqsim/src/scheduler.c): a time  *)
(* wheel, an overflow list behind its horizon, a queue of the present time *)
(* and a list of pending non-blocking updates.  Its client schedules from  *)
(* outside and from the callback that an event is delivered to.            *)
(*                                                                         *)
(* The delta that each event carries is left out: nothing reads it.        *)
(***************************************************************************)
EXTENDS Integers, Sequences, FiniteSets, Functions

CONSTANTS
  Ids,        \* events are numbered in the order they are scheduled: a bound, the
              \* numbers start again when nothing is pending
  MaxTime,    \* the times events are scheduled at: a bound
  WheelSize,  \* QSIM_WHEEL_SIZE
  MaxDelta,   \* max_delta_limit
  Clients     \* ways to use the scheduler: the calls that let the simulation go on,
              \* and whether there are NBA updates

ASSUME SchedulerAssumption ==
  /\ Ids \subseteq Nat /\ MaxTime \in Nat /\ WheelSize \in Nat \ {0} /\ MaxDelta \in Nat
  /\ Clients \subseteq [api : SUBSET {"run", "delta", "time"}, nba : BOOLEAN]

VARIABLES
  client,     \* how this client uses the scheduler
  wheel,      \* wheel.slots, the head first
  active,     \* delta_queue
  overflow,   \* overflow, sorted by time
  nbas,       \* nba_pending
  now,        \* current_time
  delta,      \* current_delta, saturating beyond the limit
  done,       \* is_done
  mode,       \* the call under way: "idle", "run", "time"
  until,      \* until_time of the run under way
  callback,   \* the client may schedule from the callback
  cause       \* what ended the simulation (history)

vars == <<client, wheel, active, overflow, nbas, now, delta, done, mode, until, callback, cause>>

\* early: it may be delivered before its time (history).
Events == [id : Ids, nba : BOOLEAN, time : 0 .. MaxTime, early : BOOLEAN]
Slots == 0 .. WheelSize - 1
Slot(t) == t % WheelSize
Horizon == now + WheelSize

Pending ==
  (UNION {Range(wheel[s]) : s \in Slots}) \cup Range(active) \cup Range(overflow) \cup Range(nbas)

Init ==
  /\ client \in Clients
  /\ wheel = [s \in Slots |-> <<>>] /\ active = <<>> /\ overflow = <<>> /\ nbas = <<>>
  /\ now = 0 /\ delta = 0 /\ done = FALSE /\ cause = "none"
  /\ mode = "idle" /\ until = 0 /\ callback = FALSE

-----------------------------------------------------------------------------
(* The queues.                                                             *)

\* wheel_push: the newest event of a slot comes first.
Push(w, e) == [w EXCEPT ![Slot(e.time)] = <<e>> \o @]

\* overflow_insert: behind the events at its head that are no later.
OverflowInsert(o, e) ==
  LET n == Cardinality({i \in DOMAIN o : \A j \in 1 .. i : o[j].time <= e.time})
  IN  SubSeq(o, 1, n) \o <<e>> \o SubSeq(o, n + 1, Len(o))

\* overflow_to_wheel at time t goes through o: what is on or before the horizon is
\* pushed to wheel w, the rest stays.
OnHorizon(e, t) == e.time <= t + WheelSize
Pushed(w, o, t) ==
  LET v[i \in 0 .. Len(o)] ==
        IF i = 0 THEN w ELSE IF OnHorizon(o[i], t) THEN Push(v[i - 1], o[i]) ELSE v[i - 1]
  IN  v[Len(o)]
Beyond(o, t) ==
  LET r[i \in 0 .. Len(o)] ==
        IF i = 0 THEN <<>> ELSE IF OnHorizon(o[i], t) THEN r[i - 1] ELSE Append(r[i - 1], o[i])
  IN  r[Len(o)]

-----------------------------------------------------------------------------
(* Scheduling.                                                             *)

\* The events that are not kept to their time: an NBA for a later one, and a signal
\* update a turn of the wheel ahead or more.
MayBeEarly(e) == e.time >= IF e.nba THEN now + 1 ELSE Horizon

\* A client schedules for the present or for later.
CanSchedule(e) ==
  /\ mode = "idle" \/ callback
  /\ e.time >= now /\ e.early = MayBeEarly(e) /\ \A f \in Pending : f.id < e.id

\* qsim_sched_signal_update.
SignalUpdate(e) ==
  /\ CanSchedule(e) /\ ~e.nba
  /\ \/ /\ e.time = now /\ active' = Append(active, e) /\ UNCHANGED <<wheel, overflow>>
     \/ /\ e.time # now /\ e.time <= Horizon
        /\ wheel' = Push(wheel, e) /\ UNCHANGED <<active, overflow>>
     \/ /\ e.time > Horizon
        /\ overflow' = OverflowInsert(overflow, e) /\ UNCHANGED <<active, wheel>>
  /\ UNCHANGED <<nbas, now, delta, done, mode, until, callback, cause>>

\* qsim_sched_nba_update: the list does not look at the time.
NbaUpdate(e) ==
  /\ client.nba /\ CanSchedule(e) /\ e.nba
  /\ nbas' = Append(nbas, e)
  /\ UNCHANGED <<wheel, active, overflow, now, delta, done, mode, until, callback, cause>>

-----------------------------------------------------------------------------
(* Going on.                                                               *)


Stop(why) == done' = TRUE /\ mode' = "idle" /\ cause' = why
GoOn == UNCHANGED <<done, mode, cause>>

\* Seeded fault: the deltas are not counted.
OneMoreNot(d) == d

OneMore(d) == IF d > MaxDelta THEN d ELSE d + 1

Nearest(T) == CHOOSE t \in T : \A u \in T : t <= u

\* Time is t, and w and o are the wheel and the overflow list then: the slot of t
\* is emptied into the active queue, and the NBAs after it.
Loaded(t, w) == active \o w[Slot(t)] \o nbas
Load(t, w, o) ==
  /\ now' = t /\ nbas' = <<>> /\ overflow' = o /\ wheel' = [w EXCEPT ![Slot(t)] = <<>>]

\* Both when overflow_to_wheel has been called at the present time, and the times
\* from t on whose slot has events then.
Wheel == Pushed(wheel, overflow, now)
Overflow == Beyond(overflow, now)
Slotted(t) == {u \in t .. Horizon : Wheel[Slot(u)] # <<>>}

-----------------------------------------------------------------------------
(* qsim_scheduler_run.                                                     *)

Run ==
  /\ "run" \in client.api /\ mode = "idle" /\ ~done
  /\ until' \in 0 .. MaxTime /\ mode' = "run" /\ callback' = FALSE
  /\ UNCHANGED <<wheel, active, overflow, nbas, now, delta, done, cause>>

\* Nothing is active.
RunDry == mode = "run" /\ active = <<>> /\ callback' = FALSE /\ UNCHANGED until

\* The pending NBAs are a new delta.
RunNba ==
  /\ RunDry /\ nbas # <<>> /\ delta' = OneMore(delta)
  /\ \/ /\ until = 0 \/ now < until
        /\ active' = Loaded(now, wheel) /\ Load(now, wheel, overflow) /\ GoOn
     \/ /\ until > 0 /\ now >= until /\ Stop("until")
        /\ UNCHANGED <<wheel, active, overflow, nbas, now>>

\* Time passes one by one while the overflow list has events.
RunTimes == IF Overflow # <<>> THEN now + 1 .. Horizon ELSE Slotted(now + 1)

\* Time advances.
RunAdvance ==
  /\ RunDry /\ nbas = <<>> /\ RunTimes # {} /\ delta' = 0
  /\ LET t == Nearest(RunTimes)
         w == Pushed(Wheel, Overflow, t)
         o == Beyond(Overflow, t)
     IN  \/ /\ until = 0 \/ t < until
            /\ active' = Loaded(t, w) /\ Load(t, w, o) /\ GoOn
         \/ /\ until > 0 /\ t >= until /\ Stop("until")
            /\ now' = t /\ wheel' = w /\ overflow' = o /\ UNCHANGED <<active, nbas>>

\* There is nothing left.
RunExhausted ==
  /\ RunDry /\ nbas = <<>> /\ RunTimes = {} /\ Stop("empty")
  /\ UNCHANGED <<wheel, active, overflow, nbas, now, delta>>

\* process_event for the head of the queue, then the check of the delta limit.
RunProcess ==
  /\ mode = "run" /\ active # <<>> /\ active' = Tail(active) /\ callback' = TRUE
  /\ IF delta > MaxDelta THEN Stop("limit") ELSE GoOn
  /\ UNCHANGED <<wheel, overflow, nbas, now, delta, until>>

-----------------------------------------------------------------------------
(* qsim_scheduler_step_delta.                                              *)

\* The head of queue q is processed under delta d; the next delta begins.
StepProcess(q, d) ==
  /\ active' = Tail(q) /\ delta' = OneMore(d) /\ callback' = TRUE
  /\ IF d + 1 > MaxDelta THEN Stop("limit") ELSE GoOn
  /\ UNCHANGED until

CanStep == "delta" \in client.api /\ mode = "idle" /\ ~done

StepActive ==
  /\ CanStep /\ active # <<>> /\ StepProcess(active, delta)
  /\ UNCHANGED <<wheel, overflow, nbas, now>>

\* Nothing is active: the next time on the wheel, the present one included; else
\* the first of the overflow list; else the present with its NBAs.
StepAdvance ==
  /\ CanStep /\ active = <<>>
  /\ \/ /\ Slotted(now) # {}
        /\ LET t == Nearest(Slotted(now))
           IN  StepProcess(Loaded(t, Wheel), 0) /\ Load(t, Wheel, Overflow)
     \/ /\ Slotted(now) = {} /\ Overflow # <<>>
        /\ LET t == Overflow[1].time
               w == Pushed(Wheel, Overflow, t)
           IN  StepProcess(Loaded(t, w), 0) /\ Load(t, w, Beyond(Overflow, t))
     \/ /\ Slotted(now) = {} /\ Overflow = <<>> /\ nbas # <<>>
        /\ StepProcess(Loaded(now, Wheel), delta) /\ Load(now, Wheel, Overflow)

StepExhausted ==
  /\ CanStep /\ active = <<>> /\ nbas = <<>> /\ Slotted(now) = {} /\ Overflow = <<>>
  /\ Stop("empty") /\ callback' = FALSE
  /\ UNCHANGED <<wheel, active, overflow, nbas, now, delta, until>>

-----------------------------------------------------------------------------
(* qsim_scheduler_step_time.                                               *)

Time ==
  /\ "time" \in client.api /\ mode = "idle" /\ ~done /\ mode' = "time" /\ callback' = FALSE
  /\ UNCHANGED <<wheel, active, overflow, nbas, now, delta, done, until, cause>>

TimeProcess ==
  /\ mode = "time" /\ active # <<>> /\ active' = Tail(active) /\ callback' = TRUE
  /\ UNCHANGED <<wheel, overflow, nbas, now, delta, done, mode, until, cause>>

\* What was active is processed, and the call comes back after one more thing.
TimeReturns ==
  /\ mode = "time" /\ active = <<>> /\ mode' = "idle" /\ callback' = FALSE
  /\ UNCHANGED <<until, done, cause>>

\* It makes the NBAs active as a new delta,
TimeNba ==
  /\ TimeReturns /\ nbas # <<>>
  /\ active' = nbas /\ nbas' = <<>> /\ delta' = OneMore(delta)
  /\ UNCHANGED <<wheel, overflow, now>>

\* Seeded fault: the pending NBAs are forgotten.
TimeAdvanceHasty ==
  /\ TimeReturns /\ Slotted(now + 1) # {} /\ delta' = 0 /\ UNCHANGED nbas
  /\ LET t == Nearest(Slotted(now + 1))
     IN  /\ active' = Wheel[Slot(t)] /\ now' = t /\ overflow' = Overflow
         /\ wheel' = [Wheel EXCEPT ![Slot(t)] = <<>>]

\* or advances time to the next slot, or to the first of the overflow list,
TimeAdvance ==
  /\ TimeReturns /\ nbas = <<>> /\ delta' = 0
  /\ \/ /\ Slotted(now + 1) # {}
        /\ LET t == Nearest(Slotted(now + 1))
           IN  active' = Loaded(t, Wheel) /\ Load(t, Wheel, Overflow)
     \/ /\ Slotted(now + 1) = {} /\ Overflow # <<>>
        /\ LET t == Overflow[1].time
               w == Pushed(Wheel, Overflow, t)
           IN  active' = Loaded(t, w) /\ Load(t, w, Beyond(Overflow, t))

\* or finds nothing.
TimeExhausted ==
  /\ mode = "time" /\ active = <<>> /\ nbas = <<>> /\ Slotted(now + 1) = {} /\ Overflow = <<>>
  /\ Stop("empty") /\ callback' = FALSE
  /\ UNCHANGED <<wheel, active, overflow, nbas, now, delta, until>>

-----------------------------------------------------------------------------

Engine ==
  /\ \/ RunNba \/ RunAdvance \/ RunExhausted \/ RunProcess
     \/ TimeProcess \/ TimeNba \/ TimeAdvance \/ TimeExhausted
  /\ UNCHANGED client

Schedule(e) == (SignalUpdate(e) \/ NbaUpdate(e)) /\ UNCHANGED client

Call ==
  (Run \/ Time \/ StepActive \/ StepAdvance \/ StepExhausted) /\ UNCHANGED client

Next == Engine \/ Call \/ \E e \in Events : Schedule(e)

Spec == Init /\ [][Next]_vars

\* A call that has begun goes on: the scheduler is sequential code.
FairSpec == Spec /\ WF_vars(Engine)

-----------------------------------------------------------------------------
(* Properties.                                                             *)

\* Every variable has its type.
TypeOK ==
  /\ client \in Clients
  /\ wheel \in [Slots -> Seq(Events)] /\ active \in Seq(Events)
  /\ overflow \in Seq(Events) /\ nbas \in Seq(Events)
  /\ now \in 0 .. MaxTime /\ delta \in 0 .. MaxDelta + 1 /\ done \in BOOLEAN
  /\ mode \in {"idle", "run", "time"} /\ until \in 0 .. MaxTime /\ callback \in BOOLEAN
  /\ cause \in {"none", "empty", "until", "limit"} /\ (done <=> cause # "none")

\* Every event is delivered once, and none after its time, whatever calls are mixed; an
\* update of the present time and a signal update less than one turn of the wheel ahead
\* are delivered exactly at theirs ("Schedule a signal update at (time, ...)"). Time goes
\* on only when nothing is pending for the present, and the simulation is over by itself
\* only when nothing is pending at all.
T == INSTANCE Timeline WITH
       Early <- {e \in Events : e.early}, pending <- Pending, done <- (cause = "empty")
IsTimeline == T!Spec

\* A run comes back, unless its callbacks go on scheduling signal updates at the
\* present time: a loop of NBAs ends at the delta limit ("Set maximum delta cycles
\* before detecting zero-delay loop").
ZeroDelay == \E e \in Events : e.time = now /\ ~e.nba /\ Schedule(e)
RunReturns == []<><<ZeroDelay>>_vars \/ (mode = "run" ~> mode = "idle")
=============================================================================
