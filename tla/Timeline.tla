------------------------------ MODULE Timeline ------------------------------
(***************************************************************************)
(* What a discrete-event scheduler promises: events are delivered one by   *)
(* one, each exactly at its time or, where that is allowed, before it, and *)
(* time advances only when nothing is left to deliver at the present one.  *)
(***************************************************************************)
EXTENDS Naturals

CONSTANTS
  Events,    \* records with a field time, and an id that tells them apart
  Early,     \* those that may be delivered before their time
  MaxTime

VARIABLES
  pending,   \* the events scheduled and not delivered
  now,       \* the time
  done       \* the simulation is over

vars == <<pending, now, done>>

Init == pending = {} /\ now = 0 /\ done = FALSE

Schedule(e) ==
  /\ e.time >= now /\ \A f \in pending : f.id # e.id
  /\ pending' = pending \cup {e} /\ UNCHANGED <<now, done>>

\* An event is delivered, and nothing that is still pending was due before.
Deliver(e) ==
  /\ ~done /\ e \in pending /\ pending' = pending \ {e}
  /\ now' \in now .. e.time /\ (e \notin Early => now' = e.time)
  /\ \A f \in pending' : f.time >= now'
  /\ done' \in BOOLEAN

\* Time may advance before, in several steps.
Advance ==
  /\ ~done /\ \A e \in pending : e.time > now
  /\ now' \in now + 1 .. MaxTime /\ \A e \in pending : e.time >= now'
  /\ UNCHANGED <<pending, done>>

Finish == pending = {} /\ done' = TRUE /\ UNCHANGED <<pending, now>>

Next == Advance \/ Finish \/ \E e \in Events : Schedule(e) \/ Deliver(e)

Spec == Init /\ [][Next]_vars
=============================================================================
