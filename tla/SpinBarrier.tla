---------------------------- MODULE SpinBarrier -----------------------------
(***************************************************************************)
(* The sense-reversing spin barrier of the Windows build                   *)
(* (libqsim/src/sim_thread.c), one action per access to shared memory.     *)
(* count and sense are volatile and the decrement is a full fence, so the  *)
(* accesses happen in program order (on x86, the build's target).          *)
(***************************************************************************)
EXTENDS Integers, FiniteSets

CONSTANT Threads   \* the leader and the workers: threshold is their number

ASSUME ThreadsAssumption == IsFiniteSet(Threads) /\ Threads # {}

VARIABLES
  count,   \* b->count
  sense,   \* b->sense
  local,   \* local_sense of each thread's call
  pc       \* where each thread is in sim_barrier_wait

vars == <<count, sense, local, pc>>

threshold == Cardinality(Threads)

\* sim_barrier_init.
Init ==
  /\ count = threshold /\ sense = FALSE
  /\ local = [t \in Threads |-> FALSE] /\ pc = [t \in Threads |-> "outside"]

\* The call begins: b->sense is read.
Call(t) ==
  /\ pc[t] = "outside" /\ pc' = [pc EXCEPT ![t] = "decrement"]
  /\ local' = [local EXCEPT ![t] = sense]
  /\ UNCHANGED <<count, sense>>

\* _InterlockedDecrement, and the branch on its result.
Decrement(t) ==
  /\ pc[t] = "decrement" /\ count' = count - 1
  /\ pc' = [pc EXCEPT ![t] = IF count - 1 = 0 THEN "reset" ELSE "spin"]
  /\ UNCHANGED <<sense, local>>

\* Seeded fault: the count restarts one short.
ResetShort(t) ==
  /\ pc[t] = "reset" /\ count' = threshold - 1 /\ pc' = [pc EXCEPT ![t] = "flip"]
  /\ UNCHANGED <<sense, local>>

\* The last to arrive: b->count = b->threshold.
Reset(t) ==
  /\ pc[t] = "reset" /\ count' = threshold /\ pc' = [pc EXCEPT ![t] = "flip"]
  /\ UNCHANGED <<sense, local>>

\* Seeded fault: the sense is set, not reversed.
FlipOnce(t) ==
  /\ pc[t] = "flip" /\ sense' = TRUE /\ pc' = [pc EXCEPT ![t] = "return"]
  /\ UNCHANGED <<count, local>>

\* Then b->sense = !local_sense, which releases the others.
Flip(t) ==
  /\ pc[t] = "flip" /\ sense' = ~local[t] /\ pc' = [pc EXCEPT ![t] = "return"]
  /\ UNCHANGED <<count, local>>

\* One read of b->sense: the spinning ends, or goes on.
Spin(t) ==
  /\ pc[t] = "spin"
  /\ pc' = [pc EXCEPT ![t] = IF sense # local[t] THEN "return" ELSE "spin"]
  /\ UNCHANGED <<count, sense, local>>

\* The call returns.
Return(t) ==
  /\ pc[t] = "return" /\ pc' = [pc EXCEPT ![t] = "outside"]
  /\ UNCHANGED <<count, sense, local>>

\* The steps of a call that has begun.
InWait(t) == Decrement(t) \/ Reset(t) \/ Flip(t) \/ Spin(t) \/ Return(t)

Next == \E t \in Threads : Call(t) \/ InWait(t)

Spec == Init /\ [][Next]_vars

\* Threads are scheduled; whether one calls wait again is its own affair.
FairSpec == Spec /\ \A t \in Threads : WF_vars(InWait(t))

-----------------------------------------------------------------------------
(* Properties.                                                             *)

\* The threads that have arrived at the round under way.
Arrived == {t \in Threads : pc[t] \in {"reset", "flip"} \/ (pc[t] = "spin" /\ local[t] = sense)}

\* Every variable has its type.
TypeOK ==
  /\ count \in 0 .. threshold /\ sense \in BOOLEAN
  /\ local \in [Threads -> BOOLEAN]
  /\ pc \in [Threads -> {"outside", "decrement", "reset", "flip", "spin", "return"}]

\* The count is what is missing from the round under way: no arrival of a fast
\* thread's next call is charged to this round, none of this round is lost when
\* the count is reset (sim_barrier_wait).
CountIsMissing ==
  IF \E t \in Threads : pc[t] = "flip" THEN count = threshold /\ Arrived = Threads
  ELSE count = threshold - Cardinality(Arrived)

\* While the last thread resets the barrier everybody else is spinning in the
\* same round: nobody decrements the count between the test for zero and the
\* reset (sim_barrier_wait, which takes no lock).
LastIsAlone ==
  \A t \in Threads : pc[t] \in {"reset", "flip"} =>
    Arrived = Threads /\ \A u \in Threads \ {t} : pc[u] = "spin"

\* A thread about to arrive holds the current sense: it cannot mistake the
\* release of the round before for its own.
FreshSense ==
  \A t \in Threads : pc[t] \in {"decrement", "reset", "flip"} => local[t] = sense

\* Where each thread is with respect to its call of wait.
Phase(t) ==
  CASE pc[t] \in {"outside", "decrement"} -> "outside"
    [] pc[t] \in {"reset", "flip"} -> "waiting"
    [] pc[t] = "spin" -> IF local[t] = sense THEN "waiting" ELSE "released"
    [] pc[t] = "return" -> "released"

R == INSTANCE Rendezvous WITH at <- [t \in Threads |-> Phase(t)]

\* No call returns before every thread has made its own, then all may return:
\* the spin barrier implements the rendezvous (sim_barrier_wait).
IsRendezvous == R!Spec

\* Nobody spins for ever in a round that everybody has entered.
RoundCompletes ==
  (\A t \in Threads : Phase(t) = "waiting") ~> (\A t \in Threads : Phase(t) # "waiting")
=============================================================================
