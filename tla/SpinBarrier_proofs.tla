------------------------ MODULE SpinBarrier_proofs -------------------------
(***************************************************************************)
(* The spin barrier implements the rendezvous, for any number of threads.  *)
(*                                                                         *)
(* The inductive invariant has four parts: the types, the count that      *)
(* equals what is missing from the round (CountIsMissing), the fresh       *)
(* sense of every thread about to arrive (FreshSense) and the solitude of  *)
(* the last one (LastIsAlone).  A thread that takes the count to zero has, *)
(* by CountIsMissing, seen all others arrive; until it flips the sense     *)
(* nobody else moves, so the reset cannot lose an arrival.                 *)
(***************************************************************************)
EXTENDS SpinBarrier, FiniteSetTheorems, TLAPS

BarrierInv == TypeOK /\ CountIsMissing /\ FreshSense /\ LastIsAlone

\* The number of threads is a positive natural number.
LEMMA Threshold == threshold \in Nat \ {0}
  BY ThreadsAssumption, FS_CardinalityType, FS_EmptySet DEF threshold

\* What the count says about the threads that have arrived.
LEMMA ArrivedCount ==
  /\ IsFiniteSet(Arrived) /\ Cardinality(Arrived) \in 0 .. threshold
  /\ Cardinality(Arrived) = threshold <=> Arrived = Threads
<1>1. Arrived \subseteq Threads
  BY DEF Arrived
<1>2. /\ IsFiniteSet(Arrived) /\ Cardinality(Arrived) <= threshold
      /\ Cardinality(Arrived) = threshold => Arrived = Threads
  BY <1>1, ThreadsAssumption, FS_Subset DEF threshold
<1>3. Cardinality(Arrived) \in Nat
  BY <1>2, FS_CardinalityType
<1>. QED
  BY <1>2, <1>3, Threshold DEF threshold

\* The barrier is created empty.
LEMMA InitInv == Init => BarrierInv
<1>. SUFFICES ASSUME Init PROVE BarrierInv
  OBVIOUS
<1>1. \A t \in Threads : pc[t] = "outside"
  BY DEF Init
<1>2. Arrived = {}
  BY <1>1 DEF Arrived
<1>3. Cardinality(Arrived) = 0
  BY <1>2, FS_EmptySet
<1>4. TypeOK
  <2>1. count \in 0 .. threshold
    BY Threshold DEF Init
  <2>. QED
    BY <2>1 DEF Init, TypeOK
<1>5. CountIsMissing
  BY <1>1, <1>3, Threshold DEF Init, CountIsMissing
<1>. QED
  BY <1>1, <1>4, <1>5 DEF BarrierInv, FreshSense, LastIsAlone

\* A call begins with the sense of the round it will join.
LEMMA CallInv == ASSUME BarrierInv, NEW t \in Threads, Call(t) PROVE BarrierInv'
<1>. USE DEF BarrierInv
<1>1. /\ t \notin Arrived /\ Arrived' = Arrived
      /\ \A u \in Threads : pc[u] \notin {"reset", "flip"}
  BY DEF TypeOK, LastIsAlone, Call, Arrived
<1>2. CountIsMissing'
  BY <1>1 DEF TypeOK, CountIsMissing, Call, threshold
<1>. QED
  BY <1>1, <1>2 DEF TypeOK, FreshSense, LastIsAlone, Call, threshold

\* An arrival is one thread more in the round.
LEMMA DecrementInv == ASSUME BarrierInv, NEW t \in Threads, Decrement(t) PROVE BarrierInv'
<1>. USE DEF BarrierInv
<1>1. t \notin Arrived /\ Arrived' = Arrived \cup {t}
  BY DEF TypeOK, FreshSense, Decrement, Arrived
<1>2. \A u \in Threads : pc[u] \notin {"reset", "flip"}
  BY <1>1 DEF LastIsAlone
<1>3. Cardinality(Arrived') = Cardinality(Arrived) + 1
  BY <1>1, ArrivedCount, FS_AddElement
<1>4. count = threshold - Cardinality(Arrived)
  BY <1>2 DEF CountIsMissing
<1>5. Cardinality(Arrived) \in 0 .. threshold - 1
  BY <1>1, ArrivedCount, Threshold
<1>6. \A u \in Threads : pc'[u] # "flip"
  BY <1>2 DEF TypeOK, Decrement
<1>7. threshold' = threshold /\ count' = threshold - Cardinality(Arrived')
  BY <1>3, <1>4, <1>5, Threshold DEF Decrement, threshold
<1>8. count - 1 = 0 => Arrived' = Threads
  BY <1>3, <1>4, <1>5, <1>1, ArrivedCount, FS_AddElement, FS_Subset, Threshold, ThreadsAssumption
     DEF Arrived, threshold
<1>9. TypeOK'
  BY <1>4, <1>5, <1>7, Threshold DEF TypeOK, Decrement
<1>10. CountIsMissing'
  BY <1>6, <1>7 DEF CountIsMissing
<1>11. FreshSense'
  BY <1>2 DEF TypeOK, FreshSense, Decrement
<1>12. LastIsAlone'
  BY <1>2, <1>8 DEF TypeOK, LastIsAlone, Decrement, Arrived
<1>. QED
  BY <1>9, <1>10, <1>11, <1>12

\* The reset: everybody else spins in the same round.
LEMMA ResetInv == ASSUME BarrierInv, NEW t \in Threads, Reset(t) PROVE BarrierInv'
<1>. USE DEF BarrierInv
<1>1. Arrived = Threads /\ Arrived' = Arrived
  BY DEF TypeOK, LastIsAlone, Reset, Arrived
<1>2. pc'[t] = "flip" /\ count' = threshold /\ threshold' = threshold
  BY DEF TypeOK, Reset, threshold
<1>3. TypeOK'
  BY <1>2, Threshold DEF TypeOK, Reset
<1>. QED
  BY <1>1, <1>2, <1>3 DEF TypeOK, CountIsMissing, FreshSense, LastIsAlone, Reset

\* The flip: the round is over for everybody at once.
LEMMA FlipInv == ASSUME BarrierInv, NEW t \in Threads, Flip(t) PROVE BarrierInv'
<1>. USE DEF BarrierInv
<1>1. \A u \in Threads : local[u] = sense /\ (u # t => pc[u] = "spin")
  BY DEF LastIsAlone, FreshSense, Flip, Arrived
<1>2. \A u \in Threads : local'[u] # sense' /\ pc'[u] \in {"spin", "return"}
  BY <1>1 DEF TypeOK, Flip
<1>3. Cardinality(Arrived') = 0
  BY <1>2, FS_EmptySet DEF Arrived
<1>4. count' = threshold /\ threshold' = threshold
  BY DEF CountIsMissing, Flip, threshold
<1>5. TypeOK'
  BY <1>4 DEF TypeOK, Flip
<1>. QED
  BY <1>2, <1>3, <1>4, <1>5, Threshold DEF CountIsMissing, FreshSense, LastIsAlone

\* Spinning on, or out: the thread that leaves was not in the round any more.
LEMMA SpinInv == ASSUME BarrierInv, NEW t \in Threads, Spin(t) PROVE BarrierInv'
<1>. USE DEF BarrierInv
<1>1. Arrived' = Arrived /\ (sense # local[t] => t \notin Arrived)
  BY DEF TypeOK, Spin, Arrived
<1>2. \A u \in Threads : pc[u] = "flip" <=> pc'[u] = "flip"
  BY DEF TypeOK, Spin
<1>3. CountIsMissing'
  BY <1>1, <1>2 DEF CountIsMissing, Spin, threshold
<1>. QED
  BY <1>1, <1>3 DEF TypeOK, FreshSense, LastIsAlone, Spin, threshold

\* A return changes nothing for the others.
LEMMA ReturnInv == ASSUME BarrierInv, NEW t \in Threads, Return(t) PROVE BarrierInv'
<1>. USE DEF BarrierInv
<1>1. Arrived' = Arrived /\ t \notin Arrived
  BY DEF TypeOK, Return, Arrived
<1>2. \A u \in Threads : pc[u] = "flip" <=> pc'[u] = "flip"
  BY DEF TypeOK, Return
<1>3. CountIsMissing'
  BY <1>1, <1>2 DEF CountIsMissing, Return, threshold
<1>. QED
  BY <1>1, <1>3 DEF TypeOK, FreshSense, LastIsAlone, Return, threshold

\* The invariant holds of every reachable state.
LEMMA Inductive == Spec => []BarrierInv
<1>1. ASSUME BarrierInv, [Next]_vars PROVE BarrierInv'
  <2>1. CASE Next
    BY <1>1, <2>1, CallInv, DecrementInv, ResetInv, FlipInv, SpinInv, ReturnInv DEF Next, InWait
  <2>2. CASE UNCHANGED vars
    BY <1>1, <2>2 DEF vars, BarrierInv, TypeOK, CountIsMissing, FreshSense, LastIsAlone, Arrived, threshold
  <2>. QED
    BY <1>1, <2>1, <2>2
<1>. QED
  BY InitInv, <1>1, PTL DEF Spec

-----------------------------------------------------------------------------

\* Every variable of the spin barrier has its type: the count, in particular,
\* never leaves 0 .. threshold however fast a thread comes back.
THEOREM TypeCorrect == Spec => []TypeOK
  BY Inductive, PTL DEF BarrierInv

\* The count is always what is missing from the round under way.
THEOREM CountIsRight == Spec => []CountIsMissing
  BY Inductive, PTL DEF BarrierInv

\* The last thread to arrive resets the barrier undisturbed.
THEOREM LastIsUndisturbed == Spec => []LastIsAlone
  BY Inductive, PTL DEF BarrierInv

-----------------------------------------------------------------------------
(* The refinement: only Decrement, Flip and Return move the rendezvous.    *)

\* The barrier as the rendezvous sees it.
Seen == [t \in Threads |-> Phase(t)]

\* A step that changes no thread's phase is a stutter.
LEMMA SameSeen ==
  ASSUME \A u \in Threads : Phase(u)' = Phase(u) PROVE Seen' = Seen
  BY DEF Seen

\* The beginning of a call, the reset and the spinning are not seen.
LEMMA QuietSteps ==
  ASSUME BarrierInv, NEW t \in Threads, Call(t) \/ Reset(t) \/ Spin(t)
  PROVE  Seen' = Seen
<1>1. CASE Call(t)
  <2>1. \A u \in Threads : Phase(u)' = Phase(u)
    BY <1>1 DEF BarrierInv, TypeOK, Call, Phase
  <2>. QED
    BY <2>1, SameSeen
<1>2. CASE Reset(t)
  <2>1. \A u \in Threads : Phase(u)' = Phase(u)
    BY <1>2 DEF BarrierInv, TypeOK, Reset, Phase
  <2>. QED
    BY <2>1, SameSeen
<1>3. CASE Spin(t)
  <2>1. \A u \in Threads : Phase(u)' = Phase(u)
    BY <1>3 DEF BarrierInv, TypeOK, Spin, Phase
  <2>. QED
    BY <2>1, SameSeen
<1>. QED
  BY <1>1, <1>2, <1>3

\* The decrement is the arrival.
LEMMA DecrementArrives ==
  ASSUME BarrierInv, NEW t \in Threads, Decrement(t) PROVE R!Arrive(t)
<1>1. Phase(t) = "outside" /\ Phase(t)' = "waiting"
  BY DEF BarrierInv, TypeOK, FreshSense, Decrement, Phase
<1>2. \A u \in Threads \ {t} : Phase(u)' = Phase(u)
  BY DEF BarrierInv, TypeOK, Decrement, Phase
<1>. QED
  BY <1>1, <1>2 DEF R!Arrive

\* The flip releases everybody.
LEMMA FlipReleases ==
  ASSUME BarrierInv, NEW t \in Threads, Flip(t) PROVE R!Release
<1>1. \A u \in Threads : local[u] = sense /\ (u # t => pc[u] = "spin")
  BY DEF BarrierInv, LastIsAlone, FreshSense, Flip, Arrived
<1>2. \A u \in Threads : Phase(u) = "waiting"
  BY <1>1 DEF Flip, Phase
<1>3. \A u \in Threads : Phase(u)' = "released"
  BY <1>1 DEF BarrierInv, TypeOK, Flip, Phase
<1>. QED
  BY <1>2, <1>3 DEF R!Release

\* The return is the leaving.
LEMMA ReturnLeaves ==
  ASSUME BarrierInv, NEW t \in Threads, Return(t) PROVE R!Leave(t)
<1>1. Phase(t) = "released" /\ Phase(t)' = "outside"
  BY DEF BarrierInv, TypeOK, Return, Phase
<1>2. \A u \in Threads \ {t} : Phase(u)' = Phase(u)
  BY DEF BarrierInv, TypeOK, Return, Phase
<1>. QED
  BY <1>1, <1>2 DEF R!Leave

\* No call of sim_barrier_wait returns before every thread has made its own:
\* the spin barrier implements the rendezvous, whatever the number of threads.
THEOREM ImplementsRendezvous == Spec => IsRendezvous
<1>1. Init => R!Init
  BY DEF Init, R!Init, Phase
<1>2. ASSUME BarrierInv, [Next]_vars PROVE [R!Next]_Seen
  <2>1. ASSUME NEW t \in Threads, Call(t) \/ InWait(t) PROVE [R!Next]_Seen
    BY <1>2, <2>1, QuietSteps, DecrementArrives, FlipReleases, ReturnLeaves DEF InWait, R!Next
  <2>2. CASE UNCHANGED vars
    <3>1. \A u \in Threads : Phase(u)' = Phase(u)
      BY <2>2 DEF vars, Phase
    <3>. QED
      BY <3>1, SameSeen
  <2>. QED
    BY <1>2, <2>1, <2>2 DEF Next
<1>. QED
  BY <1>1, <1>2, Inductive, PTL DEF Spec, IsRendezvous, R!Spec, Seen
=============================================================================
