------------------------- MODULE WorkerPool_proofs --------------------------
(***************************************************************************)
(* The worker pool is safe for any number of workers.                      *)
(*                                                                         *)
(* Every thread alternates between the two calls of wait.  It is in its    *)
(* second half from the moment the first barrier releases it until the     *)
(* second one does.  A barrier releases all threads in one step, so all    *)
(* live threads are in the same half (SameHalf): this is the invariant     *)
(* from which the rest follows.  The leader's serial code is first half,   *)
(* a worker's work is second half, so they never meet; the phase is        *)
(* written in the first half only, so nobody works on a stale one.         *)
(***************************************************************************)
EXTENDS WorkerPool, TLAPS

Second(t) ==
  \/ pc[t] = "gate" /\ at[t] = "released"
  \/ pc[t] \in {"look", "work", "reap"}
  \/ pc[t] = "join" /\ at[t] # "released"

\* Only threads at a barrier are in wait.
Outside == \A t \in Threads : pc[t] \notin {"gate", "join"} => at[t] = "outside"

\* A worker that has not exited is in the half the leader is in.
SameHalf ==
  \A w \in Workers : pc[w] # "exited" => (Second(w) <=> Second(Leader))

\* What the phase is, by where the threads are.
PhaseOf ==
  /\ pc[Leader] = "gate" => phase \in Phases \cup {"exit"}
  /\ pc[Leader] \in {"work", "join"} => phase \in Phases
  /\ pc[Leader] = "reap" => phase = "exit"
  /\ \A w \in Workers : pc[w] = "work" => phase \in Phases
  /\ \A w \in Workers : pc[w] = "exited" =>
       phase = "exit" /\ pc[Leader] \in {"gate", "reap", "gone"}
       /\ (pc[Leader] = "gate" => at[Leader] = "released")

\* Who has run the phase under way.
RanOf ==
  /\ pc[Leader] = "gate" /\ at[Leader] # "released" /\ phase # "exit" => ran = {}
  /\ \A t \in Threads : Second(t) /\ pc[t] # "join" /\ phase # "exit" => t \notin ran
  /\ \A t \in Threads : pc[t] = "join" /\ at[t] # "released" => t \in ran
  /\ pc[Leader] = "join" /\ at[Leader] = "released" => ran = Threads

PoolInv == TypeOK /\ Outside /\ SameHalf /\ PhaseOf /\ RanOf /\ (~created => \A w \in Workers : pc[w] = "absent")

LEMMA Roles == Leader \in Threads /\ Workers \subseteq Threads /\ Leader \notin Workers
  BY PoolAssumption DEF Threads

LEMMA InitInv == Init => PoolInv
  BY Roles DEF Init, Barrier!Init, PoolInv, TypeOK, Outside, SameHalf, PhaseOf, RanOf,
     Second, Serial, WorkerPlaces, Phases, Barrier!Places

\* A call of wait, first or second, stays in its half.
LEMMA CallInv == ASSUME PoolInv, NEW t \in Threads, Call(t) PROVE PoolInv'
<1>. USE Roles DEF PoolInv, Call, Barrier!Arrive
<1>1. /\ at[t] = "outside" /\ pc[t] \in {"gate", "join"} /\ pc' = pc /\ at'[t] = "waiting"
      /\ \A u \in Threads \ {t} : at'[u] = at[u]
  BY DEF TypeOK
<1>2. \A u \in Threads : Second(u)' <=> Second(u)
  BY <1>1 DEF Second
<1>3. TypeOK' /\ Outside'
  BY <1>1 DEF TypeOK, Outside, Barrier!Places
<1>4. SameHalf'
  BY <1>2 DEF SameHalf
<1>5. PhaseOf'
  BY <1>1 DEF PhaseOf
<1>6. RanOf'
  BY <1>1, <1>2 DEF RanOf
<1>. QED
  BY <1>3, <1>4, <1>5, <1>6

\* The barrier opens: all threads change halves together.
LEMMA AllReturnInv == ASSUME PoolInv, AllReturn PROVE PoolInv'
<1>. USE Roles DEF PoolInv, AllReturn, Barrier!Release
<1>1. \A t \in Threads : at[t] = "waiting" /\ at'[t] = "released" /\ pc[t] \in {"gate", "join"}
  BY DEF Outside
<1>2. \A t \in Threads : pc[t] = pc[Leader]
  BY <1>1 DEF SameHalf, Second, Threads
<1>3. \A t \in Threads : Second(t)' <=> pc[Leader] = "gate"
  BY <1>1, <1>2 DEF Second
<1>4. TypeOK' /\ Outside'
  BY <1>1 DEF TypeOK, Outside, Barrier!Places
<1>5. SameHalf'
  BY <1>3 DEF SameHalf
<1>6. PhaseOf'
  BY <1>1 DEF PhaseOf
<1>7. ran \subseteq Threads
  BY DEF TypeOK
<1>8. RanOf'
  BY <1>1, <1>2, <1>3, <1>7 DEF RanOf
<1>. QED
  BY <1>4, <1>5, <1>6, <1>8

\* Past the first barrier.
LEMMA EnterInv == ASSUME PoolInv, NEW t \in Threads, Enter(t) PROVE PoolInv'
<1>. USE Roles DEF PoolInv, Enter, Barrier!Leave, Go
<1>1. /\ pc[t] = "gate" /\ at[t] = "released" /\ at'[t] = "outside"
      /\ pc'[t] = IF t # Leader THEN "look" ELSE IF phase = "exit" THEN "reap" ELSE "work"
      /\ \A u \in Threads \ {t} : at'[u] = at[u] /\ pc'[u] = pc[u]
  BY DEF TypeOK
<1>2. \A u \in Threads : Second(u)' <=> Second(u)
  BY <1>1 DEF Second
<1>3. TypeOK' /\ Outside'
  BY <1>1 DEF TypeOK, Outside, Barrier!Places, Serial, WorkerPlaces
<1>4. SameHalf'
  BY <1>1, <1>2 DEF SameHalf
<1>5. PhaseOf'
  BY <1>1 DEF PhaseOf, Phases
<1>6. RanOf'
  BY <1>1, <1>2 DEF RanOf, Second
<1>. QED
  BY <1>3, <1>4, <1>5, <1>6

\* Past the second barrier.
LEMMA LeaveInv == ASSUME PoolInv, NEW t \in Threads, Leave(t) PROVE PoolInv'
<1>. USE Roles DEF PoolInv, Leave, Barrier!Leave, Go
<1>1. /\ pc[t] = "join" /\ at[t] = "released" /\ at'[t] = "outside"
      /\ pc'[t] = IF t = Leader THEN After(phase) ELSE "gate"
      /\ \A u \in Threads \ {t} : at'[u] = at[u] /\ pc'[u] = pc[u]
  BY DEF TypeOK
<1>2. t = Leader => pc'[t] \in {"settled", "evaluated", "triggered"}
  BY <1>1 DEF PhaseOf, Phases, After
<1>3. \A u \in Threads : Second(u)' <=> Second(u)
  BY <1>1, <1>2 DEF Second
<1>4. TypeOK' /\ Outside'
  BY <1>1, <1>2 DEF TypeOK, Outside, Barrier!Places, Serial, WorkerPlaces
<1>5. SameHalf'
  BY <1>1, <1>2, <1>3 DEF SameHalf
<1>6. PhaseOf'
  BY <1>1, <1>2 DEF PhaseOf
<1>7. ~Second(t)
  BY <1>1 DEF Second
<1>8. RanOf'
  BY <1>1, <1>2, <1>3, <1>7 DEF RanOf
<1>. QED
  BY <1>4, <1>5, <1>6, <1>8

\* The work of a phase is second half.
LEMMA WorkInv == ASSUME PoolInv, NEW t \in Threads, Work(t) PROVE PoolInv'
<1>. USE Roles DEF PoolInv, Work, Go
<1>1. /\ pc[t] = "work" /\ pc'[t] = "join" /\ at[t] = "outside" /\ at' = at
      /\ \A u \in Threads \ {t} : pc'[u] = pc[u]
  BY DEF TypeOK, Outside
<1>2. \A u \in Threads : Second(u)' <=> Second(u)
  BY <1>1 DEF Second
<1>3. pc[Leader] = "gate" => at[Leader] = "released"
  BY <1>1 DEF SameHalf, Second, Threads
<1>4. TypeOK' /\ Outside'
  BY <1>1 DEF TypeOK, Outside, Serial, WorkerPlaces
<1>5. SameHalf'
  BY <1>1, <1>2 DEF SameHalf
<1>6. PhaseOf'
  BY <1>1 DEF PhaseOf
<1>7. RanOf'
  BY <1>1, <1>2, <1>3 DEF RanOf, TypeOK, SameHalf, Second, Threads
<1>. QED
  BY <1>4, <1>5, <1>6, <1>7

\* So is the look at the phase, which is then the leader's.
LEMMA LookInv == ASSUME PoolInv, NEW w \in Workers, Look(w) PROVE PoolInv'
<1>. USE Roles DEF PoolInv, Look, Go
<1>1. /\ pc[w] = "look" /\ pc'[w] = IF phase = "exit" THEN "exited" ELSE "work"
      /\ at' = at /\ at[w] = "outside" /\ \A u \in Threads \ {w} : pc'[u] = pc[u]
  BY DEF TypeOK, Outside
<1>2. \A u \in Threads \ {w} : Second(u)' <=> Second(u)
  BY <1>1 DEF Second
<1>3. pc'[w] = "work" => Second(w)'
  BY <1>1 DEF Second
<1>4. Second(w) /\ Second(Leader)
  BY <1>1 DEF SameHalf, Second
<1>5. pc[Leader] \in {"gate", "work", "join", "reap"} /\ (pc[Leader] = "gate" => at[Leader] = "released")
  BY <1>4 DEF TypeOK, Second, Serial
<1>6. TypeOK' /\ Outside'
  BY <1>1 DEF TypeOK, Outside, Serial, WorkerPlaces
<1>7. SameHalf'
  BY <1>1, <1>2, <1>3, <1>4 DEF SameHalf
<1>8. phase \in Phases \cup {"exit"}
  BY <1>5 DEF PhaseOf
<1>9. PhaseOf'
  BY <1>1, <1>5, <1>8 DEF PhaseOf, Phases
<1>10. phase # "exit" => w \notin ran
  BY <1>1, <1>4 DEF RanOf
<1>11. RanOf'
  BY <1>1, <1>2, <1>10 DEF RanOf
<1>. QED
  BY <1>6, <1>7, <1>9, <1>11

\* What the leader does alone is first half, for everybody.
LEMMA LeadInv == ASSUME PoolInv, Lead, pc[Leader] # "reap" PROVE PoolInv'
<1>. USE Roles DEF PoolInv
<1>1. pc[Leader] \in Serial /\ at' = at
  BY DEF Lead, Go, SetThreadCount, RunBegin, RunCreates, FallBack, Batch, StartPhase,
     BatchDone, RunEnd, Destroy, Reap, Serial
<1>2. ~Second(Leader) /\ \A w \in Workers : ~Second(w)
  <2>1. ~Second(Leader)
    BY <1>1 DEF Second, Serial
  <2>. QED
    BY <2>1 DEF SameHalf, Second
<1>3. pc'[Leader] \in Serial \cup {"gate"} /\ at[Leader] = "outside"
  BY <1>1 DEF TypeOK, Outside, Lead, Go, SetThreadCount, RunBegin, RunCreates, FallBack, Batch,
     StartPhase, BatchDone, RunEnd, Destroy, Reap, Serial
<1>4. \A w \in Workers : pc'[w] # pc[w] => pc[w] = "absent" /\ pc'[w] = "gate"
  BY DEF TypeOK, Lead, Go, SetThreadCount, RunBegin, RunCreates, FallBack, Batch,
     StartPhase, BatchDone, RunEnd, Destroy, Reap
<1>5. \A w \in Workers : pc[w] = "exited" => pc[Leader] = "gone"
  BY <1>1 DEF PhaseOf, Serial
<1>6. pc[Leader] # "gone"
  BY DEF Lead, Go, SetThreadCount, RunBegin, RunCreates, FallBack, Batch,
     StartPhase, BatchDone, RunEnd, Destroy, Reap
<1>7. TypeOK'
  BY <1>4 DEF TypeOK, Lead, Go, SetThreadCount, RunBegin, RunCreates, FallBack, Batch,
     StartPhase, BatchDone, RunEnd, Destroy, Reap, Serial, WorkerPlaces, Phases, Threads
<1>8. Outside'
  BY <1>1, <1>3, <1>4, <1>7 DEF Outside, TypeOK, Threads
<1>9. SameHalf'
  BY <1>1, <1>2, <1>3, <1>4 DEF SameHalf, Second, Outside, Serial
<1>10. PhaseOf'
  <2>1. pc'[Leader] = "gate" => phase' \in Phases \cup {"exit"}
    BY <1>1, <1>6 DEF Lead, Go, SetThreadCount, RunBegin, RunCreates, FallBack, Batch,
       StartPhase, BatchDone, RunEnd, Destroy, Reap, Phases, Serial, TypeOK
  <2>2. \A w \in Workers : pc'[w] \notin {"work", "exited"}
    BY <1>2, <1>4, <1>5, <1>6 DEF Second
  <2>. QED
    BY <1>3, <2>1, <2>2 DEF PhaseOf, Serial
<1>11. RanOf'
  <2>1. pc'[Leader] = "gate" => ran' = {} \/ phase' = "exit"
    BY <1>1, <1>6 DEF Lead, Go, SetThreadCount, RunBegin, RunCreates, FallBack, Batch,
       StartPhase, BatchDone, RunEnd, Destroy, Reap, Serial, TypeOK
  <2>. QED
    BY <1>1, <1>2, <1>3, <1>4, <2>1 DEF RanOf, Second, Outside, Serial, Threads
<1>12. ~created' => \A w \in Workers : pc'[w] = "absent"
  BY DEF Lead, Go, SetThreadCount, RunBegin, RunCreates, FallBack, Batch,
     StartPhase, BatchDone, RunEnd, Destroy, Reap, TypeOK
<1>. QED
  BY <1>7, <1>8, <1>9, <1>10, <1>11, <1>12

\* The context is freed when every worker has ended.
LEMMA ReapInv == ASSUME PoolInv, Reap PROVE PoolInv'
<1>. USE Roles DEF PoolInv, Reap, Go
<1>1. /\ pc[Leader] = "reap" /\ pc'[Leader] = "gone" /\ at' = at /\ ran' = ran /\ phase' = "exit"
      /\ \A w \in Workers : pc'[w] = pc[w] /\ pc[w] = "exited"
  BY DEF TypeOK, PhaseOf, Dead, SameHalf, Second
<1>2. \A t \in Threads : ~Second(t)'
  BY <1>1 DEF Second, Threads
<1>3. TypeOK' /\ Outside'
  BY <1>1 DEF TypeOK, Outside, Serial
<1>4. SameHalf' /\ PhaseOf' /\ RanOf'
  BY <1>1, <1>2 DEF SameHalf, PhaseOf, RanOf, Threads
<1>5. ~created' => \A w \in Workers : pc'[w] = "absent"
  BY <1>1
<1>. QED
  BY <1>3, <1>4, <1>5

\* A step of the leader that starts at the reaping is the reaping.
LEMMA OnlyReap == Lead /\ pc[Leader] = "reap" => Reap
  BY DEF Lead, Go, SetThreadCount, RunBegin, RunCreates, FallBack, Batch, StartPhase,
     BatchDone, RunEnd, Destroy

\* The invariant holds of every reachable state.
LEMMA Inductive == Spec => []PoolInv
<1>1. ASSUME PoolInv, [Next]_vars PROVE PoolInv'
  <2>1. CASE InPhase
    BY <1>1, <2>1, CallInv, AllReturnInv, EnterInv, LeaveInv, WorkInv, LookInv DEF InPhase
  <2>2. CASE Lead
    BY <1>1, <2>2, LeadInv, ReapInv, OnlyReap
  <2>3. CASE UNCHANGED vars
    BY <1>1, <2>3 DEF vars, PoolInv, TypeOK, Outside, SameHalf, PhaseOf, RanOf, Second
  <2>. QED
    BY <1>1, <2>1, <2>2, <2>3 DEF Next
<1>. QED
  BY InitInv, <1>1, PTL DEF Spec

-----------------------------------------------------------------------------

\* Every variable of the pool has its type.
THEOREM TypeCorrect == Spec => []TypeOK
  BY Inductive, PTL DEF PoolInv

\* The leader's serial code never runs while a worker is in a phase.
THEOREM LeaderIsAlone == Spec => []LeaderAlone
<1>1. PoolInv => LeaderAlone
  BY DEF PoolInv, SameHalf, Second, LeaderAlone, Serial
<1>. QED
  BY Inductive, <1>1, PTL

\* No thread works twice on one phase, or on anything but a phase of a batch.
THEOREM PhaseIsRunOnce == Spec => []OncePerPhase
<1>1. PoolInv => OncePerPhase
  <2>1. ASSUME PoolInv, NEW t \in Threads, pc[t] = "work" PROVE t \notin ran /\ phase \in Phases
    <3>1. phase \in Phases
      BY <2>1 DEF PoolInv, PhaseOf, Threads
    <3>. QED
      BY <2>1, <3>1 DEF PoolInv, RanOf, Second, Phases
  <2>. QED
    BY <2>1 DEF OncePerPhase
<1>. QED
  BY Inductive, <1>1, PTL

\* The leader goes on from a phase only when every thread has run it.
THEOREM PhaseIsComplete == Spec => PhaseComplete
<1>1. ASSUME PoolInv, [Next]_vars
      PROVE  [pc[Leader] = "join" /\ pc'[Leader] # "join" => ran = Threads]_vars
  <2>1. ASSUME pc[Leader] = "join", pc'[Leader] # "join" PROVE at[Leader] = "released"
    BY <1>1, <2>1, Roles DEF PoolInv, TypeOK, Next, InPhase, Lead, vars, Go, Call, AllReturn, Enter, Leave,
       Work, Look, SetThreadCount, RunBegin, RunCreates, FallBack, Batch, StartPhase,
       BatchDone, RunEnd, Destroy, Reap, Barrier!Leave
  <2>. QED
    BY <1>1, <2>1 DEF PoolInv, RanOf
<1>. QED
  BY Inductive, <1>1, PTL DEF Spec, PhaseComplete

-----------------------------------------------------------------------------

\* With thread_count left alone once the pool exists, the pool and thread_count
\* agree: without a pool, or with thread_count 1, there are no workers.
PoolMatches ==
  /\ ~created => \A w \in Workers : pc[w] = "absent"
  /\ created /\ ~parallel => \A w \in Workers : pc[w] = "absent"
  /\ NoneLeftBehind

\* uir_sim_destroy leaves no worker behind, if thread_count is not changed once
\* the pool exists.
THEOREM DestroyLeavesNone == ASSUME ~MaySwitch PROVE Spec => []NoneLeftBehind
<1>1. Init => PoolMatches
  BY Roles DEF Init, PoolMatches, NoneLeftBehind
<1>2. ASSUME PoolInv, PoolMatches, [Next]_vars PROVE PoolMatches'
  <2>. USE Roles DEF PoolMatches, NoneLeftBehind
  <2>1. CASE InPhase
    <3>1. /\ created' = created /\ parallel' = parallel
          /\ pc'[Leader] = "gone" => pc[Leader] = "gone"
          /\ \A w \in Workers : Dead(w) => pc'[w] = pc[w]
      BY <1>2, <2>1 DEF InPhase, Call, AllReturn, Enter, Leave, Work, Look, Go, Dead, PoolInv,
         TypeOK, PhaseOf, Phases, After
    <3>. QED
      BY <1>2, <3>1 DEF Dead
  <2>2. CASE Lead
    <3>1. pc[Leader] # "reap" => \A w \in Workers : pc[w] # "exited" \/ pc[Leader] = "gate"
      BY <1>2, <2>2 DEF PoolInv, PhaseOf, Lead, Go, SetThreadCount, RunBegin, RunCreates, FallBack,
         Batch, StartPhase, BatchDone, RunEnd, Destroy, Reap
    <3>2. CASE SetThreadCount \/ RunBegin \/ Batch \/ BatchDone \/ RunEnd
      BY <1>2, <3>2 DEF PoolInv, TypeOK, Go, SetThreadCount, RunBegin, Batch, StartPhase, BatchDone,
         RunEnd, Dead
    <3>3. CASE RunCreates
      BY <1>2, <3>3 DEF RunCreates
    <3>4. CASE FallBack
      BY <1>2, <3>1, <3>4 DEF PoolInv, TypeOK, Go, FallBack, Dead
    <3>5. CASE Destroy
      BY <1>2, <3>5 DEF PoolInv, TypeOK, Go, Destroy, Dead
    <3>6. CASE Reap
      BY <1>2, <3>6 DEF PoolInv, TypeOK, Go, Reap, Dead
    <3>. QED
      BY <2>2, <3>2, <3>3, <3>4, <3>5, <3>6 DEF Lead
  <2>3. CASE UNCHANGED vars
    BY <1>2, <2>3 DEF vars, Dead
  <2>. QED
    BY <1>2, <2>1, <2>2, <2>3 DEF Next
<1>. QED
  BY Inductive, <1>1, <1>2, PTL DEF Spec, PoolMatches
=============================================================================
