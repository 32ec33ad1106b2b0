-------------------------- MODULE SimKernel_proofs --------------------------
(***************************************************************************)
(* Theorems about SimKernel, for every design and every value of the       *)
(* constants.                                                              *)
(***************************************************************************)
EXTENDS SimKernel, TLAPS

-----------------------------------------------------------------------------
(* The operators of the event queue.                                       *)

LEMMA VectorsAreWrites == Vectors \subseteq Writes
BY KernelAssumption DEF Vectors, Writes

LEMMA OverlayType ==
  ASSUME NEW v \in Vectors, NEW w \in Writes
  PROVE  Overlay(v, w) \in Vectors
<1>1. PICK r \in Ranges : w \in [r -> Values]
  BY DEF Writes
<1>2. \A p \in Parts : (IF p \in DOMAIN w THEN w[p] ELSE v[p]) \in Values
  BY <1>1 DEF Vectors
<1> QED
  BY <1>2 DEF Overlay, Vectors

LEMMA StampsAreNat == Stamps \subseteq Nat
BY KernelAssumption DEF Stamps

LEMMA UpdateType ==
  ASSUME NEW t \in Nat, NEW d \in Nat, NEW s \in Signals, NEW w \in Writes,
         NEW nba \in BOOLEAN, NEW p \in Procs \cup {None}, NEW n \in Stamps
  PROVE  Update(t, d, s, w, nba, p, n) \in Updates
BY StampsAreNat DEF Update, Updates

LEMMA ResumeType ==
  ASSUME NEW t \in Nat, NEW n \in Stamps
  PROVE  Resume(t, n) \in Resumes
BY StampsAreNat DEF Resume, Resumes

LEMMA EventFields ==
  ASSUME NEW e \in Events
  PROVE  /\ e.time \in Nat /\ e.delta \in Nat /\ e.ord \in Nat /\ e.issue \in Nat
         /\ e.stmt \in BOOLEAN /\ e.nba \in BOOLEAN
         /\ e.stmt => e.delta = 0 /\ ~e.nba
         /\ ~e.stmt => e.sig \in Signals /\ e.wr \in Writes
<1>1. CASE e \in Updates
  BY <1>1 DEF Updates
<1>2. CASE e \in Resumes
  <2>1. e.time \in Nat /\ e.ord \in Nat /\ e.issue \in Nat
    BY <1>2 DEF Resumes
  <2>2. e.delta = 0 /\ e.delta \in Nat
    BY <1>2 DEF Resumes
  <2>3. e.nba \in BOOLEAN /\ ~e.nba
    BY <1>2 DEF Resumes
  <2>4. e.stmt \in BOOLEAN /\ e.stmt
    BY <1>2 DEF Resumes
  <2> QED
    BY <2>1, <2>2, <2>3, <2>4, Zenon
<1> QED
  BY <1>1, <1>2 DEF Events

\* f takes the value of e.
Taken(f, e) == [f EXCEPT !.wr = e.wr, !.issue = e.issue]

\* An event an insertion leaves behind is the new one, an old one, or an old one
\* of the same slot that carries the new value.
LEMMA InsertParts ==
  ASSUME NEW q, NEW e, NEW g \in Insert(q, e)
  PROVE  \/ g = e /\ \A f \in q : ~(e.pid # None /\ SameSlot(e, f))
         \/ g \in q /\ ~(e.pid # None /\ SameSlot(e, g))
         \/ \E f \in q : /\ e.pid # None /\ SameSlot(e, f)
                         /\ g = Taken(f, e)
BY DEF Insert, Taken

LEMMA InsertType ==
  ASSUME NEW q, q \subseteq Events, NEW e \in Updates
  PROVE  Insert(q, e) \subseteq Events
<1> SUFFICES ASSUME NEW g \in Insert(q, e) PROVE g \in Events
  OBVIOUS
<1>1. CASE g = e
  BY <1>1 DEF Events
<1>2. CASE g \in q
  BY <1>2
<1>3. ASSUME NEW f \in q, SameSlot(e, f), g = Taken(f, e)
      PROVE  g \in Events
  <2>1. f \in Updates
    BY <1>3 DEF SameSlot, Events, Resumes
  <2>2. g \in Updates
    BY <1>3, <2>1 DEF Updates, Taken
  <2> QED
    BY <2>2 DEF Events
<1> QED
  BY <1>1, <1>2, <1>3, InsertParts

-----------------------------------------------------------------------------
(* Type correctness.                                                       *)

LEMMA NoSnapType == NoSnap \in UNION {[S -> Vectors] : S \in SUBSET Signals}
<1>1. NoSnap \in [{} -> Vectors]
  BY DEF NoSnap
<1> QED
  BY <1>1

LEMMA TypeInit == Init => TypeOK
<1> SUFFICES ASSUME Init PROVE TypeOK
  OBVIOUS
<1>1. val \in [Signals -> Vectors]
  BY DEF Init
<1>2. deltas \in 0 .. MaxDeltas
  BY KernelAssumption DEF Init
<1> QED
  BY <1>1, <1>2, NoSnapType DEF Init, TypeOK, Locations

LEMMA TypeStatement == TypeOK /\ Statement => TypeOK'
<1> SUFFICES ASSUME TypeOK, Statement PROVE TypeOK'
  OBVIOUS
<1> USE DEF TypeOK
<1>1. ASSUME NEW s \in Signals, NEW w \in Writes, Blocking(s, w) PROVE TypeOK'
  <2>1. Overlay(val[s], w) \in Vectors
    BY OverlayType
  <2>2. val' \in [Signals -> Vectors]
    BY <1>1, <2>1 DEF Blocking
  <2> QED
    BY <1>1, <2>2 DEF Blocking, client, locals
<1>2. ASSUME NEW p \in Sources, NEW s \in Signals, NEW w \in Writes,
             Nonblocking(p, s, w)
      PROVE  TypeOK'
  <2>1. PICK n \in Stamps :
          pending' = Insert(pending, Update(now, delta + 1, s, w, TRUE, p, n))
    BY <1>2 DEF Nonblocking
  <2>2. Update(now, delta + 1, s, w, TRUE, p, n) \in Updates
    <3>1. delta + 1 \in Nat /\ p \in Procs \cup {None}
      BY DEF Sources
    <3> QED
      BY <3>1, UpdateType
  <2>3. pending' \subseteq Events
    BY <2>1, <2>2, InsertType
  <2> QED
    BY <1>2, <2>3 DEF Nonblocking, Schedules, client, locals
<1>3. ASSUME NEW s \in Signals, NEW w \in Vectors, NEW ahead \in {0, 1},
             Direct(s, w, ahead)
      PROVE  TypeOK'
  <2>1. PICK n \in Stamps :
          pending' = Insert(pending, Update(now, delta + ahead, s, w, FALSE, None, n))
    BY <1>3 DEF Direct
  <2>2. Update(now, delta + ahead, s, w, FALSE, None, n) \in Updates
    <3>1. delta + ahead \in Nat /\ w \in Writes
      BY VectorsAreWrites
    <3> QED
      BY <3>1, UpdateType
  <2>3. pending' \subseteq Events
    BY <2>1, <2>2, InsertType
  <2> QED
    BY <1>3, <2>3 DEF Direct, Schedules, client, locals
<1>4. ASSUME NEW s \in Signals, NEW w \in Vectors, NEW d \in WireDelays,
             Transport(s, w, d)
      PROVE  TypeOK'
  <2>1. PICK n \in Stamps :
          pending' = Insert(pending, Update(now + d, 0, s, w, FALSE, None, n))
    BY <1>4 DEF Transport
  <2>2. Update(now + d, 0, s, w, FALSE, None, n) \in Updates
    <3>1. now + d \in Nat /\ w \in Writes
      BY KernelAssumption, VectorsAreWrites
    <3> QED
      BY <3>1, UpdateType
  <2>3. pending' \subseteq Events
    BY <2>1, <2>2, InsertType
  <2> QED
    BY <1>4, <2>3 DEF Transport, Schedules, client, locals
<1>5. ASSUME NEW s \in Signals, NEW w \in Vectors, NEW d \in WireDelays,
             Inertial(s, w, d)
      PROVE  TypeOK'
  <2>1. PICK n \in Stamps :
          pending' = Insert(WithoutPulses(pending, s, now + d),
                            Update(now + d, 0, s, w, FALSE, None, n))
    BY <1>5 DEF Inertial
  <2>2. Update(now + d, 0, s, w, FALSE, None, n) \in Updates
    <3>1. now + d \in Nat /\ w \in Writes
      BY KernelAssumption, VectorsAreWrites
    <3> QED
      BY <3>1, UpdateType
  <2>3. WithoutPulses(pending, s, now + d) \subseteq Events
    BY DEF WithoutPulses
  <2>4. pending' \subseteq Events
    BY <2>1, <2>2, <2>3, InsertType
  <2> QED
    BY <1>5, <2>4 DEF Inertial, Schedules, client, locals
<1>6. ASSUME NEW d \in StmtDelays, Delayed(d)
      PROVE  TypeOK'
  <2>1. PICK n \in Stamps : pending' = pending \cup {Resume(now + d, n)}
    BY <1>6 DEF Delayed
  <2>2. Resume(now + d, n) \in Events
    <3>1. now + d \in Nat
      BY KernelAssumption
    <3> QED
      BY <3>1, ResumeType DEF Events
  <2> QED
    BY <1>6, <2>1, <2>2 DEF Delayed, Schedules, client, locals
<1>7. CASE StopTask
  BY <1>7 DEF StopTask, client, locals
<1>8. CASE FinishTask
  BY <1>8 DEF FinishTask, client, locals
<1> QED
  BY <1>1, <1>2, <1>3, <1>4, <1>5, <1>6, <1>7, <1>8 DEF Statement

LEMMA TypeClient == TypeOK /\ Client => TypeOK'
<1> SUFFICES ASSUME TypeOK, Client PROVE TypeOK'
  OBVIOUS
<1> USE DEF TypeOK
<1>1. ASSUME NEW s \in Signals, NEW w \in Vectors, SetSignal(s, w) PROVE TypeOK'
  <2>1. PICK n \in Stamps :
          pending' = Insert(pending, Update(now, delta, s, w, FALSE, None, n))
    BY <1>1 DEF SetSignal
  <2>2. Update(now, delta, s, w, FALSE, None, n) \in Updates
    BY UpdateType, VectorsAreWrites
  <2>3. pending' \subseteq Events
    BY <2>1, <2>2, InsertType
  <2>4. snap' \in UNION {[S -> Vectors] : S \in SUBSET Signals}
    BY <1>1, NoSnapType DEF SetSignal
  <2> QED
    BY <1>1, <2>3, <2>4 DEF SetSignal, client, locals, Locations
<1>0. ASSUME NEW s \in Signals, NEW w \in Vectors, SetFirst(s, w) PROVE TypeOK'
  <2>1. [t \in {s} |-> w] \in [{s} -> Vectors] /\ {s} \in SUBSET Signals
    OBVIOUS
  <2>2. snap' \in UNION {[S -> Vectors] : S \in SUBSET Signals}
    BY <1>0, <2>1 DEF SetFirst
  <2> QED
    BY <1>0, <2>2 DEF SetFirst, client, locals, Locations
<1>2. CASE Continue
  BY <1>2 DEF Continue, client, locals
<1>3. ASSUME NEW d \in Durations, RunBegin(d) PROVE TypeOK'
  BY <1>3, KernelAssumption DEF RunBegin, client, locals, Locations
<1> QED
  BY <1>0, <1>1, <1>2, <1>3 DEF Client

LEMMA TypeEngine == TypeOK /\ Engine => TypeOK'
<1> SUFFICES ASSUME TypeOK, Engine PROVE TypeOK'
  OBVIOUS
<1> USE DEF TypeOK
<1>1. CASE InitDone
  BY <1>1 DEF InitDone, locals, Locations
<1>2. CASE RunEnd
  BY <1>2, KernelAssumption DEF RunEnd, Return, Locations
<1>3. CASE LoopDetected
  BY <1>3, KernelAssumption DEF LoopDetected, Return, Locations
<1>4. CASE BeginBatch
  <2>1. PICK h \in pending :
          /\ Due(h) /\ DeltasAt(h.time) <= MaxDeltas
          /\ now' = h.time /\ delta' = h.delta
          /\ lastTime' = h.time /\ deltas' = DeltasAt(h.time)
    BY <1>4 DEF BeginBatch
  <2>2. h.time \in Nat /\ h.delta \in Nat
    BY EventFields
  <2>3. DeltasAt(h.time) \in 0 .. MaxDeltas
    BY <2>1, KernelAssumption DEF DeltasAt
  <2> QED
    BY <1>4, <2>1, <2>2, <2>3 DEF BeginBatch, client, Locations
<1>5. CASE ApplyUpdate
  <2>1. PICK h \in pending :
          /\ ~h.stmt
          /\ pending' = pending \ {h}
          /\ val' = [val EXCEPT ![h.sig] = Overlay(@, h.wr)]
          /\ changed' = IF val'[h.sig] = val[h.sig] THEN changed
                        ELSE changed \cup {h.sig}
    BY <1>5 DEF ApplyUpdate
  <2>2. h.sig \in Signals /\ h.wr \in Writes
    BY <2>1 DEF Events, Updates, Resumes
  <2>3. Overlay(val[h.sig], h.wr) \in Vectors
    BY <2>2, OverlayType
  <2>4. val' \in [Signals -> Vectors]
    BY <2>1, <2>3
  <2> QED
    BY <1>5, <2>1, <2>2, <2>4 DEF ApplyUpdate, client, locals
<1>6. CASE ApplyResume
  <2>1. val \in UNION {[S -> Vectors] : S \in SUBSET Signals}
    OBVIOUS
  <2> QED
    BY <1>6, <2>1 DEF ApplyResume, client, locals, Locations
<1>7. CASE ResumeDone
  BY <1>7, NoSnapType DEF ResumeDone, client, locals, Locations
<1>8. CASE ApplyDone
  <2>1. PICK ws \in SUBSET Signals : PortWires(ws)
    BY <1>8 DEF ApplyDone
  <2> QED
    BY <1>8, <2>1 DEF ApplyDone, PortWires, client, locals, Locations
<1>9. ASSUME NEW s \in Signals, TriggerDone(s) PROVE TypeOK'
  BY <1>9 DEF TriggerDone, client, locals, Locations
<1>10. ASSUME NEW ns \in SUBSET Signals, ResolveNets(ns) PROVE TypeOK'
  BY <1>10 DEF ResolveNets, client, locals, Locations
<1> QED
  BY <1>1, <1>2, <1>3, <1>4, <1>5, <1>6, <1>7, <1>8, <1>9, <1>10 DEF Engine

LEMMA TypeStep == TypeOK /\ [Next]_vars => TypeOK'
<1>1. TypeOK /\ UNCHANGED vars => TypeOK'
  BY DEF TypeOK, vars, client, locals
<1> QED
  BY <1>1, TypeStatement, TypeClient, TypeEngine DEF Next

\* Every variable keeps its type, and no run of the kernel begins more than
\* max_deltas_per_time batches at one time (uir_sim_run's loop head).
THEOREM TypeCorrect == Spec => []TypeOK
BY TypeInit, TypeStep, PTL DEF Spec
-----------------------------------------------------------------------------
(* Simulated time and the two halves of a delta cycle.                     *)

\* An event of the next state stems from f: it has f's place in the list.
Kept(g, f) ==
  g.time = f.time /\ g.delta = f.delta /\ g.nba = f.nba /\ g.stmt = f.stmt

\* What statements and clients may add to the queue.
Fresh(g) == g.time >= now /\ (g.nba => g.time = now /\ g.delta = delta + 1)

Carried(q) == \A g \in q : (\E f \in pending : Kept(g, f)) \/ Fresh(g)

LEMMA InsertCarried ==
  ASSUME NEW q, q \subseteq pending, NEW e, Fresh(e)
  PROVE  Carried(Insert(q, e))
<1> SUFFICES ASSUME NEW g \in Insert(q, e)
             PROVE  (\E f \in pending : Kept(g, f)) \/ Fresh(g)
  BY DEF Carried
<1>1. CASE g = e
  BY <1>1
<1>2. CASE g \in q
  BY <1>2 DEF Kept
<1>3. ASSUME NEW f \in q, g = Taken(f, e) PROVE Kept(g, f)
  BY <1>3 DEF Kept, Taken
<1> QED
  BY <1>1, <1>2, <1>3, InsertParts

LEMMA StatementCarried ==
  ASSUME TypeOK, Statement
  PROVE  now' = now /\ delta' = delta /\ pc' = pc /\ InBody /\ Carried(pending')
<1> USE DEF TypeOK
<1>0. Carried(pending)
  BY DEF Carried, Kept
<1>1. ASSUME NEW s \in Signals, NEW w \in Writes, Blocking(s, w)
      PROVE  now' = now /\ delta' = delta /\ pc' = pc /\ InBody /\ Carried(pending')
  BY <1>0, <1>1 DEF Blocking, Enabled
<1>2. ASSUME NEW p \in Sources, NEW s \in Signals, NEW w \in Writes,
             Nonblocking(p, s, w)
      PROVE  now' = now /\ delta' = delta /\ pc' = pc /\ InBody /\ Carried(pending')
  <2>1. \A n \in Stamps : Fresh(Update(now, delta + 1, s, w, TRUE, p, n))
    BY DEF Fresh, Update
  <2> QED
    BY <1>2, <2>1, InsertCarried DEF Nonblocking, Enabled, Schedules
<1>3. ASSUME NEW s \in Signals, NEW w \in Vectors, NEW ahead \in {0, 1},
             Direct(s, w, ahead)
      PROVE  now' = now /\ delta' = delta /\ pc' = pc /\ InBody /\ Carried(pending')
  <2>1. \A n \in Stamps : Fresh(Update(now, delta + ahead, s, w, FALSE, None, n))
    BY DEF Fresh, Update
  <2> QED
    BY <1>3, <2>1, InsertCarried DEF Direct, Enabled, Schedules
<1>4. ASSUME NEW s \in Signals, NEW w \in Vectors, NEW d \in WireDelays,
             Transport(s, w, d)
      PROVE  now' = now /\ delta' = delta /\ pc' = pc /\ InBody /\ Carried(pending')
  <2>1. \A n \in Stamps : Fresh(Update(now + d, 0, s, w, FALSE, None, n))
    BY KernelAssumption DEF Fresh, Update
  <2> QED
    BY <1>4, <2>1, InsertCarried DEF Transport, Enabled, Schedules
<1>5. ASSUME NEW s \in Signals, NEW w \in Vectors, NEW d \in WireDelays,
             Inertial(s, w, d)
      PROVE  now' = now /\ delta' = delta /\ pc' = pc /\ InBody /\ Carried(pending')
  <2>1. \A n \in Stamps : Fresh(Update(now + d, 0, s, w, FALSE, None, n))
    BY KernelAssumption DEF Fresh, Update
  <2>2. WithoutPulses(pending, s, now + d) \subseteq pending
    BY DEF WithoutPulses
  <2> QED
    BY <1>5, <2>1, <2>2, InsertCarried DEF Inertial, Enabled, Schedules
<1>6. ASSUME NEW d \in StmtDelays, Delayed(d)
      PROVE  now' = now /\ delta' = delta /\ pc' = pc /\ InBody /\ Carried(pending')
  <2>1. \A n \in Stamps : Fresh(Resume(now + d, n))
    BY KernelAssumption DEF Fresh, Resume
  <2> QED
    BY <1>0, <1>6, <2>1 DEF Delayed, Enabled, Schedules, Carried
<1>7. CASE StopTask
  BY <1>0, <1>7 DEF StopTask, Enabled
<1>8. CASE FinishTask
  BY <1>0, <1>8 DEF FinishTask, Enabled
<1> QED
  BY <1>1, <1>2, <1>3, <1>4, <1>5, <1>6, <1>7, <1>8 DEF Statement

LEMMA ClientCarried ==
  ASSUME TypeOK, Client
  PROVE  now' = now /\ delta' = delta /\ pc' \in {"idle", "set", "init"} /\ Carried(pending')
<1> USE DEF TypeOK
<1>0. Carried(pending)
  BY DEF Carried, Kept
<1>1. ASSUME NEW s \in Signals, NEW w \in Vectors, SetSignal(s, w)
      PROVE  now' = now /\ delta' = delta /\ pc' = "idle" /\ Carried(pending')
  <2>1. \A n \in Stamps : Fresh(Update(now, delta, s, w, FALSE, None, n))
    BY DEF Fresh, Update
  <2> QED
    BY <1>1, <2>1, InsertCarried DEF SetSignal
<1>2. CASE Continue
  BY <1>0, <1>2 DEF Continue
<1>3. ASSUME NEW d \in Durations, RunBegin(d)
      PROVE  now' = now /\ delta' = delta /\ pc' = "init" /\ Carried(pending')
  BY <1>0, <1>3 DEF RunBegin
<1>4. ASSUME NEW s \in Signals, NEW w \in Vectors, SetFirst(s, w)
      PROVE  now' = now /\ delta' = delta /\ pc' = "set" /\ Carried(pending')
  BY <1>0, <1>4 DEF SetFirst
<1> QED
  BY <1>1, <1>2, <1>3, <1>4 DEF Client

\* Every NBA in the queue belongs to the current time and not to delta 0.
NbaNow == \A e \in pending : e.nba => e.time = now /\ e.delta >= 1

\* Phase 1 has nothing behind it: no queued event is before the batch.
NoneBehind == \A e \in pending : e.time > now \/ e.delta >= delta

KernelInv ==
  /\ TypeOK
  /\ NothingOverdue
  /\ NbaNow
  /\ pc \in {"apply", "stmt"} => NoneBehind
  /\ pc = "stmt" => delta = 0
  /\ NbaDeferred

LEMMA HeadFirst ==
  ASSUME TypeOK, NEW h \in pending, IsHead(h), NEW e \in pending
  PROVE  e.time > h.time \/ (e.time = h.time /\ e.delta >= h.delta)
<1>1. h \in Events /\ e \in Events
  BY DEF TypeOK
<1>2. h.time \in Nat /\ h.delta \in Nat /\ e.time \in Nat /\ e.delta \in Nat
  BY <1>1, EventFields
<1>3. e = h \/ Before(h, e)
  BY DEF IsHead
<1> QED
  BY <1>2, <1>3 DEF Before, SameKey
\* A step that only queues keeps the invariant.
LEMMA CarriedKeys ==
  ASSUME KernelInv, TypeOK', now' = now, delta' = delta, Carried(pending'),
         pc # "apply", pc' = pc \/ pc' \in {"idle", "set", "init"}
  PROVE  KernelInv'
<1> USE DEF KernelInv
<1>1. ASSUME NEW g \in pending'
      PROVE  /\ g.time >= now /\ (g.nba => g.time = now /\ g.delta >= 1)
             /\ pc = "stmt" => g.delta >= delta
             /\ pc \in {"stmt", "trigger", "resolve"} => (g.nba => g.delta > delta)
  <2>1. g.delta \in Nat /\ now \in Nat /\ delta \in Nat
    BY EventFields DEF TypeOK
  <2>2. CASE Fresh(g)
    BY <2>1, <2>2 DEF Fresh
  <2>3. ASSUME NEW f \in pending, Kept(g, f)
        PROVE  /\ g.time >= now /\ (g.nba => g.time = now /\ g.delta >= 1)
               /\ pc = "stmt" => g.delta >= delta
               /\ pc \in {"stmt", "trigger", "resolve"} => (g.nba => g.delta > delta)
    BY <2>1, <2>3 DEF Kept, NothingOverdue, NbaNow, NbaDeferred
  <2> QED
    BY <2>2, <2>3 DEF Carried
<1>2. NothingOverdue' /\ NbaNow' /\ NbaDeferred'
  BY <1>1 DEF NothingOverdue, NbaNow, NbaDeferred
<1>3. (pc \in {"apply", "stmt"} => NoneBehind)' /\ (pc = "stmt" => delta = 0)'
  BY <1>1 DEF NoneBehind
<1> QED
  BY <1>2, <1>3

LEMMA KernelInit == Init => KernelInv
BY TypeInit DEF Init, KernelInv, NothingOverdue, NbaNow, NbaDeferred

LEMMA KernelEngine ==
  ASSUME KernelInv, TypeOK', Engine
  PROVE  KernelInv' /\ now' >= now
<1> USE DEF KernelInv
<1>0. now \in Nat /\ delta \in Nat /\ pending \subseteq Events
  BY DEF TypeOK
<1>1. CASE InitDone \/ RunEnd \/ LoopDetected
  <2>1. pending' = pending /\ now' = now /\ pc' \in {"head", "idle"}
    BY <1>1 DEF InitDone, RunEnd, LoopDetected, Return
  <2> QED
    BY <1>0, <2>1 DEF NothingOverdue, NbaNow, NbaDeferred
<1>2. CASE BeginBatch
  <2>1. PICK h \in pending : IsHead(h) /\ now' = h.time /\ delta' = h.delta
    BY <1>2 DEF BeginBatch, Due
  <2>2. pending' = pending /\ pc' = "apply"
    BY <1>2 DEF BeginBatch
  <2>3. h.time \in Nat /\ h.delta \in Nat /\ h.time >= now
    BY <1>0, EventFields DEF NothingOverdue
  <2>4. ASSUME NEW e \in pending
        PROVE  /\ e.time >= now' /\ (e.time > now' \/ e.delta >= delta')
               /\ e.nba => e.time = now' /\ e.delta >= 1
    <3>1. e.time \in Nat /\ e.delta \in Nat
      BY <1>0, EventFields
    <3>2. e.time > h.time \/ (e.time = h.time /\ e.delta >= h.delta)
      BY <2>1, HeadFirst
    <3> QED
      BY <1>0, <2>1, <2>3, <3>1, <3>2 DEF NbaNow
  <2> QED
    BY <1>0, <2>1, <2>2, <2>3, <2>4
       DEF NothingOverdue, NbaNow, NbaDeferred, NoneBehind
<1>3. CASE ApplyUpdate
  <2>1. pending' \subseteq pending /\ now' = now /\ delta' = delta /\ pc' = pc
        /\ pc = "apply"
    BY <1>3 DEF ApplyUpdate
  <2> QED
    BY <1>0, <2>1 DEF NothingOverdue, NbaNow, NbaDeferred, NoneBehind
<1>4. CASE ApplyResume
  <2>1. PICK h \in pending : InBatch(h) /\ h.stmt /\ pending' = pending \ {h}
    BY <1>4 DEF ApplyResume
  <2>2. now' = now /\ delta' = delta /\ pc = "apply" /\ pc' = "stmt"
    BY <1>4 DEF ApplyResume
  <2>3. delta = 0
    BY <1>0, <2>1, EventFields DEF InBatch
  <2>4. NothingOverdue' /\ NbaNow' /\ NoneBehind'
    BY <1>0, <2>1, <2>2 DEF NothingOverdue, NbaNow, NoneBehind
  <2>5. \A e \in pending : e.delta \in Nat
    BY <1>0, EventFields
  <2>6. \A e \in pending' : e.nba => e.time = now' /\ e.delta > delta'
    BY <2>1, <2>2, <2>3, <2>5 DEF NbaNow
  <2> QED
    BY <1>0, <2>2, <2>3, <2>4, <2>6 DEF NbaDeferred
<1>5. CASE ResumeDone
  <2>1. pending' = pending /\ now' = now /\ delta' = delta /\ pc = "stmt"
        /\ pc' = "apply"
    BY <1>5 DEF ResumeDone
  <2> QED
    BY <1>0, <2>1 DEF NothingOverdue, NbaNow, NbaDeferred, NoneBehind
<1>6. CASE ApplyDone
  <2>1. pending' = pending /\ now' = now /\ delta' = delta /\ pc = "apply"
        /\ pc' \in {"resolve", "trigger"}
    BY <1>6 DEF ApplyDone
  <2>2. ASSUME NEW e \in pending, e.nba PROVE e.time = now /\ e.delta > delta
    <3>1. PICK h \in pending : IsHead(h) /\ ~InBatch(h)
      BY <1>6, <2>2 DEF ApplyDone, Drained
    <3>2. h.time \in Nat /\ h.delta \in Nat /\ e.time \in Nat /\ e.delta \in Nat
      BY <1>0, EventFields
    <3>3. h.time > now \/ (h.time = now /\ h.delta > delta)
      BY <1>0, <2>1, <3>1, <3>2 DEF InBatch, NoneBehind, NothingOverdue
    <3>4. e.time > h.time \/ (e.time = h.time /\ e.delta >= h.delta)
      BY <3>1, HeadFirst
    <3> QED
      BY <1>0, <2>2, <3>2, <3>3, <3>4 DEF NbaNow
  <2> QED
    BY <1>0, <2>1, <2>2 DEF NothingOverdue, NbaNow, NbaDeferred
<1>7. ASSUME NEW s \in Signals, TriggerDone(s) PROVE KernelInv' /\ now' >= now
  <2>1. pending' = pending /\ now' = now /\ delta' = delta /\ pc = "trigger"
        /\ pc' \in {"resolve", "trigger"}
    BY <1>7 DEF TriggerDone
  <2> QED
    BY <1>0, <2>1 DEF NothingOverdue, NbaNow, NbaDeferred
<1>8. ASSUME NEW ns \in SUBSET Signals, ResolveNets(ns) PROVE KernelInv' /\ now' >= now
  <2>1. pending' = pending /\ now' = now /\ delta' = delta /\ pc = "resolve"
        /\ pc' \in {"head", "trigger"}
    BY <1>8 DEF ResolveNets
  <2> QED
    BY <1>0, <2>1 DEF NothingOverdue, NbaNow, NbaDeferred
<1> QED
  BY <1>1, <1>2, <1>3, <1>4, <1>5, <1>6, <1>7, <1>8 DEF Engine

LEMMA KernelStep == KernelInv /\ [Next]_vars => KernelInv' /\ now' >= now
<1> SUFFICES ASSUME KernelInv, [Next]_vars PROVE KernelInv' /\ now' >= now
  OBVIOUS
<1>0. now \in Nat /\ TypeOK /\ TypeOK'
  BY TypeStep DEF KernelInv, TypeOK
<1>1. CASE Statement
  BY <1>0, <1>1, StatementCarried, CarriedKeys DEF InBody
<1>2. CASE Client
  <2>1. pc \in {"idle", "set"}
    BY <1>2 DEF Client, SetFirst, SetSignal, Continue, RunBegin
  <2> QED
    BY <1>0, <1>2, <2>1, ClientCarried, CarriedKeys
<1>3. CASE Engine
  BY <1>0, <1>3, KernelEngine
<1>4. CASE UNCHANGED vars
  BY <1>0, <1>4 DEF vars, client, locals, KernelInv, NothingOverdue, NbaNow,
     NoneBehind, NbaDeferred
<1> QED
  BY <1>1, <1>2, <1>3, <1>4 DEF Next

\* No event of the queue is ever overdue: whatever a design queues, and however
\* a run was cut short, the loop leaves nothing behind in the past.
THEOREM NothingIsOverdue == Spec => []NothingOverdue
<1>1. KernelInv => NothingOverdue
  BY DEF KernelInv
<1> QED
  BY <1>1, KernelInit, KernelStep, PTL DEF Spec

\* Simulated time never goes back (current_time in uir_sim_run's loop).
THEOREM TimeIsMonotone == Spec => TimeMonotone
<1>1. KernelInv /\ [Next]_vars => [now' >= now]_vars
  BY KernelStep
<1> QED
  BY <1>1, KernelInit, KernelStep, PTL DEF Spec, TimeMonotone

\* An NBA is applied after every body of the batch it was issued in has run.
THEOREM NbaIsDeferred == Spec => []NbaDeferred
<1>1. KernelInv => NbaDeferred
  BY DEF KernelInv
<1> QED
  BY <1>1, KernelInit, KernelStep, PTL DEF Spec
-----------------------------------------------------------------------------
(* One NBA per slot.                                                       *)

Unique(q) == \A e, f \in q : e # f /\ e.pid # None => ~SameSlot(e, f)

\* The part of an event SameSlot looks at.
SameSource(g, f) ==
  /\ g.time = f.time /\ g.delta = f.delta /\ g.sig = f.sig /\ g.nba = f.nba
  /\ g.pid = f.pid /\ DOMAIN g.wr = DOMAIN f.wr

LEMMA TakenSource ==
  ASSUME NEW e, NEW f \in Updates, SameSlot(e, f)
  PROVE  SameSource(Taken(f, e), f)
BY DEF Taken, SameSource, SameSlot, Updates

\* schedule_event keeps the slots apart: it replaces what it finds, all of it.
LEMMA InsertUnique ==
  ASSUME NEW q, q \subseteq Events, NEW e, Unique(q)
  PROVE  Unique(Insert(q, e))
<1> SUFFICES ASSUME NEW g \in Insert(q, e), NEW h \in Insert(q, e),
                    g # h, g.pid # None, SameSlot(g, h)
             PROVE  FALSE
  BY DEF Unique
<1>1. ASSUME NEW x \in Insert(q, e)
      PROVE  \/ x = e /\ \A f \in q : ~(e.pid # None /\ SameSlot(e, f))
             \/ x \in q /\ ~(e.pid # None /\ SameSlot(e, x))
             \/ \E f \in q : SameSlot(e, f) /\ x = Taken(f, e) /\ SameSource(x, f)
  <2>1. \A f \in q : SameSlot(e, f) => f \in Updates
    BY DEF Events, Resumes, SameSlot
  <2> QED
    BY <2>1, InsertParts, TakenSource
<1>2. CASE g = e /\ \A f \in q : ~(e.pid # None /\ SameSlot(e, f))
  BY <1>1, <1>2
<1>3. CASE h = e /\ \A f \in q : ~(e.pid # None /\ SameSlot(e, f))
  <2>1. SameSlot(e, g) /\ e.pid # None
    BY <1>3 DEF SameSlot, SameKey
  <2> QED
    BY <1>1, <1>3, <2>1
<1>4. CASE g \in q /\ ~(e.pid # None /\ SameSlot(e, g))
  <2>1. CASE h \in q
    BY <1>4, <2>1 DEF Unique
  <2>2. ASSUME NEW f \in q, SameSlot(e, f), SameSource(h, f) PROVE FALSE
    BY <1>4, <2>2 DEF SameSlot, SameKey, SameSource
  <2> QED
    BY <1>1, <1>3, <2>1, <2>2
<1>5. ASSUME NEW f \in q, SameSlot(e, f), g = Taken(f, e), SameSource(g, f)
      PROVE  FALSE
  <2>1. CASE h \in q /\ ~(e.pid # None /\ SameSlot(e, h))
    BY <1>5, <2>1 DEF SameSlot, SameKey, SameSource
  <2>2. ASSUME NEW k \in q, SameSlot(e, k), h = Taken(k, e), SameSource(h, k)
        PROVE  FALSE
    <3>1. SameSlot(f, k) /\ f.pid # None
      BY <1>5, <2>2 DEF SameSlot, SameKey, SameSource
    <3>2. f = k
      BY <3>1 DEF Unique
    <3> QED
      BY <1>5, <2>2, <3>2
  <2> QED
    BY <1>1, <1>3, <2>1, <2>2
<1> QED
  BY <1>1, <1>2, <1>4, <1>5

LEMMA SubsetUnique ==
  ASSUME NEW q, Unique(q), NEW r, r \subseteq q
  PROVE  Unique(r)
BY DEF Unique

LEMMA SlotStatement ==
  ASSUME TypeOK, Unique(pending), Statement
  PROVE  Unique(pending')
<1>0. pending \subseteq Events
  BY DEF TypeOK
<1>1. ASSUME NEW s \in Signals, NEW w \in Writes, Blocking(s, w)
      PROVE  Unique(pending')
  BY <1>1 DEF Blocking
<1>2. ASSUME NEW p \in Sources, NEW s \in Signals, NEW w \in Writes,
             Nonblocking(p, s, w)
      PROVE  Unique(pending')
  BY <1>0, <1>2, InsertUnique DEF Nonblocking
<1>3. ASSUME NEW s \in Signals, NEW w \in Vectors, NEW ahead \in {0, 1},
             Direct(s, w, ahead)
      PROVE  Unique(pending')
  BY <1>0, <1>3, InsertUnique DEF Direct
<1>4. ASSUME NEW s \in Signals, NEW w \in Vectors, NEW d \in WireDelays,
             Transport(s, w, d)
      PROVE  Unique(pending')
  BY <1>0, <1>4, InsertUnique DEF Transport
<1>5. ASSUME NEW s \in Signals, NEW w \in Vectors, NEW d \in WireDelays,
             Inertial(s, w, d)
      PROVE  Unique(pending')
  <2>1. WithoutPulses(pending, s, now + d) \subseteq pending
    BY DEF WithoutPulses
  <2>2. Unique(WithoutPulses(pending, s, now + d))
    BY <2>1, SubsetUnique
  <2> QED
    BY <1>0, <1>5, <2>1, <2>2, InsertUnique DEF Inertial
<1>6. ASSUME NEW d \in StmtDelays, Delayed(d)
      PROVE  Unique(pending')
  <2>1. PICK n \in Stamps : pending' = pending \cup {Resume(now + d, n)}
    BY <1>6 DEF Delayed
  <2>2. Resume(now + d, n).nba = FALSE
    BY DEF Resume
  <2> QED
    BY <2>1, <2>2 DEF Unique, SameSlot
<1>7. CASE StopTask \/ FinishTask
  BY <1>7 DEF StopTask, FinishTask
<1> QED
  BY <1>1, <1>2, <1>3, <1>4, <1>5, <1>6, <1>7 DEF Statement

LEMMA SlotStep == TypeOK /\ Unique(pending) /\ [Next]_vars => Unique(pending')
<1> SUFFICES ASSUME TypeOK, Unique(pending), [Next]_vars PROVE Unique(pending')
  OBVIOUS
<1>1. CASE Statement
  BY <1>1, SlotStatement
<1>2. ASSUME NEW s \in Signals, NEW w \in Vectors, SetSignal(s, w)
      PROVE  Unique(pending')
  BY <1>2, InsertUnique DEF SetSignal, TypeOK
<1>3. CASE \/ Continue \/ \E d \in Durations : RunBegin(d)
           \/ \E s \in Signals, w \in Vectors : SetFirst(s, w)
  BY <1>3 DEF Continue, RunBegin, SetFirst
<1>4. CASE Engine
  <2>1. pending' \subseteq pending
    BY <1>4 DEF Engine, InitDone, RunEnd, LoopDetected, Return, BeginBatch,
       ApplyUpdate, ApplyResume, ResumeDone, ApplyDone, TriggerDone, ResolveNets
  <2> QED
    BY <2>1, SubsetUnique
<1>5. CASE UNCHANGED vars
  BY <1>5 DEF vars
<1> QED
  BY <1>1, <1>2, <1>3, <1>4, <1>5 DEF Next, Client

\* No process ever has two NBAs queued for one slot (schedule_event's search).
THEOREM OneNbaPerSlotAlways == Spec => []OneNbaPerSlot
<1>1. Init => Unique(pending)
  BY DEF Init, Unique
<1>2. Unique(pending) => OneNbaPerSlot
  BY DEF Unique, OneNbaPerSlot
<1>3. TypeOK /\ TypeOK' /\ Unique(pending) /\ [Next]_vars => Unique(pending)'
  BY SlotStep
<1> QED
  BY <1>1, <1>2, <1>3, TypeCorrect, PTL DEF Spec
-----------------------------------------------------------------------------
(* Last assignment wins.                                                   *)

\* The designs and clients for which it does: no zero delay, no part-selects in
\* NBAs, and no run continued after $stop.  Each condition is needed: without it
\* two NBAs can be applied in the order opposite to the one they were issued in.
CleanDesign ==
  0 \notin StmtDelays \cup WireDelays /\ Ranges = {Parts} /\ "continue" \notin Api

Ordered(q) ==
  \A e, f \in q :
    (/\ e.nba /\ f.nba /\ e.time = f.time /\ e.pid = f.pid /\ e.sig = f.sig
     /\ DOMAIN e.wr \cap DOMAIN f.wr # {} /\ e.issue < f.issue) => Before(e, f)

\* A run that was not cut short has served every key before the current one, so
\* an NBA can only be one delta ahead.
OrderInv ==
  /\ \A e \in pending : e.nba => e.time = now /\ e.delta <= delta + 1
  /\ ~stopped /\ ~finished => NoneBehind
  /\ pc \notin {"idle", "set"} => endTime >= now
  /\ Ordered(pending)

\* Events that are new are not NBAs, or their issue is later than any other's.
LEMMA InsertOther ==
  ASSUME NEW q, Ordered(q), NEW e, e.nba = FALSE
  PROVE  Insert(q, e) = q \cup {e} /\ Ordered(Insert(q, e))
<1>1. Insert(q, e) = q \cup {e}
  BY DEF Insert, SameSlot
<1> QED
  BY <1>1 DEF Ordered

LEMMA InsertOrdered ==
  ASSUME NEW q, q \subseteq Events, Unique(q), Ordered(q), Ranges = {Parts},
         NEW t \in Nat, NEW d \in Nat, NEW s \in Signals, NEW w \in Writes,
         NEW p \in Procs \cup {None}, NEW n \in Nat,
         \A f \in q : f.ord < n /\ f.issue < n,
         \A f \in q : f.nba => f.time = t /\ f.delta <= d
  PROVE  Ordered(Insert(q, Update(t, d, s, w, TRUE, p, n)))
<1> DEFINE e == Update(t, d, s, w, TRUE, p, n)
<1>1. /\ e.time = t /\ e.delta = d /\ e.sig = s /\ e.wr = w /\ e.nba /\ e.pid = p
      /\ e.ord = n /\ e.issue = n
  BY DEF Update
<1> HIDE DEF e
<1>2. \A f \in q : f.nba => f \in Updates /\ DOMAIN f.wr = Parts /\ f.issue \in Nat
                            /\ f.ord \in Nat /\ f.delta \in Nat
  <2> SUFFICES ASSUME NEW f \in q, f.nba
               PROVE  f \in Updates /\ DOMAIN f.wr = Parts /\ f.issue \in Nat
                      /\ f.ord \in Nat /\ f.delta \in Nat
    OBVIOUS
  <2>1. f \in Updates
    BY DEF Events, Resumes
  <2>2. f.wr \in Writes
    BY <2>1 DEF Updates
  <2> QED
    BY <2>1, <2>2, EventFields DEF Writes
<1>3. DOMAIN w = Parts
  BY DEF Writes
<1>4. ASSUME \A f \in q : ~(e.pid # None /\ SameSlot(e, f))
      PROVE  Ordered(Insert(q, e))
  <2>1. Insert(q, e) = q \cup {e}
    BY <1>4 DEF Insert
  <2>2. \A f \in q : f.nba => Before(f, e)
    BY <1>1, <1>2 DEF Before, SameKey
  <2>3. \A f \in q \cup {e} : ~(e.issue < f.issue)
    BY <1>1, EventFields
  <2> SUFFICES ASSUME NEW x \in q \cup {e}, NEW y \in q \cup {e}, x.nba, y.nba,
                      x.time = y.time, x.pid = y.pid, x.sig = y.sig,
                      DOMAIN x.wr \cap DOMAIN y.wr # {}, x.issue < y.issue
               PROVE  Before(x, y)
    BY <2>1 DEF Ordered
  <2>4. x \in q
    BY <2>3
  <2>5. CASE y \in q
    BY <2>4, <2>5 DEF Ordered
  <2>6. CASE y = e
    BY <2>2, <2>4, <2>6
  <2> QED
    BY <2>5, <2>6
<1>5. ASSUME NEW f \in q, e.pid # None, SameSlot(e, f)
      PROVE  Ordered(Insert(q, e))
  <2>1. f \in Updates /\ f.nba
    BY <1>2, <1>5 DEF SameSlot
  <2>2. \A x \in q : SameSlot(e, x) => x = f
    BY <1>5 DEF Unique, SameSlot, SameKey
  <2> DEFINE g == Taken(f, e)
  <2>3. Insert(q, e) = (q \ {f}) \cup {g}
    BY <1>5, <2>2 DEF Insert, Taken
  <2>4. SameSource(g, f)
    BY <1>5, <2>1, TakenSource
  <2>5. g.issue = n /\ g.ord = f.ord
    BY <1>1, <2>1 DEF Taken, Updates
  <2> HIDE DEF g
  <2>6. \A x \in q \ {f} : (x.nba /\ x.pid = g.pid /\ x.sig = g.sig) => Before(x, g)
    <3> SUFFICES ASSUME NEW x \in q \ {f}, x.nba, x.pid = g.pid, x.sig = g.sig
                 PROVE  Before(x, g)
      OBVIOUS
    <3>1. x.time = f.time /\ DOMAIN x.wr = DOMAIN f.wr
      BY <1>2, <2>1
    <3>2. x.delta # f.delta
      BY <1>5, <2>1, <2>2, <2>4, <3>1 DEF SameSlot, SameKey, SameSource
    <3>3. x.delta <= d /\ f.delta = d /\ x.delta \in Nat
      BY <1>1, <1>2, <1>5 DEF SameSlot, SameKey
    <3> QED
      BY <2>4, <3>1, <3>2, <3>3 DEF Before, SameSource
  <2>7. \A x \in q : ~(g.issue < x.issue)
    BY <2>5, EventFields
  <2> QED
    BY <2>3, <2>5, <2>6, <2>7 DEF Ordered
<1>6. Ordered(Insert(q, e))
  <2>1. CASE \E f \in q : e.pid # None /\ SameSlot(e, f)
    <3>1. PICK f \in q : e.pid # None /\ SameSlot(e, f)
      BY <2>1
    <3> QED
      BY <3>1, <1>5
  <2> QED
    BY <2>1, <1>4
<1> QED
  BY <1>6 DEF e
LEMMA SubsetOrdered ==
  ASSUME NEW q, Ordered(q), NEW r, r \subseteq q
  PROVE  Ordered(r)
BY DEF Ordered

\* What OrderInv, apart from the order itself, needs of a step that queues.
Timely(g) ==
  /\ g.nba => g.time = now /\ g.delta <= delta + 1
  /\ ~stopped /\ ~finished => g.time > now \/ g.delta >= delta

LEMMA InsertTimely ==
  ASSUME NEW q, q \subseteq Events, \A f \in q : Timely(f), NEW e, Timely(e)
  PROVE  \A g \in Insert(q, e) : Timely(g)
<1>1. \A f \in q : SameSlot(e, f) => f \in Updates
  BY DEF Events, Resumes, SameSlot
<1>2. \A f \in q : SameSlot(e, f) => SameSource(Taken(f, e), f)
  BY <1>1, TakenSource
<1>3. \A f \in q : SameSlot(e, f) => Timely(Taken(f, e))
  BY <1>2 DEF Timely, SameSource
<1> QED
  BY <1>3, InsertParts

LEMMA OrderStatement ==
  ASSUME CleanDesign, TypeOK, Unique(pending), OrderInv, Statement
  PROVE  Ordered(pending') /\ \A g \in pending' : Timely(g)
<1> USE DEF OrderInv, CleanDesign
<1>0. /\ now \in Nat /\ delta \in Nat /\ pending \subseteq Events
      /\ \A f \in pending : Timely(f) /\ f.delta \in Nat
      /\ Ordered(pending)
  BY EventFields DEF TypeOK, Timely, NoneBehind
<1>1. ASSUME NEW s \in Signals, NEW w \in Writes, Blocking(s, w)
      PROVE  Ordered(pending') /\ \A g \in pending' : Timely(g)
  BY <1>0, <1>1 DEF Blocking
<1>2. ASSUME NEW p \in Sources, NEW s \in Signals, NEW w \in Writes,
             Nonblocking(p, s, w)
      PROVE  Ordered(pending') /\ \A g \in pending' : Timely(g)
  <2>1. PICK n \in Stamps :
          /\ Newest(n)
          /\ pending' = Insert(pending, Update(now, delta + 1, s, w, TRUE, p, n))
    BY <1>2 DEF Nonblocking
  <2>2. p \in Procs \cup {None} /\ n \in Nat /\ delta + 1 \in Nat
    BY <1>0, StampsAreNat DEF Sources
  <2>3. Ordered(pending')
    BY <1>0, <2>1, <2>2, InsertOrdered DEF Newest
  <2>4. Timely(Update(now, delta + 1, s, w, TRUE, p, n))
    BY <1>0 DEF Timely, Update
  <2> QED
    BY <1>0, <2>1, <2>3, <2>4, InsertTimely
<1>3. ASSUME NEW s \in Signals, NEW w \in Vectors, NEW ahead \in {0, 1},
             Direct(s, w, ahead)
      PROVE  Ordered(pending') /\ \A g \in pending' : Timely(g)
  <2>1. PICK n \in Stamps :
          pending' = Insert(pending, Update(now, delta + ahead, s, w, FALSE, None, n))
    BY <1>3 DEF Direct
  <2> DEFINE u == Update(now, delta + ahead, s, w, FALSE, None, n)
  <2>2. u.nba = FALSE /\ Timely(u)
    BY <1>0 DEF Timely, Update
  <2>3. pending' = Insert(pending, u)
    BY <2>1
  <2> HIDE DEF u
  <2> QED
    <3>1. Insert(pending, u) = pending \cup {u} /\ Ordered(Insert(pending, u))
      BY <1>0, <2>2, InsertOther
    <3> QED
      BY <1>0, <2>2, <2>3, <3>1
<1>4. ASSUME NEW s \in Signals, NEW w \in Vectors, NEW d \in WireDelays,
             Transport(s, w, d)
      PROVE  Ordered(pending') /\ \A g \in pending' : Timely(g)
  <2>1. PICK n \in Stamps :
          pending' = Insert(pending, Update(now + d, 0, s, w, FALSE, None, n))
    BY <1>4 DEF Transport
  <2> DEFINE u == Update(now + d, 0, s, w, FALSE, None, n)
  <2>2. u.nba = FALSE /\ Timely(u)
    BY <1>0, KernelAssumption DEF Timely, Update
  <2>3. pending' = Insert(pending, u)
    BY <2>1
  <2> HIDE DEF u
  <2> QED
    <3>1. Insert(pending, u) = pending \cup {u} /\ Ordered(Insert(pending, u))
      BY <1>0, <2>2, InsertOther
    <3> QED
      BY <1>0, <2>2, <2>3, <3>1
<1>5. ASSUME NEW s \in Signals, NEW w \in Vectors, NEW d \in WireDelays,
             Inertial(s, w, d)
      PROVE  Ordered(pending') /\ \A g \in pending' : Timely(g)
  <2> DEFINE q == WithoutPulses(pending, s, now + d)
  <2>1. PICK n \in Stamps :
          pending' = Insert(q, Update(now + d, 0, s, w, FALSE, None, n))
    BY <1>5 DEF Inertial
  <2> DEFINE u == Update(now + d, 0, s, w, FALSE, None, n)
  <2>2. u.nba = FALSE /\ Timely(u)
    BY <1>0, KernelAssumption DEF Timely, Update
  <2>3. q \subseteq pending
    BY DEF WithoutPulses
  <2>4. Ordered(q)
    BY <2>3, SubsetOrdered
  <2>5. pending' = Insert(q, u)
    BY <2>1
  <2> HIDE DEF q, u
  <2> QED
    <3>1. Insert(q, u) = q \cup {u} /\ Ordered(Insert(q, u))
      BY <2>2, <2>4, InsertOther
    <3> QED
      BY <1>0, <2>2, <2>3, <2>5, <3>1
<1>6. ASSUME NEW d \in StmtDelays, Delayed(d)
      PROVE  Ordered(pending') /\ \A g \in pending' : Timely(g)
  <2>1. PICK n \in Stamps : pending' = pending \cup {Resume(now + d, n)}
    BY <1>6 DEF Delayed
  <2> DEFINE u == Resume(now + d, n)
  <2>2. u.nba = FALSE /\ Timely(u)
    BY <1>0, KernelAssumption DEF Timely, Resume
  <2> HIDE DEF u
  <2>3. pending' = pending \cup {u}
    BY <2>1 DEF u
  <2> QED
    BY <1>0, <2>2, <2>3 DEF Ordered
<1>7. CASE StopTask \/ FinishTask
  BY <1>0, <1>7 DEF StopTask, FinishTask
<1> QED
  BY <1>1, <1>2, <1>3, <1>4, <1>5, <1>6, <1>7 DEF Statement

LEMMA OrderEngine ==
  ASSUME KernelInv, OrderInv, Engine
  PROVE  OrderInv'
<1> USE DEF OrderInv
<1>0. /\ TypeOK /\ now \in Nat /\ delta \in Nat /\ endTime \in Nat
      /\ \A e \in pending : e.time \in Nat /\ e.delta \in Nat
  BY EventFields DEF KernelInv, TypeOK
<1>1. CASE RunEnd \/ LoopDetected
  <2>1. /\ pending' = pending /\ now' = now /\ delta' = delta + 1 /\ pc' = "idle"
        /\ pc = "head"
    BY <1>1 DEF RunEnd, LoopDetected, Return
  <2>2. ~stopped' /\ ~finished' => \A e \in pending : e.time > now
    <3> SUFFICES ASSUME ~stopped', ~finished', NEW e \in pending
                 PROVE  e.time > now
      OBVIOUS
    <3>1. RunEnd /\ ~stopped /\ ~finished
      BY <1>1 DEF RunEnd, LoopDetected, Return
    <3>2. PICK h \in pending : IsHead(h) /\ h.time > endTime
      BY <3>1 DEF RunEnd
    <3>3. e.time >= h.time
      BY <1>0, <3>2, HeadFirst
    <3> QED
      BY <1>0, <2>1, <3>2, <3>3
  <2> QED
    BY <1>0, <2>1, <2>2 DEF NoneBehind
<1>2. CASE BeginBatch
  <2>1. PICK h \in pending :
          /\ IsHead(h) /\ ~stopped /\ ~finished /\ h.time <= endTime
          /\ now' = h.time /\ delta' = h.delta
    BY <1>2 DEF BeginBatch, Due
  <2>2. /\ pending' = pending /\ endTime' = endTime
        /\ stopped' = stopped /\ finished' = finished
    BY <1>2 DEF BeginBatch, client
  <2>3. h.time >= now /\ (h.time > now \/ h.delta >= delta)
    BY <2>1 DEF KernelInv, NothingOverdue, NoneBehind
  <2>4. ASSUME NEW e \in pending
        PROVE  /\ e.time > now' \/ e.delta >= delta'
               /\ e.nba => e.time = now' /\ e.delta <= delta' + 1
    <3>1. e.time > h.time \/ (e.time = h.time /\ e.delta >= h.delta)
      BY <1>0, <2>1, HeadFirst
    <3> QED
      BY <1>0, <2>1, <2>3, <3>1
  <2> QED
    BY <1>0, <2>1, <2>2, <2>4 DEF NoneBehind
<1>3. CASE InitDone \/ ApplyUpdate \/ ApplyResume \/ ResumeDone \/ ApplyDone
           \/ (\E s \in Signals : TriggerDone(s))
           \/ (\E ns \in SUBSET Signals : ResolveNets(ns))
  <2>1. /\ pending' \subseteq pending /\ now' = now /\ delta' = delta
        /\ stopped' = stopped /\ finished' = finished /\ endTime' = endTime
        /\ pc \notin {"idle", "set"}
    BY <1>3 DEF InitDone, ApplyUpdate, ApplyResume, ResumeDone, ApplyDone,
       TriggerDone, ResolveNets, client, locals
  <2> QED
    BY <2>1, SubsetOrdered DEF NoneBehind
<1> QED
  BY <1>1, <1>2, <1>3 DEF Engine
LEMMA OrderClient ==
  ASSUME CleanDesign, TypeOK, OrderInv, Client
  PROVE  OrderInv'
<1> USE DEF OrderInv
<1>0. /\ now \in Nat /\ delta \in Nat /\ pending \subseteq Events
      /\ \A f \in pending : Timely(f)
      /\ Ordered(pending)
  BY DEF TypeOK, Timely, NoneBehind
<1>1. ASSUME NEW s \in Signals, NEW w \in Vectors, SetSignal(s, w)
      PROVE  OrderInv'
  <2>1. PICK n \in Stamps :
          pending' = Insert(pending, Update(now, delta, s, w, FALSE, None, n))
    BY <1>1 DEF SetSignal
  <2>2. /\ now' = now /\ delta' = delta /\ stopped' = stopped
        /\ finished' = finished /\ pc' = "idle"
    BY <1>1 DEF SetSignal, client
  <2> DEFINE u == Update(now, delta, s, w, FALSE, None, n)
  <2>3. u.nba = FALSE /\ Timely(u)
    BY <1>0 DEF Timely, Update
  <2>4. pending' = Insert(pending, u)
    BY <2>1
  <2> HIDE DEF u
  <2>5. Insert(pending, u) = pending \cup {u} /\ Ordered(Insert(pending, u))
    BY <1>0, <2>3, InsertOther
  <2>6. \A g \in pending' : Timely(g)
    BY <1>0, <2>3, <2>4, <2>5
  <2> QED
    BY <2>2, <2>4, <2>5, <2>6 DEF Timely, NoneBehind
<1>2. CASE Continue
  BY <1>2 DEF Continue, CleanDesign
<1>3. ASSUME NEW d \in Durations, RunBegin(d) PROVE OrderInv'
  <2>1. /\ now' = now /\ delta' = delta /\ stopped' = stopped /\ pending' = pending
        /\ finished' = finished /\ endTime' = now + d
    BY <1>3 DEF RunBegin, client
  <2> QED
    BY <1>0, <2>1, KernelAssumption DEF NoneBehind
<1>4. ASSUME NEW s \in Signals, NEW w \in Vectors, SetFirst(s, w) PROVE OrderInv'
  BY <1>4 DEF SetFirst, NoneBehind, client
<1> QED
  BY <1>1, <1>2, <1>3, <1>4 DEF Client

LEMMA OrderStep ==
  CleanDesign /\ KernelInv /\ Unique(pending) /\ OrderInv /\ [Next]_vars => OrderInv'
<1> SUFFICES ASSUME CleanDesign, KernelInv, Unique(pending), OrderInv, [Next]_vars
             PROVE  OrderInv'
  OBVIOUS
<1>0. TypeOK
  BY DEF KernelInv
<1>1. CASE Statement
  <2>1. /\ now' = now /\ delta' = delta /\ pc' = pc
    BY <1>0, <1>1, StatementCarried
  <2>2. Ordered(pending') /\ \A g \in pending' : Timely(g)
    BY <1>0, <1>1, OrderStatement
  <2>3. endTime' = endTime
        /\ \/ stopped' = stopped /\ finished' = finished
           \/ stopped' = TRUE
           \/ finished' = TRUE
    <3>1. CASE StopTask
      BY <3>1 DEF StopTask, locals
    <3>2. CASE FinishTask
      BY <3>2 DEF FinishTask, locals
    <3>3. CASE ~StopTask /\ ~FinishTask
      BY <1>1, <3>3 DEF Statement, Blocking, Nonblocking, Direct, Transport,
         Inertial, Delayed, Schedules, client, locals
    <3> QED
      BY <3>1, <3>2, <3>3
  <2> QED
    BY <2>1, <2>2, <2>3 DEF OrderInv, Timely, NoneBehind
<1>2. CASE Client
  BY <1>0, <1>2, OrderClient
<1>3. CASE Engine
  BY <1>3, OrderEngine
<1>4. CASE UNCHANGED vars
  BY <1>4 DEF vars, client, locals, OrderInv, NoneBehind, Ordered
<1> QED
  BY <1>1, <1>2, <1>3, <1>4 DEF Next

\* "Last assignment wins": in a clean design, whatever the processes, stops and
\* runs, two NBAs of one source to one signal at one time are applied in the
\* order of issue (schedule_event and the loop of uir_sim_run together).
THEOREM LastAssignmentWins ==
  ASSUME CleanDesign
  PROVE  Spec => []NbaSourceOrder
<1>1. Init => OrderInv /\ Unique(pending)
  BY DEF Init, OrderInv, Ordered, Unique, NoneBehind
<1>2. OrderInv => NbaSourceOrder
  BY DEF OrderInv, Ordered, NbaSourceOrder
<1>3. KernelInv /\ Unique(pending) /\ [Next]_vars => Unique(pending)'
  BY SlotStep DEF KernelInv
<1>4. KernelInv /\ Unique(pending) /\ OrderInv /\ [Next]_vars => OrderInv'
  BY OrderStep
<1> QED
  BY <1>1, <1>2, <1>3, <1>4, KernelInit, KernelStep, PTL DEF Spec

-----------------------------------------------------------------------------
(* Inertial delay.                                                         *)

\* A design whose signals are updated by one delayed assign each, all of one
\* delay, and by the NBAs of processes: nothing else drives them through the queue.
OneAssignEach ==
  /\ "direct" \notin Effects /\ "transport" \notin Effects /\ "set" \notin Api
  /\ \A c, d \in WireDelays : c = d

\* An update an assign queued.
Pulse(e) == ~e.stmt /\ ~e.nba

\* Invariant: a pulse comes after the assign's delay at the latest.  So the filter,
\* which drops those before that time, leaves none at any other time.
PulsesIn(q) ==
  /\ \A e \in q, d \in WireDelays : Pulse(e) => e.time <= now + d
  /\ \A e, f \in q : Pulse(e) /\ Pulse(f) /\ e.sig = f.sig => e.time = f.time

LEMMA OthersKeepPulses ==
  ASSUME PulsesIn(pending), NEW q,
         \A g \in q : Pulse(g) => \E f \in pending :
                        Pulse(f) /\ g.time = f.time /\ g.sig = f.sig
  PROVE  PulsesIn(q)
BY DEF PulsesIn

LEMMA InertialPulses ==
  ASSUME OneAssignEach, TypeOK, PulsesIn(pending),
         NEW s \in Signals, NEW w \in Vectors, NEW d \in WireDelays, Inertial(s, w, d)
  PROVE  PulsesIn(pending')
<1> DEFINE q == WithoutPulses(pending, s, now + d)
<1>0. now \in Nat /\ d \in Nat /\ \A e \in pending : e.time \in Nat
  BY EventFields, KernelAssumption DEF TypeOK
<1>1. PICK n \in Stamps :
        pending' = Insert(q, Update(now + d, 0, s, w, FALSE, None, n))
  BY DEF Inertial
<1> DEFINE u == Update(now + d, 0, s, w, FALSE, None, n)
<1>2. /\ u.pid = None /\ u.time = now + d /\ u.sig = s /\ Pulse(u)
  BY DEF Update, Pulse
<1>3. pending' = q \cup {u}
  <2> HIDE DEF u, q
  <2> QED
    BY <1>1, <1>2 DEF Insert, u
<1>4. \A c \in WireDelays : c = d
  BY DEF OneAssignEach
<1>5. ASSUME NEW e \in q, Pulse(e), e.sig = s PROVE e.time = now + d
  <2>1. e \in pending /\ e.time >= now + d
    BY <1>5 DEF WithoutPulses, Pulse
  <2>2. e.time <= now + d
    BY <1>5, <2>1 DEF PulsesIn
  <2> QED
    BY <1>0, <2>1, <2>2
<1>6. q \subseteq pending
  BY DEF WithoutPulses
<1> HIDE DEF u, q
<1>7. \A e \in pending', c \in WireDelays : Pulse(e) => e.time <= now + c
  BY <1>0, <1>2, <1>3, <1>4, <1>6 DEF PulsesIn
<1>8. \A e, f \in pending' : Pulse(e) /\ Pulse(f) /\ e.sig = f.sig => e.time = f.time
  <2> SUFFICES ASSUME NEW e \in pending', NEW f \in pending',
                      Pulse(e), Pulse(f), e.sig = f.sig
               PROVE  e.time = f.time
    OBVIOUS
  <2>1. CASE e.sig = s
    BY <1>2, <1>3, <1>5, <2>1
  <2>2. CASE e.sig # s
    BY <1>2, <1>3, <1>6, <2>2 DEF PulsesIn
  <2> QED
    BY <2>1, <2>2
<1> QED
  BY <1>7, <1>8 DEF PulsesIn

LEMMA StatementPulses ==
  ASSUME OneAssignEach, TypeOK, PulsesIn(pending), Statement
  PROVE  PulsesIn(pending')
<1>1. ASSUME NEW p \in Sources, NEW s \in Signals, NEW w \in Writes,
             Nonblocking(p, s, w)
      PROVE  PulsesIn(pending')
  <2>1. PICK n \in Stamps :
          pending' = Insert(pending, Update(now, delta + 1, s, w, TRUE, p, n))
    BY <1>1 DEF Nonblocking
  <2> DEFINE u == Update(now, delta + 1, s, w, TRUE, p, n)
  <2>2. u.nba = TRUE
    BY DEF Update
  <2>3. pending' = Insert(pending, u)
    BY <2>1
  <2> HIDE DEF u
  <2>4. ASSUME NEW g \in pending', Pulse(g) PROVE g \in pending
    <3>1. g # u
      BY <2>2, <2>4 DEF Pulse
    <3>2. ASSUME NEW f \in pending, SameSlot(u, f), g = Taken(f, u) PROVE FALSE
      <4>1. g.nba = f.nba
        BY <3>2 DEF Taken
      <4> QED
        BY <2>4, <3>2, <4>1 DEF SameSlot, Pulse
    <3> QED
      BY <2>3, <3>1, <3>2, InsertParts
  <2> QED
    BY <2>4, OthersKeepPulses
<1>2. ASSUME NEW s \in Signals, NEW w \in Vectors, NEW d \in WireDelays,
             Inertial(s, w, d)
      PROVE  PulsesIn(pending')
  BY <1>2, InertialPulses
<1>3. ASSUME NEW d \in StmtDelays, Delayed(d) PROVE PulsesIn(pending')
  <2>1. PICK n \in Stamps : pending' = pending \cup {Resume(now + d, n)}
    BY <1>3 DEF Delayed
  <2>2. ~Pulse(Resume(now + d, n))
    BY DEF Resume, Pulse
  <2> QED
    BY <2>1, <2>2, OthersKeepPulses
<1>4. CASE (\E s \in Signals, w \in Writes : Blocking(s, w)) \/ StopTask \/ FinishTask
  BY <1>4 DEF Blocking, StopTask, FinishTask
<1>5. ~(\E s \in Signals, w \in Vectors, ahead \in {0, 1} : Direct(s, w, ahead))
  BY DEF Direct, Enabled, OneAssignEach
<1>6. ~(\E s \in Signals, w \in Vectors, d \in WireDelays : Transport(s, w, d))
  BY DEF Transport, Enabled, OneAssignEach
<1> QED
  BY <1>1, <1>2, <1>3, <1>4, <1>5, <1>6 DEF Statement

LEMMA PulsesStep ==
  OneAssignEach /\ KernelInv /\ PulsesIn(pending) /\ [Next]_vars => PulsesIn(pending)'
<1> SUFFICES ASSUME OneAssignEach, KernelInv, PulsesIn(pending), [Next]_vars
             PROVE  PulsesIn(pending)'
  OBVIOUS
<1>0. TypeOK /\ now \in Nat /\ WireDelays \subseteq Nat
  BY KernelAssumption DEF KernelInv, TypeOK
<1>1. PulsesIn(pending')
  <2>1. CASE Statement
    BY <1>0, <2>1, StatementPulses
  <2>2. CASE Engine
    <3>1. pending' \subseteq pending
      BY <2>2 DEF Engine, InitDone, RunEnd, LoopDetected, Return, BeginBatch,
         ApplyUpdate, ApplyResume, ResumeDone, ApplyDone, TriggerDone, ResolveNets
    <3> QED
      BY <3>1, OthersKeepPulses
  <2>3. CASE Client
    <3>1. pending' = pending
      BY <2>3 DEF Client, SetFirst, SetSignal, Continue, RunBegin, OneAssignEach
    <3> QED
      BY <3>1
  <2>4. CASE UNCHANGED vars
    BY <2>4 DEF vars
  <2> QED
    BY <2>1, <2>2, <2>3, <2>4 DEF Next
<1>2. now' >= now /\ KernelInv'
  BY KernelStep
<1>3. now' \in Nat /\ \A e \in pending' : e.time \in Nat
  BY <1>2, EventFields DEF KernelInv, TypeOK
<1> QED
  BY <1>0, <1>1, <1>2, <1>3 DEF PulsesIn

\* Inertial delay: where one delayed assign drives each signal beside processes, a
\* change of its right-hand side leaves no pulse of an earlier one in the queue,
\* across batches, runs and stops (the filter of a delayed continuous assignment).
THEOREM NoPulseIsStale ==
  ASSUME OneAssignEach
  PROVE  Spec => []NoStalePulse
<1>1. Init => PulsesIn(pending)
  BY DEF Init, PulsesIn
<1>2. PulsesIn(pending) => NoStalePulse
  BY DEF PulsesIn, NoStalePulse, Pulse
<1>3. KernelInv /\ PulsesIn(pending) /\ [Next]_vars => PulsesIn(pending)'
  BY PulsesStep
<1> QED
  BY <1>1, <1>2, <1>3, KernelInit, KernelStep, PTL DEF Spec
=============================================================================
