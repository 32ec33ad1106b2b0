------------------------ MODULE ParallelBatch_proofs ------------------------
(***************************************************************************)
(* For every design and any number of threads, no signal whose writes the  *)
(* static walk finds is raced for in a parallel batch, and every process   *)
(* with a write it finds is triggered that a serial batch would trigger.   *)
(*                                                                         *)
(* Both rest on one fact about the partitions (SameOwner): the two ends of *)
(* an edge have the same owner.  So all found writes of a process belong   *)
(* to the thread that runs it, and if there is one, all signals it is      *)
(* sensitive to are on that thread's change list.                          *)
(***************************************************************************)
EXTENDS ParallelBatch, Segments

\* The two ends of an edge belong to one thread.
LEMMA SameOwner ==
  ASSUME NEW d, NEW u \in Signals, NEW v \in Signals, <<u, v>> \in Edges(d)
  PROVE  Owners(d)[u] = Owners(d)[v]
<1>1. \A S \in SUBSET Signals : Closed(d, S) => (u \in S <=> v \in S)
  BY DEF Closed
<1>2. Component(d, u) = Component(d, v)
  BY <1>1 DEF Component
<1>. QED
  BY <1>2 DEF Owners, Partition

\* A process makes an edge from each signal it is sensitive to, to each found write.
LEMMA ProcessEdge ==
  ASSUME NEW d, NEW p \in Procs, NEW u \in d.sens[p], NEW v \in d.found[p]
  PROVE  <<u, v>> \in Edges(d)
<1>1. <<u, v>> \in d.sens[p] \X d.found[p]
  OBVIOUS
<1>2. d.sens[p] \X d.found[p] \in {d.sens[q] \X d.found[q] : q \in Procs}
  OBVIOUS
<1>3. <<u, v>> \in UNION {d.sens[q] \X d.found[q] : q \in Procs}
  BY <1>1, <1>2
<1>. QED
  BY <1>3 DEF Edges

\* The thread that runs a process owns what it is found to write.
LEMMA WritesOwned ==
  ASSUME NEW d \in Designs, Admissible(d), NEW p \in Procs, NEW s \in d.found[p]
  PROVE  Owners(d)[s] = Owners(d)[d.head[p]]
<1>1. d.head[p] \in d.sens[p] /\ d.head[p] \in Signals /\ s \in Signals
  BY DEF Designs, Admissible, IdleProcess
<1>2. <<d.head[p], s>> \in Edges(d)
  BY <1>1, ProcessEdge
<1>. QED
  BY <1>1, <1>2, SameOwner

\* ... and what it is sensitive to.
LEMMA SensOwned ==
  ASSUME NEW d \in Designs, Admissible(d), NEW p \in Procs, NEW s \in d.sens[p],
         d.found[p] # {} \/ d.sens[p] = {s}
  PROVE  Owners(d)[s] = Owners(d)[d.head[p]]
<1>0. CASE d.sens[p] = {s}
  BY <1>0 DEF Admissible
<1>. SUFFICES ASSUME d.found[p] # {} PROVE Owners(d)[s] = Owners(d)[d.head[p]]
  BY <1>0
<1>1. PICK w \in d.found[p] : TRUE
  OBVIOUS
<1>2. s \in Signals /\ w \in Signals
  BY DEF Designs
<1>3. <<s, w>> \in Edges(d)
  BY ProcessEdge
<1>4. Owners(d)[s] = Owners(d)[w]
  BY <1>2, <1>3, SameOwner
<1>. QED
  BY <1>4, WritesOwned

\* Every signal is dealt out to a thread.
LEMMA OwnersType == ASSUME NEW d PROVE Owners(d) \in [Signals -> Threads]
<1>1. ASSUME NEW s \in Signals PROVE Partition(d, s) \in Nat
  <2>1. IsFiniteSet({f \in Firsts(d) : \A u \in Component(d, s) : f < u})
    BY FS_Subset, DesignAssumption DEF Firsts
  <2>. QED
    BY <2>1, FS_CardinalityType DEF Partition
<1>. QED
  BY <1>1, DesignAssumption DEF Owners, Threads

-----------------------------------------------------------------------------
(* Races.                                                                  *)

\* The design and its partitions never change.
Fixed ==
  /\ design \in Designs /\ Admissible(design) /\ owner = Owners(design)

\* A signal no body wrote unseen is written by its owner only.
RaceInv ==
  /\ Fixed /\ DOMAIN wrote = Signals
  /\ \A s \in Signals \ unseen : wrote[s] \subseteq {owner[s]}

LEMMA RaceInductive == Spec => []RaceInv
<1>1. Init => RaceInv
  BY DEF Init, RaceInv, Fixed, Nobody
<1>2. ASSUME RaceInv, [Next]_vars PROVE RaceInv'
  <2>. USE DEF RaceInv
  <2>1. Fixed'
    BY <1>2 DEF Fixed, Next, vars, Pop, ApplyDone, Evaluate, EvaluateDone, Merge, Apply, RunProcess
  <2>2. owner' = owner
    BY <1>2 DEF Next, vars, Pop, ApplyDone, Evaluate, EvaluateDone, Merge, Apply, RunProcess
  <2>3. CASE Pop \/ Merge \/ UNCHANGED vars
    BY <1>2, <2>1, <2>3 DEF Pop, Merge, vars
  <2>4. CASE ApplyDone \/ EvaluateDone
    BY <1>2, <2>1, <2>4 DEF ApplyDone, EvaluateDone, Nobody
  <2>5. ASSUME NEW t \in Threads, Apply(t) PROVE RaceInv'
    BY <1>2, <2>1, <2>5 DEF Apply
  <2>6. ASSUME NEW t \in Threads, RunProcess(t) PROVE RaceInv'
    <3>1. PICK r \in Runs(t) :
            \/ \E others \in SUBSET (Signals \ design.found[r[1]]) :
                 /\ wrote' = [s \in Signals |-> IF s \in design.found[r[1]] \cup others
                                              THEN wrote[s] \cup {t} ELSE wrote[s]]
                 /\ unseen' = unseen \cup others
            \/ UNCHANGED <<wrote, unseen>>
      BY <2>6 DEF RunProcess
    <3>2. r[1] \in Procs /\ owner[design.head[r[1]]] = t
      BY DEF Runs, ProcsOf
    <3>3. \A s \in design.found[r[1]] : owner[s] = t
      BY <1>2, <3>2, WritesOwned DEF Fixed
    <3>. QED
      BY <1>2, <2>1, <2>2, <3>1, <3>3
  <2>7. CASE Evaluate
    <3>1. PICK A \in SUBSET AssignsOf(leader) :
            wrote' = [u \in Signals |-> IF u \in {design.lhs[a] : a \in A} THEN wrote[u] \cup {leader} ELSE wrote[u]]
      BY <2>7 DEF Evaluate
    <3>2. unseen' = unseen /\ \A a \in A : owner[design.lhs[a]] = leader
      BY <2>7 DEF AssignsOf, Evaluate
    <3>. QED
      BY <1>2, <2>1, <2>2, <3>1, <3>2
  <2>. QED
    BY <1>2, <2>3, <2>4, <2>5, <2>6, <2>7 DEF Next
<1>. QED
  BY <1>1, <1>2, PTL DEF Spec

\* No signal whose writes the static walk finds is written by two threads in one
\* phase, whatever the design and whatever else its bodies write unseen.
THEOREM NoWriteRace == Spec => []WriteRaceFree
<1>1. RaceInv => WriteRaceFree
  BY DEF RaceInv, WriteRaceFree
<1>. QED
  BY RaceInductive, <1>1, PTL

-----------------------------------------------------------------------------
(* Triggering.                                                             *)

\* What moved is on its owner's list.
Listed ==
  /\ moved \subseteq Signals /\ \A s \in moved : s \in changes[owner[s]]
  /\ todo \subseteq changes[leader] /\ DOMAIN changes = Threads

\* From the pop on what moved is listed, and at the end nothing is left to run.
TriggerInv ==
  /\ Fixed /\ batch \subseteq Signals /\ stage \in {"pop", "apply", "ca", "process", "done"}
  /\ stage = "pop" => todo = {} /\ moved = {}
  /\ stage # "pop" => Listed
  /\ stage = "done" => \A t \in Threads : Runs(t) = {}

LEMMA TriggerInductive == Spec => []TriggerInv
<1>. leader \in Threads
  BY DesignAssumption DEF leader, Threads
<1>1. Init => TriggerInv
  BY DEF Init, TriggerInv, Fixed
<1>2. ASSUME TriggerInv, [Next]_vars PROVE TriggerInv'
  <2>. USE DEF TriggerInv
  <2>1. Fixed'
    BY <1>2 DEF Fixed, Next, vars, Pop, ApplyDone, Evaluate, EvaluateDone, Merge, Apply, RunProcess
  <2>2. owner \in [Signals -> Threads] /\ owner' = owner
    BY <1>2, OwnersType
       DEF Fixed, Next, vars, Pop, ApplyDone, Evaluate, EvaluateDone, Merge, Apply, RunProcess
  <2>3. CASE Pop
    BY <1>2, <2>1, <2>3 DEF Pop, Listed
  <2>4. CASE ApplyDone
    BY <1>2, <2>1, <2>4 DEF ApplyDone, Listed
  <2>5. CASE EvaluateDone
    BY <1>2, <2>1, <2>5 DEF EvaluateDone, Listed
  <2>6. CASE Merge
    BY <1>2, <2>1, <2>6 DEF Merge, Listed, Runs, ProcsOf
  <2>7. CASE UNCHANGED vars
    BY <1>2, <2>1, <2>7 DEF vars, Listed, Runs, ProcsOf
  <2>8. ASSUME NEW t \in Threads, Apply(t) PROVE TriggerInv'
    <3>1. PICK s \in batch :
            /\ owner[s] = t
            /\ \/ moved' = moved \cup {s} /\ changes' = [changes EXCEPT ![t] = @ \cup {s}]
               \/ UNCHANGED <<moved, changes>>
      BY <2>8 DEF Apply
    <3>2. stage = "apply" /\ s \in Signals /\ UNCHANGED <<stage, todo>> /\ batch' \subseteq Signals
      BY <1>2, <2>8 DEF Apply
    <3>3. Listed'
      <4>. Listed
        BY <1>2, <3>2
      <4>1. CASE moved' = moved \cup {s} /\ changes' = [changes EXCEPT ![t] = @ \cup {s}]
        BY <2>2, <3>1, <3>2, <4>1 DEF Listed
      <4>2. CASE UNCHANGED <<moved, changes>>
        BY <2>2, <3>2, <4>2 DEF Listed
      <4>. QED
        BY <3>1, <4>1, <4>2
    <3>. QED
      BY <2>1, <3>2, <3>3
  <2>9. ASSUME NEW t \in Threads, RunProcess(t) PROVE TriggerInv'
    <3>1. stage = "process" /\ UNCHANGED <<owner, batch, stage, changes, moved, todo>>
      BY <2>9 DEF RunProcess
    <3>. QED
      BY <1>2, <2>1, <3>1 DEF Listed
  <2>10. CASE Evaluate
    <3>1. PICK s \in todo, new \in SUBSET {design.lhs[a] : a \in AssignsOf(leader)} :
            /\ moved' = moved \cup new
            /\ changes' = [changes EXCEPT ![leader] = @ \cup (new \ {s})]
            /\ todo' = (todo \ {s}) \cup ((new \ {s}) \ changes[leader])
      <4>1. PICK s \in todo : \E new \in SUBSET {design.lhs[a] : a \in AssignsOf(leader)} :
              /\ moved' = moved \cup new
              /\ changes' = [changes EXCEPT ![leader] = @ \cup (new \ {s})]
              /\ todo' = (todo \ {s}) \cup ((new \ {s}) \ changes[leader])
        <5>1. PICK s \in todo :
                LET hit  == {a \in AssignsOf(leader) : s \in design.deps[a]}
                    late == {a \in hit : design.delayed[a]}
                IN  \E new \in SUBSET {design.lhs[a] : a \in hit \ late} :
                      /\ moved' = moved \cup new
                      /\ changes' = [changes EXCEPT ![leader] = @ \cup (new \ {s})]
                      /\ todo' = (todo \ {s}) \cup ((new \ {s}) \ changes[leader])
          BY <2>10 DEF Evaluate
        <5>2. PICK new \in SUBSET {design.lhs[a] : a \in {b \in AssignsOf(leader) : s \in design.deps[b]}
                                        \ {b \in {c \in AssignsOf(leader) : s \in design.deps[c]} : design.delayed[b]}} :
                /\ moved' = moved \cup new
                /\ changes' = [changes EXCEPT ![leader] = @ \cup (new \ {s})]
                /\ todo' = (todo \ {s}) \cup ((new \ {s}) \ changes[leader])
          BY <5>1, Zenon
        <5>3. new \in SUBSET {design.lhs[a] : a \in AssignsOf(leader)}
          OBVIOUS
        <5>. QED
          BY <5>2, <5>3, Zenon
      <4>. QED
        BY <4>1
    <3>2. ASSUME NEW u \in new PROVE u \in Signals /\ owner[u] = leader
      <4>1. PICK a \in AssignsOf(leader) : u = design.lhs[a]
        BY <3>1
      <4>2. design.lhs \in [Assigns -> Signals]
        BY <1>2 DEF Fixed, Designs
      <4>. QED
        BY <4>1, <4>2 DEF AssignsOf
    <3>3. Listed /\ stage = "ca" /\ UNCHANGED <<batch, stage>>
      BY <1>2, <2>10 DEF Evaluate
    <3>4. Listed'
      BY <2>2, <3>1, <3>2, <3>3 DEF Listed
    <3>. QED
      BY <1>2, <2>1, <3>3, <3>4
  <2>. QED
    BY <1>2, <2>3, <2>4, <2>5, <2>6, <2>7, <2>8, <2>9, <2>10 DEF Next
<1>. QED
  BY <1>1, <1>2, PTL DEF Spec

\* Of the processes with a found write or one signal they are sensitive to, the
\* threads run, for the changes by updates and assigns, every one that a serial
\* batch would, whatever the design.
THEOREM EveryProcessRuns == Spec => []ProcessesTriggered
<1>1. ASSUME TriggerInv PROVE ProcessesTriggered
  <2>. SUFFICES ASSUME stage = "done", NEW p \in Procs, NEW s \in moved, s \in design.sens[p],
                       design.found[p] # {} \/ design.sens[p] = {s}
                PROVE  <<p, s>> \in ran
    BY DEF ProcessesTriggered
  <2>1. Listed /\ Fixed
    BY <1>1 DEF TriggerInv
  <2>2. s \in Signals /\ design.head[p] \in Signals
    BY <2>1 DEF Listed, Fixed, Designs
  <2>3. owner[s] = owner[design.head[p]] /\ owner[s] \in Threads
    BY <2>1, <2>2, SensOwned, OwnersType DEF Fixed
  <2>4. p \in ProcsOf(owner[s]) /\ s \in changes[owner[s]]
    BY <2>1, <2>3 DEF ProcsOf, Listed
  <2>5. Runs(owner[s]) = {}
    BY <1>1, <2>3 DEF TriggerInv
  <2>. QED
    BY <2>4, <2>5 DEF Runs
<1>. QED
  BY TriggerInductive, <1>1, PTL

-----------------------------------------------------------------------------
(* Assigns.                                                                *)

\* An assign that reads a signal belongs to the thread of that signal.
LEMMA DepsOwned ==
  ASSUME NEW d \in Designs, NEW a \in Assigns, NEW s \in d.deps[a]
  PROVE  Owners(d)[s] = Owners(d)[d.lhs[a]]
<1>1. s \in Signals /\ d.lhs[a] \in Signals
  BY DEF Designs
<1>2. <<s, d.lhs[a]>> \in d.deps[a] \X {d.lhs[a]}
  OBVIOUS
<1>3. <<s, d.lhs[a]>> \in UNION {d.deps[b] \X {d.lhs[b]} : b \in Assigns}
  BY <1>2
<1>4. <<s, d.lhs[a]>> \in Edges(d)
  BY <1>3 DEF Edges
<1>. QED
  BY <1>1, <1>4, SameOwner

\* The signals on the leader's list that are no longer to be done have had the
\* leader's assigns evaluated for them.
Caught ==
  \A s \in changes[leader] \ todo : \A a \in AssignsOf(leader) :
    s \in design.deps[a] => <<a, s>> \in evaluated

CatchInv ==
  /\ stage \in {"ca", "process", "done"} => Caught
  /\ stage \in {"process", "done"} => todo = {}

LEMMA CatchInductive == Spec => []CatchInv
<1>1. Init => CatchInv
  BY DEF Init, CatchInv
<1>2. ASSUME TriggerInv, CatchInv, [Next]_vars PROVE CatchInv'
  <2>. USE DEF CatchInv
  <2>1. CASE Pop
    BY <2>1 DEF Pop
  <2>2. CASE ApplyDone
    BY <2>2 DEF ApplyDone, Caught
  <2>3. CASE EvaluateDone
    BY <1>2, <2>3 DEF EvaluateDone, Caught, AssignsOf
  <2>4. CASE Merge
    BY <1>2, <2>4 DEF Merge, Caught, AssignsOf
  <2>5. CASE UNCHANGED vars
    BY <1>2, <2>5 DEF vars, Caught, AssignsOf
  <2>6. ASSUME NEW t \in Threads, Apply(t) PROVE CatchInv'
    BY <2>6 DEF Apply
  <2>7. ASSUME NEW t \in Threads, RunProcess(t) PROVE CatchInv'
    BY <1>2, <2>7 DEF RunProcess, Caught, AssignsOf
  <2>8. CASE Evaluate
    <3>1. PICK s \in todo :
            LET hit  == {a \in AssignsOf(leader) : s \in design.deps[a]}
                late == {a \in hit : design.delayed[a]}
            IN  \E new \in SUBSET {design.lhs[a] : a \in hit \ late} :
                  /\ evaluated' = evaluated \cup (hit \X {s})
                  /\ changes' = [changes EXCEPT ![leader] = @ \cup (new \ {s})]
                  /\ todo' = (todo \ {s}) \cup ((new \ {s}) \ changes[leader])
      BY <2>8 DEF Evaluate
    <3>. DEFINE hit == {a \in AssignsOf(leader) : s \in design.deps[a]}
    <3>2. PICK new :
            /\ evaluated' = evaluated \cup (hit \X {s})
            /\ changes' = [changes EXCEPT ![leader] = @ \cup (new \ {s})]
            /\ todo' = (todo \ {s}) \cup ((new \ {s}) \ changes[leader])
      BY <3>1, Zenon
    <3>3. stage = "ca" /\ stage' = "ca" /\ design' = design /\ owner' = owner
      BY <2>8 DEF Evaluate
    <3>4. changes'[leader] = changes[leader] \cup (new \ {s})
      BY <1>2, <3>2, <3>3, DesignAssumption DEF TriggerInv, Listed, leader, Threads
    <3>5. Caught'
      <4>. SUFFICES ASSUME NEW u \in changes'[leader] \ todo', NEW a \in AssignsOf(leader),
                           u \in design.deps[a]
                    PROVE  <<a, u>> \in evaluated'
        BY <3>3 DEF Caught, AssignsOf
      <4>1. CASE u = s
        BY <3>2, <4>1
      <4>2. CASE u # s
        <5>1. u \in changes[leader] \ todo
          BY <3>2, <3>4, <4>2
        <5>. QED
          BY <1>2, <3>2, <3>3, <5>1 DEF Caught
      <4>. QED
        BY <4>1, <4>2
    <3>. QED
      BY <3>3, <3>5
  <2>. QED
    BY <1>2, <2>1, <2>2, <2>3, <2>4, <2>5, <2>6, <2>7, <2>8 DEF Next
<1>. QED
  BY <1>1, <1>2, TriggerInductive, PTL DEF Spec

\* When the assigns with inputs are in the leader's partitions, a batch evaluates,
\* whatever the design and the number of threads, every assign that reads a signal
\* an update or an assign of the batch changed.
THEOREM EveryAssignIsEvaluated ==
  ASSUME ~WorkerAssigns PROVE Spec => []AssignsEvaluated
<1>1. ASSUME TriggerInv, CatchInv PROVE AssignsEvaluated
  <2>. SUFFICES ASSUME stage = "done", NEW a \in Assigns, NEW s \in moved, s \in design.deps[a]
                PROVE  <<a, s>> \in evaluated
    BY DEF AssignsEvaluated
  <2>1. Listed /\ Fixed
    BY <1>1 DEF TriggerInv
  <2>2. owner[design.lhs[a]] = leader
    BY <2>1 DEF Fixed, Admissible
  <2>3. owner[s] = leader
    BY <2>1, <2>2, DepsOwned DEF Fixed
  <2>4. s \in changes[leader] \ todo /\ a \in AssignsOf(leader)
    BY <1>1, <2>1, <2>2, <2>3 DEF Listed, CatchInv, AssignsOf
  <2>. QED
    BY <1>1, <2>4 DEF CatchInv, Caught
<1>. QED
  BY TriggerInductive, CatchInductive, <1>1, PTL

-----------------------------------------------------------------------------
(* The merge.                                                              *)

Keys == Nat \X Nat

Sorted(q) == \A i, j \in DOMAIN q : i < j => NotAfter(q[i], q[j])

LEMMA KeyOrder ==
  ASSUME NEW k \in Keys, NEW l \in Keys, NEW m \in Keys
  PROVE  /\ NotAfter(k, k)
         /\ NotAfter(k, l) \/ NotAfter(l, k)
         /\ NotAfter(k, l) /\ NotAfter(l, m) => NotAfter(k, m)
<1>1. /\ k[1] \in Nat /\ k[2] \in Nat /\ l[1] \in Nat /\ l[2] \in Nat
      /\ m[1] \in Nat /\ m[2] \in Nat
  BY DEF Keys
<1>. QED
  BY <1>1 DEF NotAfter

\* The events that stay ahead of a list are a segment of the queue.
LEMMA SpliceParts ==
  ASSUME NEW q \in Seq(Keys), NEW list \in Seq(Keys), list # <<>>
  PROVE  \E n \in 0 .. Len(q) :
           /\ Splice(list, q) = SubSeq(q, 1, n) \o list \o SubSeq(q, n + 1, Len(q))
           /\ \A i \in 1 .. n : NotAfter(q[i], list[1])
           /\ n < Len(q) => ~NotAfter(q[n + 1], list[1])
<1>. DEFINE ahead == {i \in DOMAIN q : \A j \in 1 .. i : NotAfter(q[j], list[1])}
            n     == Cardinality(ahead)
<1>1. n \in 0 .. Len(q) /\ ahead = 1 .. n
  <2>1. Len(q) \in Nat /\ ahead \in SUBSET (1 .. Len(q))
    OBVIOUS
  <2>2. \A i \in ahead, j \in 1 .. Len(q) : j <= i => j \in ahead
    OBVIOUS
  <2>. HIDE DEF ahead
  <2>. QED
    BY <2>1, <2>2, Segment
<1>2. Splice(list, q) = SubSeq(q, 1, n) \o list \o SubSeq(q, n + 1, Len(q))
  BY DEF Splice
<1>3. \A i \in 1 .. n : NotAfter(q[i], list[1])
  <2>1. \A i \in ahead : i \in DOMAIN q /\ \A j \in 1 .. i : NotAfter(q[j], list[1])
    OBVIOUS
  <2>2. \A i \in ahead : i \in 1 .. i
    OBVIOUS
  <2>. HIDE DEF ahead, n
  <2>. QED
    BY <1>1, <2>1, <2>2
<1>4. ASSUME n < Len(q) PROVE ~NotAfter(q[n + 1], list[1])
  <2>1. n + 1 \in DOMAIN q /\ n + 1 \notin ahead
    <3>. HIDE DEF ahead, n
    <3>. QED
      BY <1>1, <1>4
  <2>2. \A i \in 1 .. n + 1 : i \in 1 .. n \/ i = n + 1
    <3>. HIDE DEF ahead, n
    <3>. QED
      BY <1>1
  <2>. HIDE DEF n
  <2>. QED
    BY <1>3, <2>1, <2>2
<1>. HIDE DEF n
<1>. QED
  BY <1>1, <1>2, <1>3, <1>4

\* The front and the back of a queue, index by index.
LEMMA PartsOf ==
  ASSUME NEW q \in Seq(Keys), NEW n \in 0 .. Len(q)
  PROVE  /\ SubSeq(q, 1, n) \in Seq(Keys) /\ Len(SubSeq(q, 1, n)) = n
         /\ \A i \in 1 .. n : SubSeq(q, 1, n)[i] = q[i]
         /\ SubSeq(q, n + 1, Len(q)) \in Seq(Keys) /\ Len(SubSeq(q, n + 1, Len(q))) = Len(q) - n
         /\ \A i \in 1 .. Len(q) - n : SubSeq(q, n + 1, Len(q))[i] = q[n + i]
<1>1. SubSeq(q, 1, n) \in Seq(Keys) /\ SubSeq(q, n + 1, Len(q)) \in Seq(Keys)
  OBVIOUS
<1>2. Len(SubSeq(q, 1, n)) = n
  OBVIOUS
<1>3. ASSUME NEW i \in 1 .. n PROVE SubSeq(q, 1, n)[i] = q[i]
  OBVIOUS
<1>4. Len(SubSeq(q, n + 1, Len(q))) = Len(q) - n
  OBVIOUS
<1>5. ASSUME NEW i \in 1 .. Len(q) - n PROVE SubSeq(q, n + 1, Len(q))[i] = q[n + i]
  OBVIOUS
<1>. QED
  BY <1>1, <1>2, <1>3, <1>4, <1>5

LEMMA SpliceType ==
  ASSUME NEW q \in Seq(Keys), NEW list \in Seq(Keys)
  PROVE  Splice(list, q) \in Seq(Keys)
<1>1. CASE list = <<>>
  BY <1>1 DEF Splice
<1>2. CASE list # <<>>
  <2>1. PICK n \in 0 .. Len(q) :
          Splice(list, q) = SubSeq(q, 1, n) \o list \o SubSeq(q, n + 1, Len(q))
    BY <1>2, SpliceParts
  <2>2. SubSeq(q, 1, n) \in Seq(Keys) /\ SubSeq(q, n + 1, Len(q)) \in Seq(Keys)
    BY PartsOf
  <2>. QED
    BY <2>1, <2>2
<1>. QED
  BY <1>1, <1>2

\* Two lists of events joined, index by index.
LEMMA JoinedKeys ==
  ASSUME NEW p \in Seq(Keys), NEW q \in Seq(Keys)
  PROVE  /\ p \o q \in Seq(Keys) /\ Len(p \o q) = Len(p) + Len(q)
         /\ DOMAIN (p \o q) = 1 .. Len(p) + Len(q)
         /\ \A i \in 1 .. Len(p) : (p \o q)[i] = p[i]
         /\ \A i \in 1 .. Len(q) : (p \o q)[Len(p) + i] = q[i]
BY Joined

\* What a queue holds after a list went in behind its first n events.
LEMMA Inserted ==
  ASSUME NEW q \in Seq(Keys), NEW list \in Seq(Keys), NEW n \in 0 .. Len(q)
  PROVE  LET r == SubSeq(q, 1, n) \o list \o SubSeq(q, n + 1, Len(q))
         IN  /\ DOMAIN r = 1 .. Len(q) + Len(list)
             /\ \A i \in 1 .. n : r[i] = q[i]
             /\ \A i \in 1 .. Len(list) : r[n + i] = list[i]
             /\ \A i \in n + 1 .. Len(q) : r[Len(list) + i] = q[i]
<1>. DEFINE r == SubSeq(q, 1, n) \o list \o SubSeq(q, n + 1, Len(q))
            x == SubSeq(q, 1, n)
            z == SubSeq(q, n + 1, Len(q))
            y == x \o list
<1>1. x \in Seq(Keys) /\ Len(x) = n /\ \A i \in 1 .. n : x[i] = q[i]
  BY PartsOf
<1>2. z \in Seq(Keys) /\ Len(z) = Len(q) - n /\ \A i \in 1 .. Len(q) - n : z[i] = q[n + i]
  BY PartsOf
<1>3. r = y \o z
  BY Zenon
<1>. HIDE DEF r
<1>. DEFINE L == Len(q)
            m == Len(list)
<1>4. L \in Nat /\ m \in Nat /\ n \in 0 .. L
  OBVIOUS
<1>. HIDE DEF x, z
<1>5. /\ y \in Seq(Keys) /\ Len(y) = n + m
      /\ \A i \in 1 .. n : y[i] = x[i]
      /\ \A i \in 1 .. m : y[n + i] = list[i]
  <2>1. Len(x) = n /\ x \in Seq(Keys)
    BY <1>1
  <2>2. /\ y \in Seq(Keys) /\ Len(y) = Len(x) + m
        /\ \A i \in 1 .. Len(x) : y[i] = x[i]
        /\ \A i \in 1 .. m : y[Len(x) + i] = list[i]
    BY <2>1, JoinedKeys
  <2>. HIDE DEF y, m
  <2>. QED
    BY <2>1, <2>2
<1>. HIDE DEF y
<1>6. /\ DOMAIN r = 1 .. (n + m) + (L - n)
      /\ \A i \in 1 .. n + m : r[i] = y[i]
      /\ \A i \in 1 .. L - n : r[(n + m) + i] = z[i]
  <2>1. Len(y) = n + m /\ Len(z) = L - n
    BY <1>2, <1>5
  <2>2. /\ DOMAIN (y \o z) = 1 .. Len(y) + Len(z)
        /\ \A i \in 1 .. Len(y) : (y \o z)[i] = y[i]
        /\ \A i \in 1 .. Len(z) : (y \o z)[Len(y) + i] = z[i]
    BY <1>2, <1>5, JoinedKeys
  <2>. HIDE DEF L, m
  <2>. QED
    BY <1>3, <2>1, <2>2
<1>. HIDE DEF L, m
<1>7. DOMAIN r = 1 .. L + m
  <2>1. (n + m) + (L - n) = L + m
    BY <1>4
  <2>. QED
    BY <1>6, <2>1
<1>8. ASSUME NEW i \in 1 .. n PROVE r[i] = q[i]
  <2>1. i \in 1 .. n + m
    BY <1>4
  <2>. QED
    BY <1>1, <1>5, <1>6, <2>1
<1>9. ASSUME NEW i \in 1 .. m PROVE r[n + i] = list[i]
  <2>1. n + i \in 1 .. n + m
    BY <1>4
  <2>. QED
    BY <1>5, <1>6, <2>1
<1>10. ASSUME NEW i \in n + 1 .. L PROVE r[m + i] = q[i]
  <2>1. PICK k \in 1 .. L - n : (n + m) + k = m + i /\ n + k = i
    <3>1. i - n \in 1 .. L - n /\ (n + m) + (i - n) = m + i /\ n + (i - n) = i
      BY <1>4
    <3>. QED
      BY <3>1
  <2>2. r[(n + m) + k] = z[k]
    BY <1>6
  <2>3. z[k] = q[n + k]
    BY <1>2 DEF L
  <2>. QED
    BY <2>1, <2>2, <2>3
<1>. QED
  BY <1>7, <1>8, <1>9, <1>10 DEF L, m, r

\* A sorted queue stays sorted when a list of one key goes in.
LEMMA SpliceSorted ==
  ASSUME NEW q \in Seq(Keys), NEW list \in Seq(Keys), Sorted(q),
         \A i, j \in DOMAIN list : list[i] = list[j]
  PROVE  Sorted(Splice(list, q))
<1>1. CASE list = <<>>
  BY <1>1 DEF Splice
<1>2. CASE list # <<>>
  <2>. DEFINE m == Len(list)
              L == Len(q)
              a == list[1]
              r == Splice(list, q)
  <2>1. PICK n \in 0 .. L :
          /\ r = SubSeq(q, 1, n) \o list \o SubSeq(q, n + 1, Len(q))
          /\ \A i \in 1 .. n : NotAfter(q[i], a)
          /\ n < L => ~NotAfter(q[n + 1], a)
    BY <1>2, SpliceParts
  <2>2. L \in Nat /\ m \in Nat /\ a \in Keys /\ \A i \in 1 .. m : list[i] = a
    BY <1>2
  <2>3. \A i \in 1 .. L : q[i] \in Keys
    OBVIOUS
  <2>4. /\ DOMAIN r = 1 .. L + m
        /\ \A i \in 1 .. n : r[i] = q[i]
        /\ \A i \in 1 .. m : r[n + i] = list[i]
        /\ \A i \in n + 1 .. L : r[m + i] = q[i]
    <3>1. r = SubSeq(q, 1, n) \o list \o SubSeq(q, n + 1, Len(q)) /\ n \in 0 .. Len(q)
      BY <2>1
    <3>. HIDE DEF r, m, L
    <3>2. /\ DOMAIN r = 1 .. Len(q) + Len(list)
          /\ \A i \in 1 .. n : r[i] = q[i]
          /\ \A i \in 1 .. Len(list) : r[n + i] = list[i]
          /\ \A i \in n + 1 .. Len(q) : r[Len(list) + i] = q[i]
      BY <3>1, Inserted
    <3>. QED
      BY <3>2 DEF L, m
  <2>5. \A i, j \in 1 .. L : i < j => NotAfter(q[i], q[j])
    BY DEF Sorted
  <2>. HIDE DEF m, L, a, r
  \* The three parts of the new queue.
  <2>. DEFINE Front == 1 .. n
              New   == n + 1 .. n + m
              Back  == n + m + 1 .. L + m
  <2>6. ASSUME NEW i \in Front PROVE r[i] = q[i] /\ i \in 1 .. L /\ NotAfter(q[i], a)
    <3>1. i \in 1 .. L
      BY <2>1, <2>2
    <3>. QED
      BY <2>1, <2>4, <3>1
  <2>7. ASSUME NEW i \in New PROVE r[i] = a
    <3>1. i - n \in 1 .. m /\ n + (i - n) = i
      BY <2>1, <2>2
    <3>. QED
      BY <2>2, <2>4, <3>1
  <2>8. ASSUME NEW i \in Back PROVE r[i] = q[i - m] /\ i - m \in n + 1 .. L /\ i - m \in 1 .. L
    <3>1. i - m \in n + 1 .. L /\ m + (i - m) = i /\ i - m \in 1 .. L
      BY <2>1, <2>2
    <3>2. r[m + (i - m)] = q[i - m]
      BY <2>4, <3>1
    <3>. QED
      BY <3>1, <3>2
  <2>9. ASSUME NEW i \in n + 1 .. L PROVE NotAfter(a, q[i])
    <3>1. n < L /\ n + 1 \in 1 .. L /\ i \in 1 .. L /\ (i = n + 1 \/ n + 1 < i)
      BY <2>1, <2>2
    <3>2. q[n + 1] \in Keys /\ q[i] \in Keys
      BY <2>3, <3>1
    <3>3. NotAfter(a, q[n + 1])
      BY <2>1, <2>2, <3>1, <3>2, KeyOrder
    <3>4. NotAfter(q[n + 1], q[i])
      BY <2>5, <3>1, <3>2, KeyOrder
    <3>. QED
      BY <2>2, <3>2, <3>3, <3>4, KeyOrder
  <2>10. ASSUME NEW i \in DOMAIN r PROVE i \in Int /\ (i \in Front \/ i \in New \/ i \in Back)
    <3>1. i \in 1 .. L + m
      BY <2>4
    <3>. QED
      BY <2>1, <2>2, <3>1
  <2>11. ASSUME NEW i \in DOMAIN r, NEW j \in DOMAIN r, i < j PROVE NotAfter(r[i], r[j])
    <3>0. i \in Int /\ j \in Int /\ n \in Int /\ m \in Int
      BY <2>1, <2>2, <2>10
    <3>1. CASE i \in Front /\ j \in Front
      <4>1. NotAfter(q[i], q[j])
        BY <2>5, <2>6, <2>11, <3>1
      <4>. QED
        BY <2>6, <3>1, <4>1
    <3>2. CASE i \in Front /\ j \in New
      BY <2>6, <2>7, <3>2
    <3>3. CASE i \in Front /\ j \in Back
      <4>1. NotAfter(q[i], a) /\ NotAfter(a, q[j - m]) /\ q[i] \in Keys /\ q[j - m] \in Keys
        BY <2>3, <2>6, <2>8, <2>9, <3>3
      <4>2. NotAfter(q[i], q[j - m])
        BY <2>2, <4>1, KeyOrder
      <4>. QED
        BY <2>6, <2>8, <3>3, <4>2
    <3>4. CASE i \in New /\ j \in New
      <4>1. NotAfter(a, a)
        BY <2>2, KeyOrder
      <4>. QED
        BY <2>7, <3>4, <4>1
    <3>5. CASE i \in New /\ j \in Back
      BY <2>7, <2>8, <2>9, <3>5
    <3>6. CASE i \in Back /\ j \in Back
      <4>1. i - m < j - m
        BY <2>11, <3>0
      <4>2. NotAfter(q[i - m], q[j - m])
        BY <2>5, <2>8, <3>6, <4>1
      <4>. QED
        BY <2>8, <3>6, <4>2
    <3>7. i \in New => j \notin Front
      BY <2>11, <3>0
    <3>8. i \in Back => j \notin Front /\ j \notin New
      BY <2>2, <2>11, <3>0
    <3>. QED
      BY <2>10, <3>1, <3>2, <3>3, <3>4, <3>5, <3>6, <3>7, <3>8, Zenon
  <2>. QED
    BY <2>11 DEF Sorted, r
<1>. QED
  BY <1>1, <1>2

\* The lists go in thread by thread.
LEMMA MergeSteps ==
  ASSUME pend \in [Threads -> Seq(Keys)], queue \in Seq(Keys)
  PROVE  /\ Merged[0] = queue
         /\ \A t \in 1 .. ThreadCount : Merged[t] = Splice(pend[t - 1], Merged[t - 1])
         /\ \A t \in 0 .. ThreadCount : Merged[t] \in Seq(Keys)
<1>. DEFINE G == [x \in (1 .. ThreadCount) \X Seq(Keys) |-> Splice(pend[x[1] - 1], x[2])]
<1>1. ASSUME NEW t \in 1 .. ThreadCount PROVE pend[t - 1] \in Seq(Keys)
  BY DesignAssumption DEF Threads
<1>2. G \in [(1 .. ThreadCount) \X Seq(Keys) -> Seq(Keys)]
  <2>. SUFFICES ASSUME NEW x \in (1 .. ThreadCount) \X Seq(Keys)
                PROVE  Splice(pend[x[1] - 1], x[2]) \in Seq(Keys)
    OBVIOUS
  <2>. QED
    BY <1>1, SpliceType
<1>3. PICK f : Solves(f, ThreadCount, Seq(Keys), queue, G)
  <2>1. ThreadCount \in Nat /\ G \in Steps(ThreadCount, Seq(Keys))
    BY <1>2, DesignAssumption DEF Steps
  <2>. HIDE DEF G
  <2>. QED
    BY <2>1, Recursion
<1>4. ASSUME NEW t \in 1 .. ThreadCount PROVE f[t] = Splice(pend[t - 1], f[t - 1])
  <2>1. f[t - 1] \in Seq(Keys)
    BY <1>3, DesignAssumption DEF Solves
  <2>. QED
    BY <1>3, <2>1 DEF Solves
<1>5. f = [t \in 0 .. ThreadCount |-> IF t = 0 THEN queue ELSE Splice(pend[t - 1], f[t - 1])]
  BY <1>3, <1>4, DesignAssumption DEF Solves
<1>6. Merged = [t \in 0 .. ThreadCount |-> IF t = 0 THEN queue ELSE Splice(pend[t - 1], Merged[t - 1])]
  BY <1>5, Zenon DEF Merged
<1>7. Merged[0] = queue
  BY <1>6, DesignAssumption
<1>8. ASSUME NEW t \in 1 .. ThreadCount PROVE Merged[t] = Splice(pend[t - 1], Merged[t - 1])
  BY <1>6, DesignAssumption
<1>9. ASSUME NEW t \in 0 .. ThreadCount PROVE Merged[t] \in Seq(Keys)
  <2>. DEFINE S == {k \in Nat : k <= ThreadCount => Merged[k] \in Seq(Keys)}
  <2>1. 0 \in S
    BY <1>7
  <2>2. ASSUME NEW k \in Nat, k \in S PROVE k + 1 \in S
    <3>. SUFFICES ASSUME k + 1 <= ThreadCount PROVE Merged[k + 1] \in Seq(Keys)
      OBVIOUS
    <3>1. k + 1 \in 1 .. ThreadCount /\ (k + 1) - 1 = k /\ Merged[k] \in Seq(Keys)
      BY <2>2, DesignAssumption
    <3>2. pend[k] \in Seq(Keys)
      BY <1>1, <3>1
    <3>3. Merged[k + 1] = Splice(pend[k], Merged[k])
      BY <1>8, <3>1
    <3>. QED
      BY <3>1, <3>2, <3>3, SpliceType
  <2>. HIDE DEF S
  <2>3. Nat \subseteq S
    BY <2>1, <2>2, Induction
  <2>4. t \in Nat
    BY DesignAssumption
  <2>. QED
    BY <2>3, <2>4 DEF S
<1>. QED
  BY <1>7, <1>8, <1>9

LEMMA TypeInductive == Spec => [](Fixed /\ TypeOK)
<1>. leader \in Threads
  BY DesignAssumption DEF leader, Threads
<1>1. Init => Fixed /\ TypeOK
  <2>. SUFFICES ASSUME Init PROVE Fixed /\ TypeOK
    OBVIOUS
  <2>2. queue \in Seq(Nat \X Nat)
    BY DesignAssumption DEF Init
  <2>3. owner \in [Signals -> Threads]
    BY OwnersType DEF Init
  <2>4. pend \in [Threads -> Seq(Nat \X Nat)] /\ wrote \in [Signals -> SUBSET Threads]
    BY DEF Init, Nobody
  <2>. QED
    BY <2>2, <2>3, <2>4 DEF Init, Fixed, TypeOK
<1>2. ASSUME Fixed, TypeOK, [Next]_vars PROVE Fixed' /\ TypeOK'
  <2>. USE DEF TypeOK
  <2>1. Fixed'
    BY <1>2 DEF Fixed, Next, vars, Pop, ApplyDone, Evaluate, EvaluateDone, Merge, Apply, RunProcess
  <2>2. CASE Pop
    BY <1>2, <2>1, <2>2 DEF Pop
  <2>3. CASE ApplyDone
    BY <1>2, <2>1, <2>3 DEF ApplyDone, Nobody
  <2>4. CASE EvaluateDone
    BY <1>2, <2>1, <2>4 DEF EvaluateDone, Nobody
  <2>5. CASE UNCHANGED vars
    BY <1>2, <2>1, <2>5 DEF vars
  <2>6. CASE Merge
    <3>1. ThreadCount \in 0 .. ThreadCount
      BY DesignAssumption
    <3>2. queue' \in Seq(Nat \X Nat)
      BY <1>2, <2>6, <3>1, MergeSteps DEF Merge, Keys
    <3>3. pend' \in [Threads -> Seq(Nat \X Nat)]
      BY <2>6 DEF Merge
    <3>. QED
      BY <1>2, <2>1, <2>6, <3>2, <3>3 DEF Merge
  <2>7. ASSUME NEW t \in Threads, Apply(t) PROVE TypeOK'
    <3>1. PICK s \in batch :
            /\ batch' = batch \ {s}
            /\ wrote' = [wrote EXCEPT ![s] = @ \cup {t}]
            /\ \/ moved' = moved \cup {s} /\ changes' = [changes EXCEPT ![t] = @ \cup {s}]
               \/ UNCHANGED <<moved, changes>>
      BY <2>7 DEF Apply
    <3>2. wrote' \in [Signals -> SUBSET Threads]
      BY <1>2, <3>1
    <3>3. changes' \in [Threads -> SUBSET Signals] /\ moved' \subseteq Signals
      <4>1. s \in Signals
        BY <1>2
      <4>2. CASE moved' = moved \cup {s} /\ changes' = [changes EXCEPT ![t] = @ \cup {s}]
        BY <1>2, <4>1, <4>2
      <4>3. CASE UNCHANGED <<moved, changes>>
        BY <1>2, <4>3
      <4>. QED
        BY <3>1, <4>2, <4>3
    <3>4. batch' \subseteq Signals
      BY <1>2, <3>1
    <3>5. UNCHANGED <<design, owner, stage, todo, evaluated, ran, unseen, pend, queue>>
      BY <2>7 DEF Apply
    <3>. QED
      BY <1>2, <3>2, <3>3, <3>4, <3>5
  <2>8. ASSUME NEW t \in Threads, RunProcess(t) PROVE TypeOK'
    <3>1. PICK r \in Runs(t) :
            /\ ran' = ran \cup {r}
            /\ \/ \E others \in SUBSET (Signals \ design.found[r[1]]) :
                    /\ wrote' = [s \in Signals |-> IF s \in design.found[r[1]] \cup others
                                                 THEN wrote[s] \cup {t} ELSE wrote[s]]
                    /\ unseen' = unseen \cup others
                    /\ UNCHANGED pend
               \/ /\ UNCHANGED <<wrote, unseen>>
                  /\ pend' = [pend EXCEPT ![t] = Append(@, <<0, 1>>)]
      BY <2>8 DEF RunProcess
    <3>2. r \in Procs \X Signals
      BY <1>2 DEF Runs, ProcsOf
    <3>3. wrote' \in [Signals -> SUBSET Threads] /\ unseen' \subseteq Signals
      <4>1. \/ \E w, others \in SUBSET Signals :
                 /\ wrote' = [s \in Signals |-> IF s \in w THEN wrote[s] \cup {t} ELSE wrote[s]]
                 /\ unseen' = unseen \cup others
            \/ wrote' = wrote /\ unseen' = unseen
        <5>. DEFINE f == design.found[r[1]]
        <5>1. f \subseteq Signals
          BY <1>2, <3>2 DEF Designs
        <5>2. \/ \E others \in SUBSET (Signals \ f) :
                   /\ wrote' = [s \in Signals |-> IF s \in f \cup others
                                                THEN wrote[s] \cup {t} ELSE wrote[s]]
                   /\ unseen' = unseen \cup others
              \/ wrote' = wrote /\ unseen' = unseen
          BY <3>1
        <5>. HIDE DEF f
        <5>3. \A others \in SUBSET (Signals \ f) : others \in SUBSET Signals /\ f \cup others \in SUBSET Signals
          BY <5>1
        <5>. QED
          BY <5>2, <5>3
      <4>. QED
        BY <1>2, <4>1
    <3>4. Append(pend[t], <<0, 1>>) \in Seq(Nat \X Nat)
      BY <1>2
    <3>5. pend' \in [Threads -> Seq(Nat \X Nat)]
      BY <1>2, <3>1, <3>4
    <3>. QED
      BY <1>2, <2>8, <3>1, <3>2, <3>3, <3>5 DEF RunProcess
  <2>9. CASE Evaluate
    <3>1. PICK s \in todo :
            LET hit  == {a \in AssignsOf(leader) : s \in design.deps[a]}
                late == {a \in hit : design.delayed[a]}
            IN  \E new \in SUBSET {design.lhs[a] : a \in hit \ late} :
                  /\ evaluated' = evaluated \cup (hit \X {s})
                  /\ wrote' = [u \in Signals |->
                                 IF u \in {design.lhs[a] : a \in hit \ late}
                                 THEN wrote[u] \cup {leader} ELSE wrote[u]]
                  /\ moved' = moved \cup new
                  /\ changes' = [changes EXCEPT ![leader] = @ \cup (new \ {s})]
                  /\ todo' = (todo \ {s}) \cup ((new \ {s}) \ changes[leader])
                  /\ pend' = [pend EXCEPT ![leader] = IF late = {} THEN @ ELSE Append(@, <<10, 0>>)]
      BY <2>9 DEF Evaluate
    <3>. DEFINE hit  == {a \in AssignsOf(leader) : s \in design.deps[a]}
                late == {a \in hit : design.delayed[a]}
                outs == {design.lhs[a] : a \in hit \ late}
    <3>2. PICK new \in SUBSET outs :
            /\ evaluated' = evaluated \cup (hit \X {s})
            /\ wrote' = [u \in Signals |-> IF u \in outs THEN wrote[u] \cup {leader} ELSE wrote[u]]
            /\ moved' = moved \cup new
            /\ changes' = [changes EXCEPT ![leader] = @ \cup (new \ {s})]
            /\ todo' = (todo \ {s}) \cup ((new \ {s}) \ changes[leader])
            /\ pend' = [pend EXCEPT ![leader] = IF late = {} THEN @ ELSE Append(@, <<10, 0>>)]
      BY <3>1, Zenon
    <3>3. hit \subseteq Assigns /\ s \in Signals
      BY <1>2 DEF AssignsOf
    <3>4. new \subseteq Signals
      <4>1. design.lhs \in [Assigns -> Signals]
        BY <1>2 DEF Designs
      <4>2. outs \subseteq Signals
        BY <3>3, <4>1
      <4>. QED
        BY <4>2
    <3>. HIDE DEF hit, late, outs
    <3>5. evaluated' \subseteq Assigns \X Signals
      BY <1>2, <3>2, <3>3
    <3>6. wrote' \in [Signals -> SUBSET Threads]
      BY <1>2, <3>2
    <3>7. /\ moved' \subseteq Signals /\ todo' \subseteq Signals
          /\ changes' \in [Threads -> SUBSET Signals]
      BY <1>2, <3>2, <3>3, <3>4
    <3>8. Append(pend[leader], <<10, 0>>) \in Seq(Nat \X Nat)
      BY <1>2
    <3>9. pend' \in [Threads -> Seq(Nat \X Nat)]
      BY <1>2, <3>2, <3>8
    <3>10. UNCHANGED <<design, owner, batch, stage, ran, unseen, queue>>
      BY <2>9 DEF Evaluate
    <3>. QED
      BY <1>2, <2>1, <3>5, <3>6, <3>7, <3>9, <3>10
  <2>. QED
    BY <1>2, <2>1, <2>2, <2>3, <2>4, <2>5, <2>6, <2>7, <2>8, <2>9 DEF Next
<1>. QED
  BY <1>1, <1>2, PTL DEF Spec

\* Every variable of a batch keeps its type, whatever the design.
THEOREM TypeCorrect == Spec => []TypeOK
BY TypeInductive, PTL

\* The queue is sorted, and a thread has queued for the next delta only.
QueueInv ==
  /\ Sorted(queue)
  /\ \A t \in Threads : \A i \in DOMAIN pend[t] : pend[t][i] = <<0, 1>>

\* Lists of one key leave a sorted queue behind, one after the other.
LEMMA MergeSorted == TypeOK /\ QueueInv => Sorted(Merged[ThreadCount])
<1>. SUFFICES ASSUME TypeOK, QueueInv PROVE Sorted(Merged[ThreadCount])
  OBVIOUS
<1>. DEFINE S == {t \in Nat : t <= ThreadCount => Sorted(Merged[t])}
<1>0. ThreadCount \in Nat /\ pend \in [Threads -> Seq(Keys)] /\ queue \in Seq(Keys)
  BY DesignAssumption DEF TypeOK, Keys
<1>1. 0 \in S
  BY <1>0, MergeSteps DEF QueueInv
<1>2. ASSUME NEW t \in Nat, t \in S PROVE t + 1 \in S
  <2>. SUFFICES ASSUME t + 1 <= ThreadCount PROVE Sorted(Merged[t + 1])
    OBVIOUS
  <2>1. t \in Threads /\ t \in 0 .. ThreadCount /\ t + 1 \in 1 .. ThreadCount /\ (t + 1) - 1 = t
    BY <1>0 DEF Threads
  <2>2. Sorted(Merged[t]) /\ Merged[t] \in Seq(Keys) /\ Merged[t + 1] = Splice(pend[t], Merged[t])
    <3>1. Sorted(Merged[t])
      BY <1>2, <2>1
    <3>2. Merged[t] \in Seq(Keys) /\ Merged[t + 1] = Splice(pend[(t + 1) - 1], Merged[(t + 1) - 1])
      BY <1>0, <2>1, MergeSteps
    <3>. QED
      BY <2>1, <3>1, <3>2
  <2>3. pend[t] \in Seq(Keys) /\ \A i, j \in DOMAIN pend[t] : pend[t][i] = pend[t][j]
    BY <1>0, <2>1 DEF QueueInv
  <2>. QED
    BY <2>2, <2>3, SpliceSorted
<1>. HIDE DEF S
<1>3. Nat \subseteq S
  BY <1>1, <1>2, Induction
<1>. QED
  BY <1>0, <1>3 DEF S

LEMMA AppendSame ==
  ASSUME NEW list \in Seq(Keys), NEW k, \A i \in DOMAIN list : list[i] = k
  PROVE  \A i \in DOMAIN Append(list, k) : Append(list, k)[i] = k
OBVIOUS

LEMMA QueueInductive == ASSUME ~DelayedAssigns PROVE Spec => []QueueInv
<1>1. Init => QueueInv
  <2>. SUFFICES ASSUME Init PROVE QueueInv
    OBVIOUS
  <2>1. Sorted(queue)
    BY DesignAssumption DEF Init, Sorted, NotAfter
  <2>. QED
    BY <2>1 DEF Init, QueueInv
<1>2. ASSUME Fixed, TypeOK, QueueInv, [Next]_vars PROVE QueueInv'
  <2>. USE DEF QueueInv
  <2>1. CASE Merge
    <3>1. Sorted(queue')
      BY <1>2, <2>1, MergeSorted DEF Merge
    <3>2. \A t \in Threads : pend'[t] = <<>>
      BY <2>1 DEF Merge
    <3>. QED
      BY <3>1, <3>2
  <2>2. ASSUME NEW t \in Threads, RunProcess(t) PROVE QueueInv'
    <3>1. queue' = queue
      BY <2>2 DEF RunProcess
    <3>2. CASE UNCHANGED pend
      BY <1>2, <3>1, <3>2
    <3>3. CASE pend' = [pend EXCEPT ![t] = Append(@, <<0, 1>>)]
      <4>1. pend \in [Threads -> Seq(Keys)]
        BY <1>2 DEF TypeOK, Keys
      <4>. DEFINE k == <<0, 1>>
      <4>2. \A i \in DOMAIN Append(pend[t], k) : Append(pend[t], k)[i] = k
        <5>1. pend[t] \in Seq(Keys) /\ \A i \in DOMAIN pend[t] : pend[t][i] = k
          BY <1>2, <4>1
        <5>. HIDE DEF k
        <5>. QED
          BY <5>1, AppendSame
      <4>3. \A u \in Threads : pend'[u] = IF u = t THEN Append(pend[t], k) ELSE pend[u]
        BY <3>3, <4>1
      <4>. HIDE DEF k
      <4>4. \A u \in Threads : \A i \in DOMAIN pend'[u] : pend'[u][i] = k
        BY <1>2, <4>2, <4>3 DEF k
      <4>. QED
        BY <1>2, <3>1, <4>4 DEF k
    <3>. QED
      BY <2>2, <3>2, <3>3 DEF RunProcess
  <2>3. CASE Evaluate
    <3>1. PICK s \in todo :
            LET hit  == {a \in AssignsOf(leader) : s \in design.deps[a]}
                late == {a \in hit : design.delayed[a]}
            IN  pend' = [pend EXCEPT ![leader] = IF late = {} THEN @ ELSE Append(@, <<10, 0>>)]
      BY <2>3 DEF Evaluate
    <3>2. {a \in {b \in AssignsOf(leader) : s \in design.deps[b]} : design.delayed[a]} = {}
      BY <1>2 DEF Fixed, Admissible, AssignsOf
    <3>3. pend' = pend /\ queue' = queue
      BY <1>2, <2>3, <3>1, <3>2 DEF TypeOK, Evaluate
    <3>. QED
      BY <1>2, <3>3
  <2>4. CASE Pop \/ ApplyDone \/ EvaluateDone \/ UNCHANGED vars \/ \E t \in Threads : Apply(t)
    <3>1. pend' = pend /\ queue' = queue
      BY <2>4 DEF Pop, ApplyDone, EvaluateDone, vars, Apply
    <3>. QED
      BY <1>2, <3>1
  <2>. QED
    BY <1>2, <2>1, <2>2, <2>3, <2>4 DEF Next
<1>. QED
  BY <1>1, <1>2, TypeInductive, PTL DEF Spec

\* Without delayed assigns the queue the leader has merged is sorted, whatever the
\* design, the number of threads and the order in which these queued.
THEOREM MergedQueueIsSorted ==
  ASSUME ~DelayedAssigns PROVE Spec => []QueueSorted
<1>1. QueueInv => QueueSorted
  BY DEF QueueInv, Sorted, QueueSorted
<1>. QED
  BY <1>1, QueueInductive, PTL
=============================================================================
