--------------------------- MODULE ParallelBatch ----------------------------
(***************************************************************************)
(* One (time, delta) batch of uir_sim_run with thread_count > 1, over      *)
(* every small design (libqsim/src/uir_sim.c).                             *)
(*                                                                         *)
(* build_signal_partitions divides the signals into connected components   *)
(* and deals them out to the threads; each thread applies the updates of   *)
(* its signals and runs the processes of its partitions, queueing what     *)
(* these schedule on a list of its own that the leader merges at the end.  *)
(* WorkerPool shows that the phases do not overlap; here the threads       *)
(* interleave within a phase.  Expressions and values are abstract: an     *)
(* update or an evaluation may change its signal or not, and a body may    *)
(* write what the static walk of find_writes_in_node does not find in it.  *)
(***************************************************************************)
EXTENDS Integers, FiniteSets, Sequences

CONSTANTS
  Signals,        \* indices of ctx->signals
  Procs,          \* processes of the design
  Assigns,        \* continuous assigns of the design
  ThreadCount,    \* thread_count
  WorkerAssigns,  \* the design may have assigns in partitions of a worker
  DelayedAssigns, \* ... assigns with #n
  Queues,         \* what may be queued behind the batch: keys <<time, delta>> in order
  MaxUnits,       \* no more processes and assigns than this have inputs: a bound
  MaxUnseen       \* no more signals than this are written unseen in a batch: a bound

ASSUME DesignAssumption ==
  /\ Signals \subseteq Nat /\ IsFiniteSet(Signals) /\ ThreadCount \in Nat \ {0}
  /\ {WorkerAssigns, DelayedAssigns} \subseteq BOOLEAN
  /\ MaxUnits \in Nat /\ MaxUnseen \in Nat
  /\ Queues \subseteq Seq(Nat \X Nat)
  /\ \A q \in Queues : \A i, j \in DOMAIN q :
       i < j => q[i][1] < q[j][1] \/ (q[i][1] = q[j][1] /\ q[i][2] <= q[j][2])

Threads == 0 .. ThreadCount - 1
leader == 0

VARIABLES
  design,     \* the design, see Designs
  owner,      \* the thread of each signal's partition
  batch,      \* signals with an update still to be applied
  stage,      \* where the leader is in the batch
  changes,    \* the change list of each thread
  moved,      \* the signals updates and assigns changed in this batch (history)
  todo,       \* changed signals whose assigns the leader has still to evaluate
  evaluated,  \* <<a, s>>: assign a was evaluated for a change of s
  ran,        \* <<p, s>>: process p was run for a change of s
  wrote,      \* the threads that may have written each signal in this phase (history)
  unseen,     \* signals a body wrote though the walk finds no such write (history)
  pend,       \* the pending list of each thread
  queue       \* the global event queue; the batch is that of <<0, 0>>

vars == <<design, owner, batch, stage, changes, moved, todo, evaluated, ran, wrote, unseen, pend, queue>>

-----------------------------------------------------------------------------
(* The partitions.                                                         *)

\* Seeded faults: edges of the signal graph forgotten.
EdgesStructural(d) == UNION {d.deps[a] \X {d.lhs[a]} : a \in Assigns}
EdgesProcedural(d) == UNION {d.sens[p] \X d.found[p] : p \in Procs}

\* Signals an assign reads and writes, or a process is sensitive to and is found to
\* write.  find_writes_in_node looks for assignments, forces and releases in blocks,
\* loops, if and case items, delays and waits; it passes over the default of a case,
\* the body of an event control, task calls, triggers and system tasks, and left
\* sides that are not a name.  A process without a found write has no edge.
Edges(d) ==
  UNION ({d.deps[a] \X {d.lhs[a]} : a \in Assigns}
           \cup {d.sens[p] \X d.found[p] : p \in Procs})

Closed(d, S) == \A e \in Edges(d) : e[1] \in S <=> e[2] \in S

\* The connected component of a signal (union-find in the code).
Component(d, s) == {u \in Signals : \A S \in SUBSET Signals : s \in S /\ Closed(d, S) => u \in S}

\* Partitions are numbered in the order of their first signals.
Firsts(d) == {s \in Signals : \A u \in Component(d, s) : s <= u}
Partition(d, s) ==
  Cardinality({f \in Firsts(d) : \A u \in Component(d, s) : f < u})

Owners(d) == [s \in Signals |-> Partition(d, s) % ThreadCount]

Designs ==
  [sens : [Procs -> SUBSET Signals], head : [Procs -> Signals],
   found : [Procs -> SUBSET Signals],
   deps : [Assigns -> SUBSET Signals], lhs : [Assigns -> Signals],
   delayed : [Assigns -> BOOLEAN]]

\* A unit without inputs (an initial process, an assign of a constant) takes no part
\* in a batch: one stands for all of them.
IdleProcess(d, p) == d.found[p] = {} /\ \A s \in Signals : d.head[p] <= s
IdleAssign(d, a) == ~d.delayed[a] /\ \A s \in Signals : d.lhs[a] <= s

\* The processes and the assigns with inputs.
WithInputs(d) ==
  {p \in Procs : d.sens[p] # {}} \cup {a \in Assigns : d.deps[a] # {}}

\* head is the first entry of the sensitivity list: it decides the partition.
Admissible(d) ==
  /\ Cardinality(WithInputs(d)) <= MaxUnits
  /\ \A p \in Procs :
       IF d.sens[p] = {} THEN IdleProcess(d, p)
       ELSE d.head[p] \in d.sens[p]
  /\ \A a \in Assigns :
       IF d.deps[a] = {} THEN IdleAssign(d, a)
       ELSE /\ d.delayed[a] => DelayedAssigns
            /\ WorkerAssigns \/ Owners(d)[d.lhs[a]] = leader

ProcsOf(t) == {p \in Procs : owner[design.head[p]] = t}
AssignsOf(t) == {a \in Assigns : owner[design.lhs[a]] = t}

Nobody == [s \in Signals |-> {}]

Init ==
  /\ design \in Designs /\ Admissible(design) /\ owner = Owners(design)
  /\ batch \in SUBSET Signals /\ queue \in Queues
  /\ stage = "pop" /\ changes = [t \in Threads |-> {}] /\ moved = {} /\ todo = {}
  /\ evaluated = {} /\ ran = {} /\ wrote = Nobody /\ unseen = {} /\ pend = [t \in Threads |-> <<>>]

-----------------------------------------------------------------------------
(* The batch.                                                              *)

\* The batch is popped: its statements are resumed by the leader, their changes
\* join the leader's list, and every list is emptied if there are updates.
Pop ==
  /\ stage = "pop"
  /\ \E ss \in SUBSET Signals :
       changes' = [t \in Threads |-> IF batch = {} /\ t = leader THEN ss ELSE {}]
  /\ stage' = "apply"
  /\ UNCHANGED <<design, owner, batch, moved, todo, evaluated, ran, wrote, unseen, pend, queue>>

\* process_events_apply: a thread applies an update of one of its signals.
Apply(t) ==
  /\ stage = "apply"
  /\ \E s \in batch :
       /\ owner[s] = t /\ batch' = batch \ {s}
       /\ wrote' = [wrote EXCEPT ![s] = @ \cup {t}]
       /\ \/ moved' = moved \cup {s} /\ changes' = [changes EXCEPT ![t] = @ \cup {s}]
          \/ UNCHANGED <<moved, changes>>
  /\ UNCHANGED <<design, owner, stage, todo, evaluated, ran, unseen, pend, queue>>

ApplyDone ==
  /\ stage = "apply" /\ batch = {}
  /\ stage' = "ca" /\ wrote' = Nobody /\ todo' = changes[leader]
  /\ UNCHANGED <<design, owner, batch, changes, moved, evaluated, ran, unseen, pend, queue>>

\* process_ca_triggers: the leader evaluates the assigns of its own partitions
\* that read a signal of its list, and those that read what these change.
\* The workers do nothing in this phase.
Evaluate ==
  /\ stage = "ca"
  /\ \E s \in todo :
       LET hit  == {a \in AssignsOf(leader) : s \in design.deps[a]}
           late == {a \in hit : design.delayed[a]}
       IN  \E new \in SUBSET {design.lhs[a] : a \in hit \ late} :
             /\ evaluated' = evaluated \cup (hit \X {s})
             /\ wrote' = [u \in Signals |->
                            IF u \in {design.lhs[a] : a \in hit \ late}
                            THEN wrote[u] \cup {leader} ELSE wrote[u]]
             /\ moved' = moved \cup new
             /\ changes' = [changes EXCEPT ![leader] = @ \cup (new \ {s})]
             /\ todo' = (todo \ {s}) \cup ((new \ {s}) \ changes[leader])
             /\ pend' = [pend EXCEPT ![leader] = IF late = {} THEN @ ELSE Append(@, <<10, 0>>)]
  /\ UNCHANGED <<design, owner, batch, stage, ran, unseen, queue>>

EvaluateDone ==
  /\ stage = "ca" /\ todo = {} /\ stage' = "process" /\ wrote' = Nobody
  /\ UNCHANGED <<design, owner, batch, changes, moved, todo, evaluated, ran, unseen, pend, queue>>

\* The runs a thread has still to make: its processes, for changes on its list.
Runs(t) == {r \in ProcsOf(t) \X changes[t] : r[2] \in design.sens[r[1]]} \ ran

\* process_partition_triggers: a thread runs a process; the body writes signals at
\* once, those the walk found and, in what the walk passes over or what the body
\* triggers, others; or it schedules NBAs, which go to the thread's pending list.
RunProcess(t) ==
  /\ stage = "process"
  /\ \E r \in Runs(t) :
       /\ ran' = ran \cup {r}
       /\ \/ \E others \in SUBSET (Signals \ design.found[r[1]]) :
               /\ Cardinality(unseen \cup others) <= MaxUnseen
               /\ wrote' = [s \in Signals |-> IF s \in design.found[r[1]] \cup others
                                            THEN wrote[s] \cup {t} ELSE wrote[s]]
               /\ unseen' = unseen \cup others
               /\ UNCHANGED pend
          \/ /\ UNCHANGED <<wrote, unseen>>
             /\ pend' = [pend EXCEPT ![t] = Append(@, <<0, 1>>)]
  /\ UNCHANGED <<design, owner, batch, stage, changes, moved, todo, evaluated, queue>>

-----------------------------------------------------------------------------
(* The merge.                                                              *)

NotAfter(k, l) == k[1] < l[1] \/ (k[1] = l[1] /\ k[2] <= l[2])

\* Seeded fault: the list is put at the tail.
SpliceAtTail(list, q) == q \o list

\* The list goes, whole, where its first event belongs.
Splice(list, q) ==
  IF list = <<>> THEN q
  ELSE LET ahead == {i \in DOMAIN q : \A j \in 1 .. i : NotAfter(q[j], list[1])}
           n     == Cardinality(ahead)
       IN  SubSeq(q, 1, n) \o list \o SubSeq(q, n + 1, Len(q))

\* merge_thread_pending_events, thread by thread.
Merged[t \in 0 .. ThreadCount] ==
  IF t = 0 THEN queue ELSE Splice(pend[t - 1], Merged[t - 1])

Merge ==
  /\ stage = "process" /\ \A t \in Threads : Runs(t) = {}
  /\ queue' = Merged[ThreadCount]
  /\ pend' = [t \in Threads |-> <<>>] /\ stage' = "done"
  /\ UNCHANGED <<design, owner, batch, changes, moved, todo, evaluated, ran, wrote, unseen>>

Next ==
  \/ Pop \/ ApplyDone \/ Evaluate \/ EvaluateDone \/ Merge
  \/ \E t \in Threads : Apply(t) \/ RunProcess(t)

Spec == Init /\ [][Next]_vars

-----------------------------------------------------------------------------
(* Properties.                                                             *)

\* Every variable has its type.
TypeOK ==
  /\ design \in Designs /\ owner \in [Signals -> Threads] /\ batch \subseteq Signals
  /\ stage \in {"pop", "apply", "ca", "process", "done"}
  /\ changes \in [Threads -> SUBSET Signals] /\ moved \subseteq Signals /\ todo \subseteq Signals
  /\ evaluated \subseteq Assigns \X Signals /\ ran \subseteq Procs \X Signals
  /\ wrote \in [Signals -> SUBSET Threads] /\ unseen \subseteq Signals
  /\ pend \in [Threads -> Seq(Nat \X Nat)] /\ queue \in Seq(Nat \X Nat)

\* No signal whose writes the walk finds is written by two threads in one phase: the
\* partitions keep apart what would race on it (build_signal_partitions; "lock-free").
\* Of the others the code says only that "most writes are within partition".
WriteRaceFree == \A s \in Signals \ unseen : \A t, u \in wrote[s] : t = u

\* At the end of the batch every process sensitive to a signal that an update or an
\* assign changed has run, as it has when uir_sim_run uses one thread, if the walk
\* finds a write in its body or it is sensitive to one signal only.
ProcessesTriggered ==
  stage = "done" =>
    \A p \in Procs, s \in moved :
      s \in design.sens[p] /\ (design.found[p] # {} \/ design.sens[p] = {s})
        => <<p, s>> \in ran

\* At the end of the batch every assign that reads such a signal was evaluated
\* ("Each thread evaluates CAs in its own partitions").
AssignsEvaluated ==
  stage = "done" => \A a \in Assigns, s \in moved : s \in design.deps[a] => <<a, s>> \in evaluated

\* The queue is sorted when the next batch is taken from its head, so time does
\* not go back ("roughly time-ordered", merge_thread_pending_events).
QueueSorted ==
  \A i, j \in DOMAIN queue : i < j => NotAfter(queue[i], queue[j])
=============================================================================
