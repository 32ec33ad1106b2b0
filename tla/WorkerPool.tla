----------------------------- MODULE WorkerPool -----------------------------
(***************************************************************************)
(* The worker pool of uir_sim_run (libqsim/src/uir_sim.c): the leader runs *)
(* the loop and, when thread_count > 1, shares the phases of a batch with  *)
(* the workers.  Every phase is bracketed by two calls of sim_barrier_wait *)
(* on one barrier, whose promise is Rendezvous.                            *)
(*                                                                         *)
(* One pool size is modelled: thread_count is 1 or the size of the pool.   *)
(* (A larger value once the pool exists indexes threads[] out of bounds.)  *)
(***************************************************************************)
CONSTANTS
  Leader,      \* the thread that calls uir_sim_run
  Workers,     \* workers[]
  MayFail,     \* sim_thread_create may fail
  MaySwitch    \* thread_count may be set again once the pool exists

ASSUME PoolAssumption ==
  Leader \notin Workers /\ MayFail \in BOOLEAN /\ MaySwitch \in BOOLEAN

VARIABLES
  parallel,   \* thread_count > 1
  created,    \* workers # NULL
  phase,      \* parallel_phase
  pc,         \* where each thread is
  at,         \* where each thread is in sim_barrier_wait
  ran         \* the threads that have run the phase under way (history)

vars == <<parallel, created, phase, pc, at, ran>>

Threads == {Leader} \cup Workers

Barrier == INSTANCE Rendezvous

Phases == {"apply", "ca", "process"}

\* Serial places of the leader: outside run, and in the loop before, between and
\* after the phases; "fallback" and "reap" are the two places where it joins.
Serial == {"idle", "loop", "settled", "evaluated", "triggered", "fallback", "gone"}

WorkerPlaces == {"absent", "gate", "look", "work", "join", "exited"}

Go(t, from, to) == pc[t] = from /\ pc' = [pc EXCEPT ![t] = to]

Init ==
  /\ parallel = FALSE /\ created = FALSE /\ phase = "none" /\ ran = {}
  /\ pc = [t \in Threads |-> IF t = Leader THEN "idle" ELSE "absent"]
  /\ Barrier!Init

-----------------------------------------------------------------------------
(* The barrier: a thread calls wait at "gate" before a phase and at "join" *)
(* after it.                                                               *)

\* The leader after the second barrier of a phase.
After(p) ==
  CASE p = "apply" -> "settled" [] p = "ca" -> "evaluated" [] p = "process" -> "triggered"

Call(t) ==
  /\ pc[t] \in {"gate", "join"} /\ Barrier!Arrive(t)
  /\ UNCHANGED <<parallel, created, phase, pc, ran>>

AllReturn == Barrier!Release /\ UNCHANGED <<parallel, created, phase, pc, ran>>

\* The first barrier is passed: the worker looks at the phase, the leader knows.
Enter(t) ==
  /\ Barrier!Leave(t)
  /\ Go(t, "gate", IF t # Leader THEN "look" ELSE IF phase = "exit" THEN "reap" ELSE "work")
  /\ UNCHANGED <<parallel, created, phase, ran>>

\* The second barrier is passed.
Leave(t) ==
  /\ Barrier!Leave(t)
  /\ Go(t, "join", IF t = Leader THEN After(phase) ELSE "gate")
  /\ UNCHANGED <<parallel, created, phase, ran>>

-----------------------------------------------------------------------------
(* The work of a phase.                                                    *)

\* Seeded fault: the worker skips the join barrier.
WorkUnjoined(t) ==
  /\ Go(t, "work", IF t = Leader THEN "join" ELSE "gate") /\ ran' = ran \cup {t}
  /\ UNCHANGED <<parallel, created, phase, at>>

\* process_events_apply, process_partition_triggers, or nothing.
Work(t) ==
  /\ Go(t, "work", "join") /\ ran' = ran \cup {t}
  /\ UNCHANGED <<parallel, created, phase, at>>

\* Seeded fault: the default branch leaves the worker's loop, not its switch.
LookBreaks(w) ==
  /\ Go(w, "look", IF phase \in {"exit", "ca"} THEN "exited" ELSE "work")
  /\ UNCHANGED <<parallel, created, phase, at, ran>>

\* worker_main loads the phase: it exits or works.
Look(w) ==
  /\ Go(w, "look", IF phase = "exit" THEN "exited" ELSE "work")
  /\ UNCHANGED <<parallel, created, phase, at, ran>>

-----------------------------------------------------------------------------
(* The leader.                                                             *)

\* uir_sim_set_thread_count.
SetThreadCount ==
  /\ pc[Leader] = "idle" /\ (created => MaySwitch)
  /\ parallel' \in BOOLEAN
  /\ UNCHANGED <<created, phase, pc, at, ran>>

\* uir_sim_run with the pool as it is.
RunBegin ==
  /\ parallel => created
  /\ Go(Leader, "idle", "loop")
  /\ UNCHANGED <<parallel, created, phase, at, ran>>

\* The first parallel run creates the pool; when a worker is missing the leader
\* waits for the others to end.
RunCreates ==
  /\ pc[Leader] = "idle" /\ parallel /\ ~created /\ created' = TRUE
  /\ \E ok \in SUBSET Workers :
       /\ ok = Workers \/ MayFail
       /\ pc' = [t \in Threads |->
                   IF t = Leader THEN IF ok = Workers THEN "loop" ELSE "fallback"
                   ELSE IF t \in ok THEN "gate" ELSE "absent"]
  /\ UNCHANGED <<parallel, phase, at, ran>>

Dead(w) == pc[w] \in {"absent", "exited"}

\* The workers that were created are joined: the run goes on alone.
FallBack ==
  /\ \A w \in Workers : Dead(w)
  /\ Go(Leader, "fallback", "loop") /\ parallel' = FALSE
  /\ UNCHANGED <<created, phase, at, ran>>

\* The leader sets the phase and goes to the first barrier.
StartPhase(from, p) ==
  /\ parallel /\ Go(Leader, from, "gate") /\ phase' = p /\ ran' = {}
  /\ UNCHANGED <<parallel, created, at>>

\* The phases of a batch: signal updates if there are any, then the continuous
\* assigns, then the processes, these again after each round of net resolution.
Batch ==
  \/ StartPhase("loop", "apply")
  \/ \E from \in {"loop", "settled"} : StartPhase(from, "ca")
  \/ \E from \in {"evaluated", "triggered"} : StartPhase(from, "process")

\* The batch is done.
BatchDone ==
  /\ Go(Leader, "triggered", "loop") /\ UNCHANGED <<parallel, created, phase, at, ran>>

RunEnd ==
  /\ Go(Leader, "loop", "idle") /\ UNCHANGED <<parallel, created, phase, at, ran>>

\* uir_sim_destroy: the pool is told to exit, if thread_count says there is one.
Destroy ==
  /\ Go(Leader, "idle",
        IF parallel /\ \E w \in Workers : pc[w] # "absent" THEN "gate" ELSE "gone")
  /\ phase' = IF pc'[Leader] = "gate" THEN "exit" ELSE phase
  /\ UNCHANGED <<parallel, created, at, ran>>

\* Seeded fault: the context is freed before the workers are joined.
ReapAtOnce ==
  /\ Go(Leader, "reap", "gone")
  /\ UNCHANGED <<parallel, created, phase, at, ran>>

\* The workers are joined and the context is freed.
Reap ==
  /\ \A w \in Workers : Dead(w)
  /\ Go(Leader, "reap", "gone")
  /\ UNCHANGED <<parallel, created, phase, at, ran>>

-----------------------------------------------------------------------------

\* The steps of a phase.
InPhase ==
  \/ AllReturn
  \/ \E t \in Threads : Call(t) \/ Enter(t) \/ Leave(t) \/ Work(t)
  \/ \E w \in Workers : Look(w)

Lead ==
  \/ SetThreadCount \/ RunBegin \/ RunCreates \/ FallBack
  \/ Batch \/ BatchDone \/ RunEnd \/ Destroy \/ Reap

Next == InPhase \/ Lead

Spec == Init /\ [][Next]_vars

\* Every thread is scheduled, the barrier releases, and a join returns.
FairSpec ==
  /\ Spec /\ WF_vars(AllReturn) /\ WF_vars(FallBack) /\ WF_vars(Reap)
  /\ \A t \in Threads : WF_vars(Call(t) \/ Enter(t) \/ Leave(t) \/ Work(t))
  /\ \A w \in Workers : WF_vars(Look(w))

-----------------------------------------------------------------------------
(* Properties.                                                             *)

\* Every variable has its type.
TypeOK ==
  /\ parallel \in BOOLEAN /\ created \in BOOLEAN
  /\ phase \in Phases \cup {"none", "exit"}
  /\ pc \in [Threads -> Serial \cup WorkerPlaces \cup {"reap"}]
  /\ pc[Leader] \in Serial \cup {"gate", "work", "join", "reap"}
  /\ \A w \in Workers : pc[w] \in WorkerPlaces
  /\ at \in [Threads -> Barrier!Places]
  /\ ran \subseteq Threads

\* No worker is in a phase while the leader is in serial code: it frees the
\* batch's events, grows the change lists and merges the pending lists there
\* ("Without this wait, the leader can memset-free the batch events while the
\* worker is still applying them", worker_main).
LeaderAlone ==
  \A w \in Workers : pc[w] \in {"look", "work"} => pc[Leader] \notin Serial

\* Threads that work at the same time work on the same phase, the one the leader
\* set, and none works on it twice (parallel_phase, loaded after the barrier).
OncePerPhase ==
  \A t \in Threads : pc[t] = "work" => t \notin ran /\ phase \in Phases

\* A phase is over only when every thread has run it.
PhaseComplete ==
  [][pc[Leader] = "join" /\ pc'[Leader] # "join" => ran = Threads]_vars

\* A phase the leader starts comes to its end: no thread is left behind at
\* either barrier (two waits per phase, in leader and workers alike).
PhaseEnds == (pc[Leader] \in {"gate", "work", "join"}) ~> (pc[Leader] \in Serial)

\* uir_sim_destroy leaves no worker behind in memory it frees ("Signal worker
\* threads to exit").
NoneLeftBehind == pc[Leader] = "gone" => \A w \in Workers : Dead(w)

=============================================================================
