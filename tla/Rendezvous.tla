----------------------------- MODULE Rendezvous -----------------------------
(***************************************************************************)
(* What sim_barrier_wait promises to the threads of the worker pool        *)
(* (include/libqsim/sim_thread.h: "N threads wait, then all proceed"):     *)
(* no call returns before every thread has made its own, then all return,  *)
(* and the barrier is ready for the next round.  The POSIX build takes     *)
(* pthread_barrier_wait for this, the Windows build SpinBarrier.           *)
(***************************************************************************)
CONSTANT Threads

VARIABLE at   \* where each thread is with respect to its call of wait

Places == {"outside", "waiting", "released"}

Init == at = [t \in Threads |-> "outside"]

\* A thread calls wait.
Arrive(t) == at[t] = "outside" /\ at' = [at EXCEPT ![t] = "waiting"]

\* All have arrived: all may return.
Release ==
  /\ \A t \in Threads : at[t] = "waiting"
  /\ at' = [t \in Threads |-> "released"]

\* The call returns.
Leave(t) == at[t] = "released" /\ at' = [at EXCEPT ![t] = "outside"]

Next == Release \/ \E t \in Threads : Arrive(t) \/ Leave(t)

Spec == Init /\ [][Next]_at
=============================================================================
