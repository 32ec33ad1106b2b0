-------------------------- MODULE MCParallelBatch ---------------------------
(***************************************************************************)
(* Instances of ParallelBatch for TLC.                                     *)
(***************************************************************************)
EXTENDS ParallelBatch, TLC

ThreeSignals == 0 .. 2

\* One event of a later time is queued.
OneLater == {<< <<5, 0>> >>}

\* Processes are interchangeable.
Symmetric == Permutations(Procs)
=============================================================================
