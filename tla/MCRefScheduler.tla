--------------------------- MODULE MCRefScheduler ---------------------------
(***************************************************************************)
(* Instances of RefScheduler for TLC.                                      *)
(***************************************************************************)
EXTENDS RefScheduler

\* Clients that mix all three calls, and clients with NBAs that do not step by delta.
AllClients ==
  {[api |-> {"run", "time", "delta"}, nba |-> FALSE], [api |-> {"run", "time"}, nba |-> TRUE]}
=============================================================================
