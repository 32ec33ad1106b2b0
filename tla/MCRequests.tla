----------------------------- MODULE MCRequests -----------------------------
(***************************************************************************)
(* One client with two connections: once it has given up a call and        *)
(* connected again, the threads of both compete for the sessions.          *)
(***************************************************************************)
EXTENDS Requests, TLC

CONSTANT a
Asked    == a :> {<<"compile", "good">>, <<"compile", "bad">>, <<"elaborate", "good">>}
Calls    == a :> 3
Connects == a :> 2
Timeouts == a :> 2
=============================================================================
