----------------------------- MODULE MCWaiters -----------------------------
(***************************************************************************)
(* Instances of Waiters for TLC.                                           *)
(***************************************************************************)
EXTENDS Waiters

CONSTANTS
  go,   \* an event
  clk   \* a signal

At(n, e) == [kind |-> "at", on |-> {n}, edge |-> e]
Until(n, v) == [kind |-> "wait", on |-> {n}, goal |-> {[m \in {n} |-> v]}]

\* Edges of an event and of a signal, a condition on it, and @ of an unknown name.
SomeStatements ==
  {At(go, "any"), At(clk, "pos"), At(clk, "neg"), Until(clk, "1"),
   [kind |-> "at", on |-> {}, edge |-> "any"]}

\* Designs whose woken bodies trigger no event.
NoTriggers == SUBSET (Habit \ {"trigger"})
=============================================================================
