---------------------------- MODULE MCSimKernel ----------------------------
(***************************************************************************)
(* Instances of SimKernel for TLC.                                         *)
(***************************************************************************)
EXTENDS SimKernel

\* Whole writes only; one-part signals.
WholeRanges == {Parts}
=============================================================================
