------------------------------- MODULE Nets --------------------------------
(***************************************************************************)
(* Logic values and nets (value.c, and the net groups of uir_sim.c): how   *)
(* the values of several drivers become the value of one signal.  A signal *)
(* is one bit; strengths and widths are left out.                          *)
(***************************************************************************)
EXTENDS Sequences, SequencesExt

\* qsim_logic_state_t, without the five that are VHDL's alone.
FourStates == {"0", "1", "X", "Z"}

\* NET_GROUP_... of tri0 and tri1.
Pulls  == {"tri0", "tri1"}

\* qsim_resolve_wand and qsim_resolve_wor: the value lo wins over hi.
Wins(lo, hi, a, b) ==
  IF lo \in {a, b} THEN lo
  ELSE IF a = "Z" THEN b
  ELSE IF b = "Z" THEN a
  ELSE IF "X" \in {a, b} THEN "X" ELSE hi

Wand(a, b) == Wins("0", "1", a, b)
Wor(a, b)  == Wins("1", "0", a, b)

\* qsim_resolve_std_logic, the table of nine rows and columns.
StdLogic(a, b) ==
  IF a = b THEN a
  ELSE IF "U" \in {a, b} THEN "U"
  ELSE IF {"X", "-"} \cap {a, b} # {} THEN "X"
  ELSE IF a = "Z" THEN b
  ELSE IF b = "Z" THEN a
  ELSE IF {a, b} \subseteq {"W", "L", "H"} THEN "W"
  ELSE IF {a, b} = {"0", "L"} THEN "0"
  ELSE IF {a, b} = {"1", "H"} THEN "1"
  ELSE "X"

\* What the drivers of a net, in the order of their slots, make of it; old is
\* its value so far (resolve_net_types).
Resolve(group, drivers, old) ==
  LET driven == SelectSeq(drivers, LAMBDA v : v # "Z")
  IN  CASE group = "wand" -> FoldLeft(Wand, "Z", drivers)
        [] group = "wor"  -> FoldLeft(Wor, "Z", drivers)
        [] group = "std"  -> IF drivers = <<>> THEN old
                             ELSE FoldLeft(StdLogic, "Z",
                                           IF old = "X" THEN drivers ELSE Append(drivers, old))
        [] group \in Pulls -> IF driven # <<>> THEN Last(driven)
                              ELSE IF group = "tri0" THEN "0" ELSE "1"

\* The value a supply net always has, X for any other.
InitialOf(group) ==
  CASE group = "supply0" -> "0" [] group = "supply1" -> "1" [] OTHER -> "X"
=============================================================================
