---------------------------- MODULE MCComboStats ----------------------------
(* Two matches of a dealer with four combinations and a unit that now and *)
(* then carries.                                                            *)
EXTENDS ComboStats, TLC

CONSTANTS c1, c2, oA, oB, oC, oD, r1, r2

B(m, c, o, p) == [match |-> m, carry |-> c, combo |-> o, place |-> p]

MCBoard ==
  {B(1, c1, oA, 1), B(1, c1, oB, 8), B(1, c1, oC, 3), B(1, c1, oD, 2),
   B(2, c1, oA, 4), B(2, c1, oB, 8), B(2, c2, oA, 1), B(2, c2, NoCombo, 2), B(2, c2, NoCombo, 5),
   B(2, c2, NoCombo, 6), B(2, c2, NoCombo, 7)}

(* The processes are alike. *)
Sym == Permutations({r1, r2})
=============================================================================
