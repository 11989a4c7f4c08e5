----------------------------- MODULE MCDeckQuiz -----------------------------
(* Decks of two units, a patch change, and a unit that stands twice on a    *)
(* board.                                                                   *)
EXTENDS DeckQuiz, TLC

CONSTANTS u1, u2, u3, u4, u5

B(m, us, p) == [match |-> m, place |-> p, copies |-> [u \in us |-> IF us = {u2, u4} THEN 2 ELSE 1]]

MCCost == u1 :> 1 @@ u2 :> 1 @@ u3 :> 3 @@ u4 :> 3 @@ u5 :> 4
MCBoard ==
  {B(1, {u1, u2}, 1), B(1, {u1, u2}, 4), B(1, {u1, u3}, 4), B(1, {u4, u5}, 3),
   B(2, {u1, u2}, 2), B(2, {u2, u4}, 3), B(2, {u3, u5}, 8), B(2, {u1, u3}, 4),
   B(3, {u3, u5}, 1), B(3, {u1, u4}, 4), B(3, {u1}, 2), B(3, {u1, u2, u3}, 5)}
=============================================================================
