--------------------------- MODULE MCTwoCrawlers ---------------------------
(* Both crawlers over one patch change.  A patch is current from two        *)
(* matches on, and the last match is of another queue, which only           *)
(* crawler_dev takes.  Player p2 never answers.                             *)
EXTENDS TwoCrawlers, TLC

CONSTANTS p1, p2, m1, m2, m3, m4

(* The matches of the old patch are alike. *)
Sym == Permutations({m1, m2})

MCPlayer == {p1, p2}
MCMatch == {m1, m2, m3, m4}
MCGameTime == m1 :> 0 @@ m2 :> 0 @@ m3 :> 1 @@ m4 :> 1
MCGameVersion == [m \in MCMatch |-> IF m \in {m1, m2} THEN <<18, 1>> ELSE <<18, 2>>]
MCSetNumber == [m \in MCMatch |-> 18]
MCParticipants == [m \in MCMatch |-> {p1}]
MCUnreachable == {p2}
MCSolo == MCMatch \ {m4}
MCLadder == [t \in {"challenger", "grandmaster", "master"} |->
               IF t = "challenger" THEN MCPlayer ELSE {}]

ASSUME PatchesInOrder == NewerPlayedLater
=============================================================================
