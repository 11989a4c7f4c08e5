----------------------------- MODULE MCCrawler -----------------------------
(* The crawler over one patch change: two players, a handful of matches.    *)
EXTENDS Crawler, TLC

CONSTANTS p1, p2, m1, m2, m3, m4

MCPlayer == {p1, p2}
MCMatch == {m1, m2, m3, m4}
MCGameTime == m1 :> 0 @@ m2 :> 1 @@ m3 :> 2 @@ m4 :> 2
MCGameVersion == m1 :> <<18, 1>> @@ m2 :> <<18, 1>> @@ m3 :> <<18, 2>> @@ m4 :> <<18, 2>>
MCSetNumber == [m \in MCMatch |-> 18]
MCParticipants == m1 :> {p1, p2} @@ m2 :> {p1} @@ m3 :> {p1, p2} @@ m4 :> {p2}
MCSolo == MCMatch \ {m4}
MCLadder == [t \in {"challenger", "grandmaster", "master"} |->
               IF t = "challenger" THEN {p1} ELSE IF t = "master" THEN {p2} ELSE {}]

ASSUME PatchesInOrder == NewerPlayedLater
=============================================================================
