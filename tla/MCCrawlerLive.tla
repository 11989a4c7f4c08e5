--------------------------- MODULE MCCrawlerLive ---------------------------
(* Three players, one of whom no request ever reaches, and two patches that *)
(* both gather enough matches.                                              *)
EXTENDS Crawler, TLC

CONSTANTS p1, p2, p3, m1, m2, m3

MCPlayer == {p1, p2, p3}
MCMatch == {m1, m2, m3}
MCGameTime == m1 :> 0 @@ m2 :> 1 @@ m3 :> 1
MCOldVersion == <<18, 1>>
MCNewVersion == <<18, 2>>
MCGameVersion == [m \in MCMatch |-> IF m = m1 THEN MCOldVersion ELSE MCNewVersion]
MCSetNumber == [m \in MCMatch |-> 18]
MCUnreachable == {p3}
MCParticipants == [m \in MCMatch |-> IF m = m3 THEN {p2, p3} ELSE {p1, p2}]
MCLadder == [t \in {"challenger", "grandmaster", "master"} |->
               IF t = "challenger" THEN {p1, p3} ELSE {p2}]
=============================================================================
