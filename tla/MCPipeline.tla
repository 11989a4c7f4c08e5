----------------------------- MODULE MCPipeline -----------------------------
(* The pipeline over one patch change: two matches to a patch, or one of    *)
(* the old and three of the new, each with a combination of its own.        *)
EXTENDS Pipeline, TLC

CONSTANTS m1, m2, m3, m4, c1, c2, o1, o2, o3

MCMatch == {m1, m2, m3, m4}
MCCarry == {c1, c2}
MCCombo == {o1, o2}
MCGameTime == m1 :> 0 @@ m2 :> 1 @@ m3 :> 2 @@ m4 :> 3
MCGameVersion == [m \in MCMatch |-> IF m \in {m1, m2} THEN <<18, 1>> ELSE <<18, 2>>]
MCSetNumber == [m \in MCMatch |-> 18]
MCUnits == [m \in MCMatch |-> IF m \in {m1, m3} THEN {c1} ELSE {c1, c2}]
MCBuilt ==
  [m \in MCMatch |-> IF m \in {m1, m3} THEN {<<c1, o1>>} ELSE {<<c1, o2>>, <<c2, o1>>}]

LateGameVersion == [m \in MCMatch |-> IF m = m1 THEN <<18, 1>> ELSE <<18, 2>>]
LateCombo == {o1, o2, o3}
LateBuilt ==
  m1 :> {<<c1, o1>>} @@ m2 :> {<<c1, o2>>} @@ m3 :> {<<c1, o3>>} @@ m4 :> {<<c1, o1>>, <<c2, o1>>}
LateUnits == [m \in MCMatch |-> {b[1] : b \in LateBuilt[m]}]

AllPrograms == {Program[stage] : stage \in DOMAIN Program}

(* What the Dockerfile builds and copies to /app, where run_step looks. *)
DeployedImage ==
  {"server", "crawler", "scheduler", "aggregate_combos", "combo_quiz_gen",
   "special_item_class", "aggregate_special"}

Deployed == {DeployedImage}
DeployedOrFull == {DeployedImage, AllPrograms}

(* The old patch ended when the new one began.                              *)
ASSUME PatchesInOrder == NewerPlayedLater
=============================================================================
