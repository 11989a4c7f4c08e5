----------------------------- MODULE MatchStore -----------------------------
(***************************************************************************)
(* What the match store promises to everything downstream of the crawler:  *)
(* matches are added, patch_versions is recounted from them, and the       *)
(* matches of a patch go away only when the served patch is a newer one.   *)
(***************************************************************************)
EXTENDS PatchTracking

VARIABLES rawMatches, patchVersions

Init == rawMatches = {} /\ patchVersions = [p \in {} |-> 0]

StoreMatch(m) == rawMatches' = rawMatches \cup {m} /\ UNCHANGED patchVersions

Recount == patchVersions' = Reconciled(patchVersions, rawMatches) /\ UNCHANGED rawMatches

DropPatch(p) ==
  /\ \E t \in CurrentPatchInfo(patchVersions) : t # NoPatch /\ PatchLt(p, t)
  /\ rawMatches' = rawMatches \ RowsOf(rawMatches, p)
  /\ UNCHANGED patchVersions

Next ==
  \/ \E m \in Match : StoreMatch(m)
  \/ Recount
  \/ \E p \in Patches : DropPatch(p)

Spec == Init /\ [][Next]_<<rawMatches, patchVersions>>
=============================================================================
