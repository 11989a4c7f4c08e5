--------------------------- MODULE PatchTracking ---------------------------
(***************************************************************************)
(* What the code knows about game patches: the version a match belongs to, *)
(* the order in which versions are compared, the patch_versions table      *)
(* recomputed from raw_matches, and the questions the binaries ask of it.  *)
(*                                                                         *)
(* A version is a pair <<major, minor>>.  The table is a function from the *)
(* patches that have a row to [earliest, count].                           *)
(***************************************************************************)
EXTENDS Integers, FiniteSets, FiniteSetsExt

CONSTANTS
  Match,            \* the matches that ever exist at the game's provider
  GameTime,         \* GameTime[m]: when match m began
  GameVersion,      \* the <<major, minor>> in its version string, or NoVersion
  SetNumber,        \* the TFT set it was played in
  MinPatchMatches,  \* rows a patch needs to become the current one (5000)
  PatchMargin       \* taken off a patch's earliest match (12 hours)

NoVersion == <<>>   \* a version string without digits ("?.?.?.?")
NoPatch   == <<>>   \* None where the code has an Option<String>

ASSUME MatchAssumption ==
  /\ IsFiniteSet(Match)
  /\ GameTime \in [Match -> Nat]
  /\ SetNumber \in [Match -> Nat]
  /\ GameVersion \in [Match -> (Nat \X Nat) \cup {NoVersion}]

ASSUME PatchAssumption == MinPatchMatches \in Nat \ {0} /\ PatchMargin \in Nat

(* Info::patch: the parsed pair, or "<set>.0" when there is none. *)
PatchOf(m) ==
  IF GameVersion[m] # NoVersion THEN GameVersion[m] ELSE <<SetNumber[m], 0>>

Patches == {PatchOf(m) : m \in Match}

(* patch_lt: the pairs in numeric, lexicographic order. *)
PatchLt(a, b) == a[1] < b[1] \/ (a[1] = b[1] /\ a[2] < b[2])

(* Patches are played one after another, as the queries for the newest one  *)
(* take it (db.rs:392-415): what is said of the order of patches needs it.  *)
NewerPlayedLater ==
  \A m, n \in Match : PatchLt(PatchOf(m), PatchOf(n)) => GameTime[m] < GameTime[n]

(* The rows of patch_versions. *)
PatchRow == [earliest : Nat, count : Nat]

RowsOf(raw, p) == {m \in raw : PatchOf(m) = p}

EarliestIn(rows) == Min({GameTime[m] : m \in rows})

(***************************************************************************)
(* reconcile_patch_versions: GROUP BY patch over raw_matches, upserted.    *)
(* The earliest time only moves back, the count is overwritten, and a      *)
(* patch with no rows left keeps the row it had.                           *)
(***************************************************************************)
Reconciled(pv, raw) ==
  LET seen == {PatchOf(m) : m \in raw}
      row(p) == [earliest |-> EarliestIn(RowsOf(raw, p)),
                 count    |-> Cardinality(RowsOf(raw, p))]
  IN  [p \in DOMAIN pv \cup seen |->
         IF p \notin seen THEN pv[p]
         ELSE IF p \in DOMAIN pv /\ pv[p].earliest < row(p).earliest
              THEN [row(p) EXCEPT !.earliest = pv[p].earliest]
              ELSE row(p)]

(* Faulty variant: the patch with the most matches.                         *)
NewestByCount(pv, n) ==
  {p \in DOMAIN pv :
     /\ pv[p].count >= n
     /\ \A q \in DOMAIN pv : pv[q].count >= n => pv[q].count <= pv[p].count}

(* The rows ORDER BY earliest DESC LIMIT 1 may answer, ties included, among *)
(* those with at least n matches.                                           *)
Newest(pv, n) ==
  {p \in DOMAIN pv :
     /\ pv[p].count >= n
     /\ \A q \in DOMAIN pv : pv[q].count >= n => pv[q].earliest <= pv[p].earliest}

Answers(found, none) == IF found = {} THEN {none} ELSE found

(* current_patch_info: the patch the pipeline works for. *)
CurrentPatchInfo(pv) == Answers(Newest(pv, MinPatchMatches), NoPatch)

(* current_patch_start_time: NoStart stands for its None. *)
CurrentPatchStartTime(pv, NoStart) ==
  Answers({pv[p].earliest - PatchMargin : p \in Newest(pv, MinPatchMatches)}, NoStart)

(* current_patch_match_count: no threshold, so it may answer for a younger  *)
(* patch than current_patch_info does.                                      *)
CurrentPatchMatchCount(pv) == Answers({pv[p].count : p \in Newest(pv, 0)}, 0)

(* Faulty variant: the target counted among the old patches.                *)
OlderPatchesOrTarget(raw, target) ==
  {p \in {PatchOf(m) : m \in raw} : ~PatchLt(target, p)}

(* The patches prune_old_patches deletes. *)
OlderPatches(raw, target) == {p \in {PatchOf(m) : m \in raw} : PatchLt(p, target)}
=============================================================================
