-------------------------- MODULE TwoCrawlersProofs --------------------------
(* Proofs about crawler_dev beside the crawler: two writers of raw_matches  *)
(* and patch_versions, without a transaction between them.                  *)
EXTENDS TwoCrawlers, CrawlerProofs

(***************************************************************************)
(* The inductive invariant: what the crawler has to itself (IInv of module *)
(* CrawlerProofs) stays as it was.  Of the patches not even the one being  *)
(* served is safe, for a recount that read early may be written late; but  *)
(* the newest patch that ever was a target keeps its matches.              *)
(***************************************************************************)

Overtaken(p) == \E t \in targets : PatchLt(p, t)

(* Targets have their row, and what is pruned is older than one of them. *)
TargetsInv ==
  /\ targets \subseteq DOMAIN patchVersions
  /\ targetPatch # NoPatch => targetPatch \in targets
  /\ \A p \in toPrune : Overtaken(p)

(* Rows, of a table or read from it, that account for the counts of the     *)
(* patches not overtaken, and for a target being one.                       *)
CountsIn(rows) ==
  \A p \in DOMAIN patchVersions :
    ~Overtaken(p) => patchVersions[p].count <= Cardinality(RowsOf(rows, p))

TargetsIn(rows) ==
  \A t \in targets : ~Overtaken(t) => MinPatchMatches <= Cardinality(RowsOf(rows, t))

Within(rows, more) == \A p \in Patches : ~Overtaken(p) => RowsOf(rows, p) \subseteq RowsOf(more, p)

(* Counts, and the rows a recount has read, are of matches that are there,  *)
(* but for patches overtaken.  While the crawler counts it does not prune.  *)
KeptInv ==
  /\ CountsIn(rawMatches) /\ TargetsIn(rawMatches)
  /\ Within(devRows, rawMatches)
  /\ crawlRows \subseteq rawMatches

(* What a recount that is not late has read accounts for what is served     *)
(* when it writes: the other's recounts written meanwhile have read less.   *)
SnapInv ==
  /\ crawlPc = "write" => TargetsIn(crawlRows)
  /\ crawlPc = "write" /\ "crawler" \notin late => CountsIn(crawlRows)
  /\ devPc = "write" /\ "dev" \notin late => TargetsIn(devRows) /\ CountsIn(devRows)
  /\ crawlPc = "write" /\ devPc = "write" =>
       /\ lastRead = "dev" => crawlRows \subseteq devRows
       /\ lastRead = "crawler" => Within(devRows, crawlRows)

DInv == DevTypeOK /\ PlayedInv /\ TargetsInv /\ KeptInv /\ SnapInv

----------------------------------------------------------------------------
(* What crawler_dev does to the crawler: it stores matches it has listed,   *)
(* and writes the rows its recount has read.                                *)
DevQuiet ==
  /\ devRows' = devRows /\ (devPc' = "write" <=> devPc = "write")
  /\ UNCHANGED <<patchVersions, lastRead, late>>

DevReads ==
  /\ devPc # "write" /\ devPc' = "write" /\ devRows' = rawMatches
  /\ lastRead' = "dev"
  /\ UNCHANGED <<rawMatches, patchVersions, late>>

DevStops ==
  /\ devPc' = "idle" /\ devRows' = {} /\ late' = late \ {"dev"}
  /\ UNCHANGED <<rawMatches, patchVersions, lastRead>>

DevRecounts ==
  /\ devPc = "write" /\ devPc' = "idle" /\ devRows' = {}
  /\ patchVersions' = Reconciled(patchVersions, devRows)
  /\ late' = IF crawlPc = "write" /\ lastRead = "dev" THEN {"crawler"} ELSE late \ {"dev"}
  /\ UNCHANGED <<rawMatches, lastRead>>

DevEffect ==
  /\ UNCHANGED <<now, published, tracked, lastCrawled>> /\ UNCHANGED run /\ UNCHANGED hist
  /\ faults' = faults \/ faults' = faults + 1
  /\ rawMatches' = rawMatches \/ \E m \in devTodo : rawMatches' = rawMatches \cup {m}
  /\ DevQuiet \/ DevReads \/ DevStops \/ DevRecounts

LEMMA DevStepEffect == DevStep => DevEffect
<1> SUFFICES ASSUME DevStep PROVE DevEffect
  OBVIOUS
<1> USE DEF DevEffect, world, db, order, Fault, NoFault
<1>1. CASE DevStarts
  BY <1>1 DEF DevStarts, DevQuiet
<1>2. CASE DevPlayers
  BY <1>2 DEF DevPlayers, DevQuiet
<1>3. CASE DevNextPlayer
  BY <1>3 DEF DevNextPlayer, DevQuiet
<1>4. CASE DevCounts
  BY <1>4 DEF DevCounts, DevReads
<1>5. CASE DevWrites
  BY <1>5 DEF DevWrites, DevEnds, DevRecounts
<1>6. CASE DevFails
  BY <1>6 DEF DevFails, DevEnds, DevStops
<1>7. ASSUME NEW t \in Tiers, DevTier(t) PROVE DevEffect
  BY <1>7 DEF DevTier, DevQuiet
<1>8. ASSUME NEW p \in Player, DevFetch(p) PROVE DevEffect
  BY <1>8 DEF DevFetch, DevQuiet
<1>9. ASSUME NEW p \in Player, DevFetchFails(p) PROVE DevEffect
  BY <1>9 DEF DevFetchFails, DevQuiet
<1>10. ASSUME NEW m \in Match, DevMatch(m) PROVE DevEffect
  BY <1>10 DEF DevMatch, DevQuiet
<1> QED
  BY <1>1, <1>2, <1>3, <1>4, <1>5, <1>6, <1>7, <1>8, <1>9, <1>10 DEF DevStep

----------------------------------------------------------------------------
(* Type correctness *)

DevOwnTypes ==
  /\ devPc \in {"idle", "leagues", "players", "match", "write"}
  /\ devTiers \subseteq Tiers /\ devQueue \subseteq Player /\ devStart \in Int
  /\ devTarget \in Patches \cup {NoPatch}
  /\ devTodo \subseteq published /\ devSeen \subseteq published /\ devRows \subseteq published
  /\ devTotal \in 0 .. TargetMatches /\ devRuns \in 0 .. MaxDevRuns
  /\ devPc = "idle" => DevIdle

CountTypes ==
  /\ crawlPc = "write" => pc = "players" /\ queue = {}
  /\ crawlPc \in {"run", "write"} /\ crawlRows \subseteq published
  /\ crawlPc = "run" => crawlRows = {}
  /\ lastRead \in {"crawler", "dev"} /\ late \subseteq {"crawler", "dev"}
  /\ "crawler" \in late => crawlPc = "write"
  /\ "dev" \in late => devPc = "write"

LEMMA DevTypeParts == DevTypeOK <=> TypeOK /\ DevOwnTypes /\ CountTypes
BY DEF DevTypeOK, DevOwnTypes, CountTypes

LEMMA DevStartType ==
  ASSUME TypeOK
  PROVE  CurrentPatchStartTime(patchVersions, Anywhere) \subseteq Int
<1>1. \A p \in Newest(patchVersions, MinPatchMatches) :
        patchVersions[p].earliest - PatchMargin \in Int
  BY PatchAssumption DEF Newest, TypeOK, PatchRow
<1>2. Anywhere \in Int
  BY DEF Anywhere
<1> QED
  BY <1>1, <1>2 DEF CurrentPatchStartTime, Answers

LEMMA DevStepTypes == DevTypeOK /\ DevStep => DevTypeOK'
<1> SUFFICES ASSUME DevTypeOK, DevStep PROVE DevTypeOK'
  OBVIOUS
<1>1. TypeOK /\ DevOwnTypes /\ CountTypes /\ DevEffect
  BY DevTypeParts, DevStepEffect
<1>2. TypeOK'
  <2>1. rawMatches' \subseteq published' /\ faults' \in Nat
    BY <1>1 DEF DevEffect, DevOwnTypes, TypeOK
  <2>2. /\ DOMAIN patchVersions' \subseteq Patches
        /\ \A p \in DOMAIN patchVersions' : patchVersions'[p] \in PatchRow
    BY <1>1, ReconciledType
    DEF DevEffect, DevQuiet, DevReads, DevStops, DevRecounts, DevOwnTypes, TypeOK
  <2> QED
    BY <1>1, <2>1, <2>2 DEF DevEffect, TypeOK, run, hist
<1>3. DevOwnTypes'
  <2> USE DEF DevOwnTypes, world, db
  <2>0. DevEnds /\ devRuns' = devRuns => DevOwnTypes'
    BY <1>1, DevAssumption DEF DevEnds, DevIdle, Anywhere
  <2>1. CASE DevStarts
    <3>1. devTiers' \subseteq Tiers
      BY <2>1 DEF DevStarts, TiersForSample, Tiers
    <3>2. devRuns' \in 0 .. MaxDevRuns
      BY <1>1, <2>1, DevAssumption DEF DevStarts
    <3> QED
      BY <1>1, <2>1, <3>1, <3>2 DEF DevStarts
  <2>2. CASE DevPlayers
    <3>1. devStart' \in Int
      BY <1>1, <2>2, DevStartType DEF DevPlayers, Anywhere
    <3> QED
      BY <1>1, <2>2, <3>1 DEF DevPlayers
  <2>3. CASE DevNextPlayer
    BY <1>1, <2>3 DEF DevNextPlayer
  <2>4. CASE DevCounts
    BY <1>1, <2>4 DEF DevCounts, TypeOK
  <2>5. CASE DevWrites
    BY <2>0, <2>5 DEF DevWrites
  <2>6. CASE DevFails
    BY <2>0, <2>6 DEF DevFails
  <2>7. ASSUME NEW t \in Tiers, DevTier(t) PROVE DevOwnTypes'
    <3>1. devQueue' \subseteq Player
      BY <1>1, <2>7, CrawlerAssumption DEF DevTier
    <3> QED
      BY <1>1, <2>7, <3>1 DEF DevTier
  <2>8. ASSUME NEW p \in Player, DevFetch(p) PROVE DevOwnTypes'
    <3>1. devTarget' \in Patches \cup {NoPatch}
      BY <1>1, <2>8, AnswersType DEF DevFetch
    <3>2. devTodo' \subseteq published
      BY <2>8 DEF DevFetch
    <3> QED
      BY <1>1, <2>8, <3>1, <3>2 DEF DevFetch
  <2>9. ASSUME NEW p \in Player, DevFetchFails(p) PROVE DevOwnTypes'
    BY <1>1, <2>9 DEF DevFetchFails
  <2>10. ASSUME NEW m \in Match, DevMatch(m) PROVE DevOwnTypes'
    <3>1. devTotal' \in 0 .. TargetMatches
      BY <1>1, <2>10, DevAssumption DEF DevMatch, BelowTotal
    <3> QED
      BY <1>1, <2>10, <3>1 DEF DevMatch
  <2> QED
    BY <2>1, <2>2, <2>3, <2>4, <2>5, <2>6, <2>7, <2>8, <2>9, <2>10 DEF DevStep
<1>4. CountTypes'
  BY <1>1 DEF DevEffect, DevQuiet, DevReads, DevStops, DevRecounts, CountTypes, DevOwnTypes, run
<1> QED
  BY <1>2, <1>3, <1>4 DEF DevTypeOK, DevOwnTypes, CountTypes

(* While its recount is under way the crawler does nothing else.            *)
LEMMA NothingElse ==
  ASSUME RunStep \/ WorldStep, pc = "players", queue = {}
  PROVE  pc' = "idle" \/ (pc' = "players" /\ queue' = {})
BY DEF RunStep, WorldStep, StartRun, RefreshTier, UpsertFails, SelectPlayers, FetchIds, FetchFails,
       Fetch, IsNext, HandleMatch, DetailFails, InsertFails, TakeMatch, MarkCrawled, ReconcileFails,
       PrunePatch, EndPrune, Crash, EndRun, Tick, Publish

LEMMA DevTypeStep == DevTypeOK /\ [DevNext]_allVars => DevTypeOK'
<1> SUFFICES ASSUME DevTypeOK, [DevNext]_allVars PROVE DevTypeOK'
  OBVIOUS
<1>1. CASE DevStep
  BY <1>1, DevStepTypes
<1>2. ASSUME TypeOK', UNCHANGED dev, published \subseteq published', CountTypes' PROVE DevTypeOK'
  <2>1. DevOwnTypes'
    BY <1>2, DevTypeParts DEF DevOwnTypes, DevIdle, dev
  <2> QED
    BY <1>2, <2>1 DEF DevTypeOK, DevOwnTypes, CountTypes
<1>3. TypeOK /\ CountTypes
  BY DevTypeParts
<1>4. CASE CrawlerCounts
  <2>1. TypeOK' /\ UNCHANGED vars /\ UNCHANGED dev
    BY <1>3, <1>4, TypeStep DEF CrawlerCounts
  <2>2. CountTypes'
    BY <1>3, <1>4, <2>1 DEF CrawlerCounts, CountTypes, TypeOK, vars, dev
  <2> QED
    BY <1>2, <2>1, <2>2 DEF vars
<1>5. CASE CrawlerWrites
  <2>1. TypeOK' /\ published' = published
    BY <1>3, <1>5, RecountType DEF CrawlerWrites, CountTypes, Recount, world
  <2>2. CountTypes'
    BY <1>3, <1>5 DEF CrawlerWrites, CountOver, CountTypes, dev
  <2> QED
    BY <1>2, <1>5, <2>1, <2>2 DEF CrawlerWrites
<1>6. CASE CrawlerGoesOn
  <2>1. [Next]_vars
    BY <1>6 DEF CrawlerGoesOn, Next, CrawlerStep
  <2>2. TypeOK'
    BY <1>3, <2>1, TypeStep
  <2>3. published \subseteq published'
    BY <1>6 DEF CrawlerGoesOn, RunStep, WorldStep, StartRun, RefreshTier, UpsertFails,
                SelectPlayers, FetchIds, FetchFails, Fetch, HandleMatch, DetailFails, InsertFails,
                MarkCrawled, ReconcileFails, PrunePatch, EndPrune, Crash, Tick, Publish, world
  <2>4. crawlPc = "write" => pc' = "idle" \/ (pc' = "players" /\ queue' = {})
    BY <1>3, <1>6, NothingElse DEF CrawlerGoesOn, CountTypes
  <2>5. CountTypes'
    BY <1>3, <1>6, <2>3, <2>4 DEF CrawlerGoesOn, CountOver, CountTypes, dev
  <2> QED
    BY <1>2, <1>6, <2>2, <2>3, <2>5 DEF CrawlerGoesOn
<1>7. CASE UNCHANGED allVars
  <2>1. TypeOK'
    BY <1>3, <1>7, TypeStep DEF allVars
  <2>2. CountTypes'
    BY <1>3, <1>7 DEF CountTypes, allVars, vars, dev, order
  <2> QED
    BY <1>2, <1>7, <2>1, <2>2 DEF allVars, vars
<1> QED
  BY <1>1, <1>4, <1>5, <1>6, <1>7 DEF DevNext

LEMMA DevTypeInit == DevInit => DevTypeOK
BY TypeInit, DevAssumption DEF DevInit, DevTypeOK, DevIdle, Anywhere, Init

(* The variables of both writers keep their types, and a run of crawler_dev *)
(* that is over has left nothing but what it stored.                        *)
THEOREM DevTypeCorrect == DevSpec => []DevTypeOK
<1> QED
  BY DevTypeInit, DevTypeStep, PTL DEF DevSpec

----------------------------------------------------------------------------
(* No match is lost *)

(* Matches that another writer stores take nothing from the crawler's       *)
(* account of those it still owes.                                          *)
LEMMA DevKeepsInv ==
  ASSUME IInv, TypeOK', DevEffect
  PROVE  IInv'
<1> USE DEF IInv, run, hist
<1>1. /\ rawMatches \subseteq rawMatches' /\ seen' = seen /\ queue' = queue /\ pc' = pc
      /\ cur' = cur /\ lastCrawled' = lastCrawled /\ tracked' = tracked
  BY DEF DevEffect
<1>2. \A m \in Match : InPolicy(m)' <=> InPolicy(m)
  BY DEF DevEffect, InPolicy
<1>3. NoMatchLost'
  BY <1>1, <1>2, StillFound DEF TypeOK
<1>4. SeenInv'
  BY <1>1, <1>2, StillSeen
<1>5. PhaseInv' /\ CurInv' /\ TodoInv'
  BY DEF DevEffect, PhaseInv, CurInv, TodoInv
<1>6. FetchedInv'
  BY <1>1, <1>2 DEF DevEffect, FetchedInv, Passed
<1> QED
  BY <1>3, <1>4, <1>5, <1>6

LEMMA DevInvStep ==
  "detail" \notin Faults /\ DevTypeOK /\ IInv /\ [DevNext]_allVars => IInv'
<1> SUFFICES ASSUME "detail" \notin Faults, DevTypeOK, IInv, [DevNext]_allVars PROVE IInv'
  OBVIOUS
<1>1. CASE DevStep
  <2>1. TypeOK'
    BY <1>1, DevStepTypes DEF DevTypeOK
  <2> QED
    BY <1>1, <2>1, DevStepEffect, DevKeepsInv
<1>2. CASE [Next]_vars
  BY <1>2, InvStep
<1>3. CASE CrawlerWrites
  <2>1. TypeOK'
    BY DevTypeStep DEF DevTypeOK
  <2> QED
    BY <1>3, <2>1, InvRecount DEF CrawlerWrites
<1> QED
  BY <1>1, <1>2, <1>3 DEF DevNext, CrawlerCounts, CrawlerGoesOn, Next, CrawlerStep, allVars

(* What crawler_dev stores of its own accord, beside a crawler that asks    *)
(* raw_matches what is there, costs no match: for any players, matches and  *)
(* bounds, whatever else fails.                                             *)
THEOREM NothingLostBeside == "detail" \notin Faults /\ DevSpec => []NoMatchLost
<1> SUFFICES ASSUME "detail" \notin Faults PROVE DevSpec => []NoMatchLost
  OBVIOUS
<1>1. DevInit => IInv
  BY InvInit DEF DevInit
<1>2. DevTypeOK /\ IInv /\ [DevNext]_allVars => IInv'
  BY DevInvStep
<1>3. IInv => NoMatchLost
  BY DEF IInv
<1> QED
  BY <1>1, <1>2, <1>3, DevTypeInit, DevTypeStep, PTL DEF DevSpec

----------------------------------------------------------------------------
(* The newest of the targets keeps its matches *)

(* What some rows account for, more rows do. *)
LEMMA MoreAccounts ==
  ASSUME TypeOK, NEW rows \in SUBSET Match, NEW more \in SUBSET Match, Within(rows, more)
  PROVE  /\ CountsIn(rows) => CountsIn(more)
         /\ TargetsIn(rows) => TargetsIn(more)
<1>1. \A p \in Patches : ~Overtaken(p) =>
        /\ Cardinality(RowsOf(rows, p)) <= Cardinality(RowsOf(more, p))
        /\ Cardinality(RowsOf(rows, p)) \in Nat /\ Cardinality(RowsOf(more, p)) \in Nat
  BY MoreRows, RowsFinite DEF Within
<1>2. ASSUME CountsIn(rows), NEW p \in DOMAIN patchVersions, ~Overtaken(p)
      PROVE  patchVersions[p].count <= Cardinality(RowsOf(more, p))
  <2>1. /\ p \in Patches /\ patchVersions[p].count \in Nat
        /\ patchVersions[p].count <= Cardinality(RowsOf(rows, p))
    BY <1>2 DEF CountsIn, TypeOK, PatchRow
  <2> QED
    BY <1>1, <1>2, <2>1
<1>3. ASSUME TargetsIn(rows), NEW t \in targets, ~Overtaken(t)
      PROVE  MinPatchMatches <= Cardinality(RowsOf(more, t))
  <2>1. t \in Patches /\ MinPatchMatches <= Cardinality(RowsOf(rows, t))
    BY <1>3 DEF TargetsIn, TypeOK
  <2> QED
    BY <1>1, <1>3, <2>1, PatchAssumption
<1> QED
  BY <1>2, <1>3 DEF CountsIn, TargetsIn

(* While patch_versions and the targets stay as they are, so does what the  *)
(* recounts under way have read; one of them may be given up.               *)
LEMMA SnapKept ==
  ASSUME DInv, patchVersions' = patchVersions, targets' = targets, lastRead' = lastRead,
         \/ /\ crawlPc' = crawlPc /\ crawlRows' = crawlRows
            /\ "crawler" \in late' <=> "crawler" \in late
         \/ crawlPc' = "run",
         \/ /\ devPc' = "write" <=> devPc = "write"
            /\ devRows' = devRows /\ ("dev" \in late' <=> "dev" \in late)
         \/ devPc' = "idle"
  PROVE  SnapInv'
<1>1. \A p : Overtaken(p)' <=> Overtaken(p)
  BY DEF Overtaken
<1>2. SnapInv
  BY DEF DInv
<1> QED
  BY <1>1, <1>2 DEF SnapInv, CountsIn, TargetsIn, Within

(* Steps that leave patch_versions and the targets alone and remove no match. *)
LEMMA DKept ==
  ASSUME DInv, DevTypeOK', SnapInv', patchVersions' = patchVersions, targets' = targets,
         published \subseteq published', \A m \in published' : GameTime[m] <= now', now <= now',
         rawMatches \subseteq rawMatches', devRows' \in {devRows, {}, rawMatches},
         crawlRows' \in {crawlRows, {}, rawMatches},
         \/ targetPatch' = targetPatch /\ toPrune' \subseteq toPrune
         \/ targetPatch' = NoPatch /\ toPrune' = {}
  PROVE  DInv'
<1> USE DEF DInv
<1>1. TypeOK /\ TypeOK' /\ rawMatches \in SUBSET Match /\ rawMatches' \in SUBSET Match
  BY DEF DevTypeOK, TypeOK
<1>2. PlayedInv'
  <2>1. \A p \in DOMAIN patchVersions : patchVersions[p].earliest <= now'
    BY <1>1 DEF PlayedInv, TypeOK, PatchRow
  <2> QED
    BY <2>1 DEF PlayedInv
<1>3. \A p : Overtaken(p)' <=> Overtaken(p)
  BY DEF Overtaken
<1>4. TargetsInv'
  BY <1>3 DEF TargetsInv
<1>5. \A p : RowsOf(rawMatches, p) \subseteq RowsOf(rawMatches', p)
  BY DEF RowsOf
<1>6. /\ \A p \in DOMAIN patchVersions :
           ~Overtaken(p) => patchVersions[p].count <= Cardinality(RowsOf(rawMatches', p))
      /\ \A t \in targets : ~Overtaken(t) => MinPatchMatches <= Cardinality(RowsOf(rawMatches', t))
  <2> DEFINE more == rawMatches'
  <2>1. more \in SUBSET Match /\ \A p \in Patches : RowsOf(rawMatches, p) \subseteq RowsOf(more, p)
    BY <1>1, <1>5
  <2>2. CountsIn(rawMatches) /\ TargetsIn(rawMatches)
    BY DEF KeptInv
  <2> HIDE DEF more
  <2>3. \A p \in Patches :
          /\ Cardinality(RowsOf(rawMatches, p)) <= Cardinality(RowsOf(more, p))
          /\ Cardinality(RowsOf(rawMatches, p)) \in Nat /\ Cardinality(RowsOf(more, p)) \in Nat
    BY <1>1, <2>1, MoreRows, RowsFinite
  <2>4. /\ DOMAIN patchVersions \subseteq Patches /\ targets \subseteq Patches
        /\ \A p \in DOMAIN patchVersions : patchVersions[p].count \in Nat
    BY <1>1 DEF TypeOK, PatchRow
  <2>5. /\ \A p \in DOMAIN patchVersions :
             ~Overtaken(p) => patchVersions[p].count <= Cardinality(RowsOf(more, p))
        /\ \A t \in targets : ~Overtaken(t) => MinPatchMatches <= Cardinality(RowsOf(more, t))
    BY <2>2, <2>3, <2>4, PatchAssumption DEF CountsIn, TargetsIn
  <2> QED
    BY <2>5 DEF more
<1>7. ASSUME NEW p \in Patches, ~Overtaken(p)
      PROVE  RowsOf(devRows', p) \subseteq RowsOf(rawMatches', p)
  BY <1>5, <1>7 DEF KeptInv, Within, RowsOf
<1>8. crawlRows' \subseteq rawMatches'
  BY DEF KeptInv
<1>9. KeptInv'
  BY <1>3, <1>6, <1>7, <1>8 DEF KeptInv, CountsIn, TargetsIn, Within
<1> QED
  BY <1>2, <1>4, <1>9

(* A run takes for its target a patch whose matches are there, and among    *)
(* those a recount has read, or one that was overtaken.                     *)
LEMMA DStart ==
  ASSUME DInv, DevTypeOK', StartRun, CrawlerGoesOn
  PROVE  DInv'
<1> USE DEF DInv
<1>1. TypeOK /\ TypeOK' /\ crawlPc = "run" /\ crawlPc' = "run"
  BY DEF DevTypeOK, StartRun, CrawlerGoesOn
<1>2. /\ UNCHANGED <<now, published, rawMatches, patchVersions, toPrune, crawlRows, late>>
      /\ UNCHANGED <<devRows, devPc>>
      /\ targetPatch' \in CurrentPatchInfo(patchVersions) \cup {NoPatch}
      /\ targets' = IF targetPatch' = NoPatch THEN targets ELSE targets \cup {targetPatch'}
  BY DEF StartRun, CrawlerGoesOn, world, db, dev
<1>3. \A p : Overtaken(p) => Overtaken(p)'
  BY <1>2 DEF Overtaken
<1>4. targetPatch' # NoPatch
        => /\ targetPatch' \in DOMAIN patchVersions
           /\ patchVersions[targetPatch'].count >= MinPatchMatches
  BY <1>1, <1>2, ServedIs DEF TypeOK
<1>5. TargetsInv'
  BY <1>2, <1>3, <1>4 DEF TargetsInv
<1>6. PlayedInv'
  BY <1>2 DEF PlayedInv
<1>7. ASSUME NEW rows \in SUBSET Match, CountsIn(rows), TargetsIn(rows),
             NEW t \in targets', ~Overtaken(t)'
      PROVE  MinPatchMatches <= Cardinality(RowsOf(rows, t))
  <2>1. CASE t \in targets
    BY <1>3, <1>7, <2>1 DEF TargetsIn
  <2>2. CASE t = targetPatch' /\ t # NoPatch
    <3>1. /\ t \in DOMAIN patchVersions /\ patchVersions[t].count >= MinPatchMatches
          /\ patchVersions[t].count <= Cardinality(RowsOf(rows, t))
      BY <1>3, <1>4, <1>7, <2>2 DEF CountsIn
    <3>2. patchVersions[t].count \in Nat /\ Cardinality(RowsOf(rows, t)) \in Nat
      BY <1>1, <3>1, RowsFinite DEF TypeOK, PatchRow
    <3> QED
      BY <3>1, <3>2, PatchAssumption
  <2> QED
    BY <1>2, <2>1, <2>2
<1>8. ASSUME NEW rows \in SUBSET Match, CountsIn(rows),
             NEW p \in DOMAIN patchVersions', ~Overtaken(p)'
      PROVE  patchVersions'[p].count <= Cardinality(RowsOf(rows, p))
  BY <1>2, <1>3, <1>8 DEF CountsIn
<1>9. rawMatches \in SUBSET Match /\ devRows \in SUBSET Match
  BY DEF DevTypeOK, TypeOK
<1>10. KeptInv'
  <2>1. CountsIn(rawMatches) /\ TargetsIn(rawMatches) /\ Within(devRows, rawMatches)
        /\ crawlRows' \subseteq rawMatches'
    BY <1>2 DEF KeptInv
  <2>2. \A t \in targets' : ~Overtaken(t)' => MinPatchMatches <= Cardinality(RowsOf(rawMatches, t))
    BY <1>7, <1>9, <2>1
  <2>3. \A p \in DOMAIN patchVersions' :
          ~Overtaken(p)' => patchVersions'[p].count <= Cardinality(RowsOf(rawMatches, p))
    BY <1>8, <1>9, <2>1
  <2>4. \A p \in Patches : ~Overtaken(p)' => RowsOf(devRows, p) \subseteq RowsOf(rawMatches, p)
    BY <1>3, <2>1 DEF Within
  <2> QED
    BY <1>2, <2>1, <2>2, <2>3, <2>4 DEF KeptInv, CountsIn, TargetsIn, Within
<1>11. SnapInv'
  <2>1. CASE devPc = "write" /\ "dev" \notin late
    <3>1. CountsIn(devRows) /\ TargetsIn(devRows)
      BY <2>1 DEF SnapInv
    <3>2. /\ \A t \in targets' : ~Overtaken(t)' => MinPatchMatches <= Cardinality(RowsOf(devRows, t))
          /\ \A p \in DOMAIN patchVersions' :
               ~Overtaken(p)' => patchVersions'[p].count <= Cardinality(RowsOf(devRows, p))
      BY <1>7, <1>8, <1>9, <3>1
    <3> QED
      BY <1>1, <1>2, <3>2 DEF SnapInv, CountsIn, TargetsIn
  <2> QED
    BY <1>1, <1>2, <2>1 DEF SnapInv
<1> QED
  BY <1>5, <1>6, <1>10, <1>11

(* A recount of rows among others counts no more than those account for. *)
LEMMA RecountCovered ==
  ASSUME TypeOK, NEW raw \in SUBSET Match, NEW rows \in SUBSET Match, Within(raw, rows),
         CountsIn(rows), NEW new, new = Reconciled(patchVersions, raw), NEW p \in DOMAIN new,
         ~Overtaken(p)
  PROVE  new[p].count <= Cardinality(RowsOf(rows, p))
<1>1. \/ RowsOf(raw, p) = {} /\ p \in DOMAIN patchVersions /\ new[p] = patchVersions[p]
      \/ RowsOf(raw, p) # {} /\ new[p].count = Cardinality(RowsOf(raw, p))
  BY ReconciledRow
<1>2. CASE p \in DOMAIN patchVersions /\ new[p] = patchVersions[p]
  BY <1>2 DEF CountsIn
<1>3. CASE RowsOf(raw, p) # {} /\ new[p].count = Cardinality(RowsOf(raw, p))
  <2>1. p \in Patches
    BY <1>3 DEF RowsOf, Patches
  <2> QED
    BY <1>3, <2>1, MoreRows DEF Within
<1> QED
  BY <1>1, <1>2, <1>3

(* A recount, of rows that have been there since it read them but for those *)
(* of patches overtaken, leaves rows of the same kind.                      *)
LEMMA DRecounted ==
  ASSUME DInv, NEW raw \in SUBSET published, Within(raw, rawMatches),
         NEW new, new = Reconciled(patchVersions, raw)
  PROVE  /\ DOMAIN patchVersions \subseteq DOMAIN new /\ DOMAIN new \subseteq Patches
         /\ RowsPlayed(new) /\ \A p \in DOMAIN new : new[p].earliest <= now
         /\ \A p \in DOMAIN new :
              ~Overtaken(p) => new[p].count <= Cardinality(RowsOf(rawMatches, p))
<1> USE DEF DInv
<1>1. TypeOK /\ raw \in SUBSET Match /\ rawMatches \in SUBSET Match
  BY DEF DevTypeOK, TypeOK
<1>2. DOMAIN patchVersions \subseteq DOMAIN new /\ DOMAIN new \subseteq Patches
  <2>1. DOMAIN new = DOMAIN patchVersions \cup {PatchOf(m) : m \in raw}
    BY DEF Reconciled
  <2> QED
    BY <1>1, <2>1 DEF TypeOK, Patches
<1>3. ASSUME NEW p \in DOMAIN new
      PROVE  \/ /\ RowsOf(raw, p) = {} /\ p \in DOMAIN patchVersions /\ new[p] = patchVersions[p]
             \/ /\ RowsOf(raw, p) # {} /\ new[p].count = Cardinality(RowsOf(raw, p))
                /\ \/ p \in DOMAIN patchVersions /\ new[p].earliest = patchVersions[p].earliest
                   \/ \E m \in RowsOf(raw, p) : new[p].earliest = GameTime[m]
  BY <1>1, <1>3, ReconciledRow
<1>4. ASSUME NEW p \in DOMAIN new
      PROVE  /\ \E m \in Match : PatchOf(m) = p /\ new[p].earliest = GameTime[m]
             /\ new[p].earliest <= now
  <2>1. CASE p \in DOMAIN patchVersions /\ new[p].earliest = patchVersions[p].earliest
    BY <2>1 DEF PlayedInv, RowsPlayed
  <2>2. CASE \E m \in RowsOf(raw, p) : new[p].earliest = GameTime[m]
    BY <1>1, <2>2 DEF PlayedInv, RowsOf
  <2> QED
    BY <1>3, <2>1, <2>2
<1>5. \A p \in DOMAIN new : ~Overtaken(p) => new[p].count <= Cardinality(RowsOf(rawMatches, p))
  BY <1>1, RecountCovered DEF KeptInv
<1> QED
  BY <1>2, <1>4, <1>5 DEF RowsPlayed

LEMMA DRecount ==
  ASSUME DInv, DevTypeOK', SnapInv', UNCHANGED <<now, published, rawMatches, targets>>,
         NEW raw \in SUBSET published, Within(raw, rawMatches),
         patchVersions' = Reconciled(patchVersions, raw),
         devRows' \in {devRows, {}}, crawlRows' \in {crawlRows, {}},
         targetPatch' \in {targetPatch, NoPatch},
         \A p \in toPrune' : p \in toPrune \/ (targetPatch # NoPatch /\ PatchLt(p, targetPatch))
  PROVE  DInv'
<1> USE DEF DInv
<1> DEFINE new == patchVersions'
<1>1. /\ DOMAIN patchVersions \subseteq DOMAIN new
      /\ RowsPlayed(new) /\ \A p \in DOMAIN new : new[p].earliest <= now
      /\ \A p \in DOMAIN new :
           ~Overtaken(p) => new[p].count <= Cardinality(RowsOf(rawMatches, p))
  BY DRecounted
<1>2. \A p : Overtaken(p)' <=> Overtaken(p)
  BY DEF Overtaken
<1>3. PlayedInv'
  BY <1>1 DEF PlayedInv
<1>4. TargetsInv'
  BY <1>1, <1>2 DEF TargetsInv, Overtaken
<1>5. \A p \in Patches : ~Overtaken(p) => RowsOf(devRows', p) \subseteq RowsOf(rawMatches, p)
  BY DEF KeptInv, Within, RowsOf
<1>6. KeptInv'
  BY <1>1, <1>2, <1>5 DEF KeptInv, CountsIn, TargetsIn, Within
<1> QED
  BY <1>3, <1>4, <1>6

LEMMA DPrune ==
  ASSUME DInv, DevTypeOK', NEW p \in toPrune, PrunePatch(p), CrawlerGoesOn
  PROVE  DInv'
<1> USE DEF DInv
<1>1. /\ UNCHANGED <<now, published, patchVersions, targetPatch, targets>>
      /\ UNCHANGED <<crawlPc, crawlRows, late, lastRead, devRows, devPc>>
      /\ toPrune' \subseteq toPrune
      /\ rawMatches' = rawMatches \ RowsOf(rawMatches, p)
  BY DEF PrunePatch, CrawlerGoesOn, world, hist, dev
<1>2. \A q : Overtaken(q)' <=> Overtaken(q)
  BY <1>1 DEF Overtaken
<1>3. \A q : ~Overtaken(q) => RowsOf(rawMatches', q) = RowsOf(rawMatches, q)
  <2>1. Overtaken(p)
    BY DEF TargetsInv
  <2>2. \A q : q # p => RowsOf(rawMatches', q) = RowsOf(rawMatches, q)
    BY <1>1 DEF RowsOf
  <2> QED
    BY <2>1, <2>2
<1>4. PlayedInv' /\ TargetsInv'
  BY <1>1, <1>2 DEF PlayedInv, TargetsInv
<1>5. crawlRows = {}
  BY DEF DevTypeOK, PrunePatch
<1>6. KeptInv'
  BY <1>1, <1>2, <1>3, <1>5 DEF KeptInv, CountsIn, TargetsIn, Within
<1>7. SnapInv'
  BY <1>1, SnapKept
<1> QED
  BY <1>4, <1>6, <1>7

LEMMA DOther ==
  ASSUME DInv, DevTypeOK', Other, CrawlerGoesOn
  PROVE  DInv'
<1>1. TypeOK /\ TypeOK' /\ \A m \in published : GameTime[m] <= now
  BY DEF DInv, DevTypeOK, PlayedInv
<1>2. /\ UNCHANGED <<devRows, devPc, lastRead>> /\ ("dev" \in late' <=> "dev" \in late)
      /\ \/ UNCHANGED <<crawlPc, crawlRows, late>>
         \/ crawlPc' = "run" /\ crawlRows' = {}
  BY DEF CrawlerGoesOn, CountOver, dev
<1>3. /\ UNCHANGED <<patchVersions, targets>>
      /\ published \subseteq published' /\ now <= now'
      /\ \A m \in published' : GameTime[m] <= now'
      /\ rawMatches \subseteq rawMatches'
      /\ \/ targetPatch' = targetPatch /\ toPrune' \subseteq toPrune
         \/ targetPatch' = NoPatch /\ toPrune' = {}
  BY <1>1, OtherKeeps
<1>4. SnapInv'
  BY <1>2, <1>3, SnapKept
<1> QED
  BY <1>2, <1>3, <1>4, DKept

(* The crawler's recount reads what is there ... *)
LEMMA DCounts ==
  ASSUME DInv, DevTypeOK', CrawlerCounts
  PROVE  DInv'
<1> USE DEF DInv
<1>1. /\ UNCHANGED <<now, published, rawMatches, patchVersions, targets, targetPatch, toPrune>>
      /\ UNCHANGED <<devRows, devPc, late>>
      /\ crawlRows' = rawMatches /\ lastRead' = "crawler"
  BY DEF CrawlerCounts, vars, dev
<1>2. \A p : Overtaken(p)' <=> Overtaken(p)
  BY <1>1 DEF Overtaken
<1>3. SnapInv'
  BY <1>1, <1>2 DEF SnapInv, KeptInv, CountsIn, TargetsIn, Within
<1>4. /\ \A m \in published' : GameTime[m] <= now' /\ now <= now'
  BY <1>1 DEF PlayedInv, DevTypeOK, TypeOK
<1>5. now <= now'
  BY <1>1 DEF DevTypeOK, TypeOK
<1> QED
  BY <1>1, <1>3, <1>4, <1>5, DKept

(* ... and writes it.  The other's, if it read later, has read all of that. *)
LEMMA DWrites ==
  ASSUME DInv, DevTypeOK', CrawlerWrites
  PROVE  DInv'
<1> USE DEF DInv
<1>1. /\ UNCHANGED <<now, published, rawMatches, targets, devRows, devPc, lastRead>>
      /\ patchVersions' = Reconciled(patchVersions, crawlRows)
      /\ crawlPc = "write" /\ crawlPc' = "run" /\ crawlRows' = {}
  BY DEF CrawlerWrites, CountOver, Recount, world, hist, dev
<1>2. /\ TypeOK /\ crawlRows \in SUBSET published /\ crawlRows \in SUBSET Match
      /\ devRows \in SUBSET Match
  BY DEF DevTypeOK, TypeOK
<1>3. Within(crawlRows, rawMatches)
  BY DEF KeptInv, Within, RowsOf
<1>4. targetPatch' \in {targetPatch, NoPatch}
  BY DEF CrawlerWrites, Recount, EndRun
<1>5. \A p \in toPrune' : targetPatch # NoPatch /\ PatchLt(p, targetPatch)
  BY DEF CrawlerWrites, Recount, EndRun, OlderPatches
<1>6. SnapInv'
  <2>1. \A p : Overtaken(p)' <=> Overtaken(p)
    BY <1>1 DEF Overtaken
  <2>2. CASE devPc = "write" /\ "dev" \notin late'
    <3>1. lastRead = "dev" /\ "dev" \notin late
      BY <2>2 DEF CrawlerWrites, DevTypeOK
    <3>2. CountsIn(devRows) /\ TargetsIn(devRows) /\ Within(crawlRows, devRows)
      BY <1>1, <2>2, <3>1 DEF SnapInv, Within, RowsOf
    <3>3. \A p \in DOMAIN patchVersions' :
            ~Overtaken(p) => patchVersions'[p].count <= Cardinality(RowsOf(devRows, p))
      BY <1>1, <1>2, <3>2, RecountCovered
    <3> QED
      BY <1>1, <2>1, <3>2, <3>3 DEF SnapInv, CountsIn, TargetsIn
  <2> QED
    BY <1>1, <2>2 DEF SnapInv
<1> QED
  BY <1>1, <1>2, <1>3, <1>4, <1>5, <1>6, DRecount

LEMMA DDev ==
  ASSUME DInv, DevTypeOK', DevStep
  PROVE  DInv'
<1> USE DEF DInv
<1>1. /\ DevEffect
      /\ UNCHANGED <<now, published, targets, targetPatch, toPrune, crawlPc, crawlRows>>
  BY DevStepEffect DEF DevEffect, run, hist
<1>2. \A p : Overtaken(p)' <=> Overtaken(p)
  BY <1>1 DEF Overtaken
<1>3. \A m \in published' : GameTime[m] <= now'
  BY <1>1 DEF PlayedInv
<1>4. now <= now' /\ rawMatches \subseteq rawMatches'
  BY <1>1 DEF DevEffect, DevTypeOK, TypeOK
<1>5. CASE DevQuiet
  <2>1. SnapInv'
    BY <1>1, <1>5, SnapKept DEF DevQuiet
  <2> QED
    BY <1>1, <1>3, <1>4, <1>5, <2>1, DKept DEF DevQuiet
<1>6. CASE DevReads
  <2>1. SnapInv'
    BY <1>1, <1>2, <1>6 DEF SnapInv, KeptInv, CountsIn, TargetsIn, Within, DevReads
  <2> QED
    BY <1>1, <1>3, <1>4, <1>6, <2>1, DKept DEF DevReads
<1>7. CASE DevStops
  <2>1. SnapInv'
    BY <1>1, <1>7, SnapKept DEF DevStops
  <2> QED
    BY <1>1, <1>3, <1>4, <1>7, <2>1, DKept DEF DevStops
<1>8. CASE DevRecounts
  <2>1. /\ TypeOK /\ devRows \in SUBSET published /\ devRows \in SUBSET Match
        /\ crawlRows \in SUBSET Match
    BY DEF DevTypeOK, TypeOK
  <2>2. SnapInv'
    <3>1. CASE crawlPc = "write" /\ "crawler" \notin late'
      <4>1. lastRead = "crawler" /\ "crawler" \notin late
        BY <1>8, <3>1 DEF DevRecounts, DevTypeOK
      <4>2. CountsIn(crawlRows) /\ TargetsIn(crawlRows) /\ Within(devRows, crawlRows)
        BY <1>8, <3>1, <4>1 DEF SnapInv, DevRecounts
      <4>3. \A p \in DOMAIN patchVersions' :
              ~Overtaken(p) => patchVersions'[p].count <= Cardinality(RowsOf(crawlRows, p))
        BY <1>8, <2>1, <4>2, RecountCovered DEF DevRecounts
      <4> QED
        BY <1>1, <1>2, <1>8, <4>2, <4>3 DEF SnapInv, CountsIn, TargetsIn, DevRecounts
    <3> QED
      BY <1>1, <1>2, <1>8, <3>1 DEF SnapInv, TargetsIn, DevRecounts
  <2>3. Within(devRows, rawMatches)
    BY DEF KeptInv
  <2> QED
    BY <1>1, <1>8, <2>1, <2>2, <2>3, DRecount DEF DevRecounts
<1> QED
  BY <1>1, <1>5, <1>6, <1>7, <1>8 DEF DevEffect

LEMMA DStep == DInv /\ [DevNext]_allVars => DInv'
<1> SUFFICES ASSUME DInv, [DevNext]_allVars PROVE DInv'
  OBVIOUS
<1>1. DevTypeOK'
  BY DevTypeStep DEF DInv
<1>2. CASE CrawlerGoesOn
  <2>1. StartRun \/ (\E p \in toPrune : PrunePatch(p)) \/ Other
    BY <1>2 DEF CrawlerGoesOn, RunStep, WorldStep, Other
  <2> QED
    BY <1>1, <1>2, <2>1, DStart, DPrune, DOther
<1>3. CASE UNCHANGED allVars
  <2>1. /\ UNCHANGED <<now, published, rawMatches, patchVersions, targets, targetPatch, toPrune>>
        /\ UNCHANGED <<devRows, devPc, crawlRows, crawlPc, lastRead, late>>
    BY <1>3 DEF allVars, vars, dev, order
  <2>2. \A p : Overtaken(p)' <=> Overtaken(p)
    BY <2>1 DEF Overtaken
  <2> QED
    BY <1>1, <2>1, <2>2
    DEF DInv, PlayedInv, TargetsInv, KeptInv, SnapInv, CountsIn, TargetsIn, Within
<1> QED
  BY <1>1, <1>2, <1>3, DCounts, DWrites, DDev DEF DevNext

LEMMA DInitial == DevInit => DInv
<1> SUFFICES ASSUME DevInit PROVE DInv
  OBVIOUS
<1>1. DevTypeOK
  BY DevTypeInit
<1>2. DOMAIN patchVersions = {}
  BY DEF DevInit, Init
<1>3. /\ devRows = {} /\ targets = {} /\ toPrune = {} /\ targetPatch = NoPatch
      /\ published = {} /\ crawlRows = {} /\ crawlPc = "run" /\ devPc = "idle"
  BY DEF DevInit, Init, DevIdle
<1> QED
  BY <1>1, <1>2, <1>3
  DEF DInv, PlayedInv, RowsPlayed, TargetsInv, KeptInv, SnapInv, CountsIn, TargetsIn, Within, RowsOf

----------------------------------------------------------------------------
(* What the two writers do to the patch being served *)

(* The newest of the targets takes part in a recount that read its matches: *)
(* what is served after it is no older than any of them.                    *)
LEMMA TargetsServed ==
  ASSUME NewerPlayedLater, DInv, NEW rows \in SUBSET published, Within(rows, rawMatches),
         TargetsIn(rows), NEW new, new = Reconciled(patchVersions, rows),
         NEW t \in targets, NEW u \in CurrentPatchInfo(new)
  PROVE  u # NoPatch /\ ~PatchLt(u, t)
<1> USE DEF DInv
<1>1. TypeOK /\ rows \in SUBSET Match
  BY DEF DevTypeOK, TypeOK
<1>2. /\ DOMAIN patchVersions \subseteq DOMAIN new /\ DOMAIN new \subseteq Patches
      /\ RowsPlayed(new) /\ \A p \in DOMAIN new : new[p].earliest <= now
  BY <1>1, DRecounted
<1>3. \A p \in DOMAIN new : new[p].earliest \in Nat
  BY <1>2, MatchAssumption DEF RowsPlayed
<1>4. targets \subseteq DOMAIN new
  BY <1>2 DEF TargetsInv
<1>5. PICK s \in targets : \A q \in targets : new[q].earliest <= new[s].earliest
  <2> DEFINE starts == [p \in targets |-> [earliest |-> new[p].earliest, count |-> 0]]
  <2>1. \A q \in DOMAIN starts : starts[q].earliest \in Nat
    BY <1>3, <1>4
  <2>2. t \in DOMAIN starts /\ starts[t].count >= 0
    OBVIOUS
  <2>3. \A q \in targets :
          q \in DOMAIN starts /\ starts[q].count >= 0 /\ starts[q].earliest = new[q].earliest
    OBVIOUS
  <2>4. DOMAIN starts = targets
    OBVIOUS
  <2> HIDE DEF starts
  <2>5. Newest(starts, 0) # {}
    BY <1>2, <1>4, <2>1, <2>2, <2>4, NewestExists
  <2> QED
    BY <2>3, <2>4, <2>5 DEF Newest
<1>6. \A q \in targets : ~PatchLt(s, q)
  <2> SUFFICES ASSUME NEW q \in targets, PatchLt(s, q) PROVE FALSE
    OBVIOUS
  <2>1. new[s].earliest < new[q].earliest
    BY <1>2, <1>4, RowsInOrder
  <2> QED
    BY <1>3, <1>4, <1>5, <2>1
<1>7. s \in DOMAIN patchVersions /\ MinPatchMatches <= Cardinality(RowsOf(rows, s))
  BY <1>6 DEF TargetsInv, TargetsIn, Overtaken
<1>8. s \in DOMAIN new /\ new[s].count >= MinPatchMatches
  BY <1>1, <1>7, RowRecounted
<1>9. Newest(new, MinPatchMatches) # {}
  BY <1>2, <1>3, <1>8, NewestExists
<1>10. u # NoPatch
  BY <1>2, <1>9, ServedIs
<1>11. ~PatchLt(u, s) /\ u \in Patches
  BY <1>2, <1>8, <1>10, ServedNewest, ServedIs
<1>12. s \in Patches /\ t \in Patches
  BY <1>2, <1>4
<1> QED
  BY <1>6, <1>10, <1>11, <1>12, PatchOrder

(* If they account for the counts as well, the target does not go back.     *)
LEMMA RecountAscends ==
  ASSUME NewerPlayedLater, DInv, NEW rows \in SUBSET published, Within(rows, rawMatches),
         TargetsIn(rows), CountsIn(rows), NEW new, new = Reconciled(patchVersions, rows),
         NEW t \in CurrentPatchInfo(patchVersions), t # NoPatch, NEW u \in CurrentPatchInfo(new)
  PROVE  u # NoPatch /\ ~PatchLt(u, t)
<1> USE DEF DInv
<1>1. TypeOK /\ rows \in SUBSET Match
  BY DEF DevTypeOK, TypeOK
<1>2. DOMAIN new \subseteq Patches /\ RowsPlayed(new) /\ \A p \in DOMAIN new : new[p].earliest <= now
  BY <1>1, DRecounted
<1>3. /\ t \in DOMAIN patchVersions /\ t \in Patches
      /\ patchVersions[t].count >= MinPatchMatches
  BY <1>1, ServedIs DEF TypeOK
<1>4. CASE Overtaken(t)
  <2>1. PICK s \in targets : PatchLt(t, s)
    BY <1>4 DEF Overtaken
  <2>2. u # NoPatch /\ ~PatchLt(u, s)
    BY TargetsServed
  <2>3. u \in Patches /\ s \in Patches
    BY <1>1, <1>2, <2>2, ServedIs DEF TypeOK
  <2> QED
    BY <1>3, <2>1, <2>2, <2>3, PatchOrder
<1>5. CASE ~Overtaken(t)
  <2>1. patchVersions[t].count <= Cardinality(RowsOf(rows, t))
    BY <1>3, <1>5 DEF CountsIn
  <2>2. patchVersions[t].count \in Nat /\ Cardinality(RowsOf(rows, t)) \in Nat
    BY <1>1, <1>3, RowsFinite DEF TypeOK, PatchRow
  <2>3. MinPatchMatches <= Cardinality(RowsOf(rows, t))
    BY <1>3, <2>1, <2>2, PatchAssumption
  <2>4. t \in DOMAIN new /\ new[t].count >= MinPatchMatches
    BY <1>1, <1>3, <2>3, RowRecounted
  <2>5. \A p \in DOMAIN new : new[p].earliest \in Nat
    BY <1>2, MatchAssumption DEF RowsPlayed
  <2>6. Newest(new, MinPatchMatches) # {}
    BY <1>2, <2>4, <2>5, NewestExists
  <2>7. u # NoPatch
    BY <1>2, <2>6, ServedIs
  <2> QED
    BY <1>2, <2>4, <2>7, ServedNewest
<1> QED
  BY <1>4, <1>5

(* Only the two recounts change patch_versions.                             *)
LEMMA WhoRecounts ==
  ASSUME [DevNext]_allVars, patchVersions' # patchVersions
  PROVE  \/ /\ crawlPc = "write" /\ crawlPc' = "run"
            /\ patchVersions' = Reconciled(patchVersions, crawlRows)
         \/ /\ devPc = "write" /\ devPc' = "idle" /\ pc' = pc
            /\ patchVersions' = Reconciled(patchVersions, devRows)
<1>1. CASE DevStep
  BY <1>1, DevStepEffect DEF DevEffect, DevQuiet, DevReads, DevStops, DevRecounts, run
<1>2. CASE CrawlerWrites
  BY <1>2 DEF CrawlerWrites, CountOver, Recount
<1>3. ~CrawlerCounts /\ ~UNCHANGED allVars
  BY DEF CrawlerCounts, allVars, vars
<1>4. ~CrawlerGoesOn
  BY DEF CrawlerGoesOn, RunStep, WorldStep, StartRun, PrunePatch, world, db, RefreshTier,
         UpsertFails, SelectPlayers, FetchIds, FetchFails, Fetch, HandleMatch, DetailFails,
         InsertFails, MarkCrawled, ReconcileFails, EndPrune, Crash, Tick, Publish
<1> QED
  BY <1>1, <1>2, <1>3, <1>4 DEF DevNext

(* The count of the newest patch is of matches that are there, although a   *)
(* recount may be written after the matches it counted were pruned.         *)
THEOREM CountsBackedBeside == NewerPlayedLater /\ DevSpec => []CurrentCountIsBacked
<1> SUFFICES ASSUME NewerPlayedLater PROVE DevSpec => []CurrentCountIsBacked
  OBVIOUS
<1>1. DInv => CurrentCountIsBacked
  <2> SUFFICES ASSUME DInv, NEW p \in Newest(patchVersions, 0)
               PROVE  patchVersions[p].count <= Cardinality(RowsOf(rawMatches, p))
    BY DEF CurrentCountIsBacked
  <2> USE DEF DInv
  <2>1. /\ p \in DOMAIN patchVersions
        /\ \A q \in DOMAIN patchVersions :
             patchVersions[q].earliest <= patchVersions[p].earliest
    BY DEF Newest, DevTypeOK, TypeOK, PatchRow
  <2>2. ASSUME NEW t \in targets PROVE ~PatchLt(p, t)
    <3>1. t \in DOMAIN patchVersions
      BY DEF TargetsInv
    <3>2. /\ patchVersions[t].earliest \in Nat /\ patchVersions[p].earliest \in Nat
          /\ patchVersions[t].earliest <= patchVersions[p].earliest
      BY <2>1, <3>1 DEF DevTypeOK, TypeOK, PatchRow
    <3> QED
      BY <2>1, <3>1, <3>2, RowsInOrder DEF PlayedInv
  <2> QED
    BY <2>1, <2>2 DEF KeptInv, CountsIn, Overtaken
<1> QED
  BY <1>1, DInitial, DStep, PTL DEF DevSpec

(* Whatever a late recount did to patch_versions, the crawler's next one    *)
(* serves no patch older than one it worked for.                            *)
THEOREM RecountRestores == NewerPlayedLater /\ DevSpec => RecountRestoresTarget
<1> SUFFICES ASSUME NewerPlayedLater PROVE DevSpec => RecountRestoresTarget
  OBVIOUS
<1> DEFINE Restores ==
      pc = "players" /\ pc' \in {"prune", "idle"} /\ patchVersions' # patchVersions
        => \A t \in targets, u \in CurrentPatchInfo(patchVersions)' :
             u # NoPatch /\ ~PatchLt(u, t)
<1>1. DInv /\ [DevNext]_allVars => Restores
  <2> SUFFICES ASSUME DInv, [DevNext]_allVars, pc = "players", pc' \in {"prune", "idle"},
                      patchVersions' # patchVersions,
                      NEW t \in targets, NEW u \in CurrentPatchInfo(patchVersions')
               PROVE  u # NoPatch /\ ~PatchLt(u, t)
    OBVIOUS
  <2>1. crawlPc = "write" /\ patchVersions' = Reconciled(patchVersions, crawlRows)
    BY WhoRecounts
  <2>2. /\ crawlRows \in SUBSET published /\ TargetsIn(crawlRows)
        /\ Within(crawlRows, rawMatches)
    BY <2>1 DEF DInv, DevTypeOK, SnapInv, KeptInv, Within, RowsOf
  <2> QED
    BY <2>1, <2>2, TargetsServed
<1>2. RecountRestoresTarget <=> [][Restores]_vars
  BY DEF RecountRestoresTarget
<1> HIDE DEF Restores
<1> QED
  BY <1>1, <1>2, DInitial, DStep, PTL DEF DevSpec

(* Neither what either of the two stores, nor what the crawler prunes, nor  *)
(* a recount hands the target back to an older patch, unless the recount is *)
(* written over one that read after it: for any patches, thresholds and     *)
(* interleaving, and whatever fails.                                        *)
THEOREM LateRecountsOnly == NewerPlayedLater /\ DevSpec => OnlyLateRecountGoesBack
<1> SUFFICES ASSUME NewerPlayedLater PROVE DevSpec => OnlyLateRecountGoesBack
  OBVIOUS
<1> DEFINE Keeps ==
      (\E t \in CurrentPatchInfo(patchVersions), u \in CurrentPatchInfo(patchVersions)' :
         t # NoPatch /\ (u = NoPatch \/ PatchLt(u, t)))
       => \/ "crawler" \in late /\ crawlPc' = "run"
          \/ "dev" \in late /\ devPc' = "idle"
<1>1. DInv /\ [DevNext]_allVars => Keeps
  <2> SUFFICES ASSUME DInv, [DevNext]_allVars,
                      ~("crawler" \in late /\ crawlPc' = "run"), ~("dev" \in late /\ devPc' = "idle"),
                      NEW t \in CurrentPatchInfo(patchVersions), t # NoPatch,
                      NEW u \in CurrentPatchInfo(patchVersions')
               PROVE  u # NoPatch /\ ~PatchLt(u, t)
    OBVIOUS
  <2> USE DEF DInv
  <2>1. CASE crawlPc = "write" /\ crawlPc' = "run"
             /\ patchVersions' = Reconciled(patchVersions, crawlRows)
    <3>1. /\ crawlRows \in SUBSET published /\ Within(crawlRows, rawMatches)
          /\ TargetsIn(crawlRows) /\ CountsIn(crawlRows)
      BY <2>1 DEF DevTypeOK, SnapInv, KeptInv, Within, RowsOf
    <3> QED
      BY <2>1, <3>1, RecountAscends
  <2>2. CASE devPc = "write" /\ devPc' = "idle"
             /\ patchVersions' = Reconciled(patchVersions, devRows)
    <3>1. /\ devRows \in SUBSET published /\ Within(devRows, rawMatches)
          /\ TargetsIn(devRows) /\ CountsIn(devRows)
      BY <2>2 DEF DevTypeOK, SnapInv, KeptInv
    <3> QED
      BY <2>2, <3>1, RecountAscends
  <2>3. CASE patchVersions' = patchVersions
    <3>1. DOMAIN patchVersions \subseteq Patches /\ RowsPlayed(patchVersions)
      BY DEF DevTypeOK, TypeOK, PlayedInv
    <3>2. u # NoPatch
      BY <2>3, <3>1, ServedIs
    <3>3. t \in DOMAIN patchVersions /\ patchVersions[t].count >= MinPatchMatches
      BY <3>1, ServedIs
    <3> QED
      BY <2>3, <3>1, <3>2, <3>3, ServedNewest
  <2> QED
    BY <2>1, <2>2, <2>3, WhoRecounts
<1>2. OnlyLateRecountGoesBack <=> [][Keeps]_allVars
  BY DEF OnlyLateRecountGoesBack
<1> HIDE DEF Keeps
<1> QED
  BY <1>1, <1>2, DInitial, DStep, PTL DEF DevSpec
=============================================================================
