------------------------------ MODULE Crawler ------------------------------
(***************************************************************************)
(* The incremental crawler (src/bin/crawler.rs) against Postgres and the   *)
(* Riot API: one run reads the patch state, refreshes the ladder, asks for *)
(* each selected player's match ids since that player's last crawl, stores *)
(* the matches it wants, recomputes patch_versions and prunes old patches. *)
(* Runs follow one another for ever, as the scheduler makes them.          *)
(*                                                                         *)
(* A step is one statement or one HTTP call.  Any of them may fail, and    *)
(* the process may be killed between two of them.                          *)
(***************************************************************************)
EXTENDS PatchTracking

CONSTANTS
  Player,           \* the puuids of the game
  Participants,     \* Participants[m]: the players of match m
  Solo,             \* the matches of queue 1100
  CurrentSet,       \* the set the crawler accepts (18)
  Ladder,           \* Ladder[t]: the players the league answer of tier t lists
  Unreachable,      \* players whose ids request always fails
  ManyMatches, SomeMatches,  \* tiers_for_sample's steps (3000, 1500)
  Margin,           \* CRAWL_MARGIN_SECS
  NotBefore,        \* CRAWL_NOT_BEFORE
  PlayersPerCycle,  \* PLAYERS_PER_CYCLE
  IdsCount,         \* ids in one answer, the newest ones (100)
  PublishLag,       \* a match is listed at most this long after it began
  MaxCrawl,         \* longest time from an ids answer to mark_crawled
  MaxTime,          \* bound of the clock
  Faults,           \* the kinds of failure that may happen
  MaxFaults         \* bound of their number

Tiers == {"challenger", "grandmaster", "master"}

FaultKinds == {"patch_state", "league", "upsert", "last_crawled", "match_ids", "existing",
               "detail", "insert", "mark", "reconcile", "prune", "crash"}

Never == -1         \* last_crawled_at IS NULL: sorts first, as NULLS FIRST does
NoPlayer == "none"

ASSUME CrawlerAssumption ==
  /\ IsFiniteSet(Player) /\ NoPlayer \notin Player
  /\ Participants \in [Match -> SUBSET Player]
  /\ Solo \subseteq Match
  /\ Ladder \in [Tiers -> SUBSET Player]
  /\ Unreachable \subseteq Player
  /\ Faults \subseteq FaultKinds

ASSUME NumberAssumption ==
  /\ {CurrentSet, ManyMatches, SomeMatches, Margin, NotBefore, IdsCount,
      PlayersPerCycle, PublishLag, MaxCrawl, MaxTime, MaxFaults} \subseteq Nat

(* What the two-hour margin has to cover (crawler.rs:17).                   *)
ASSUME MarginAssumption == PublishLag + MaxCrawl <= Margin

VARIABLES
  \* the world: the clock and the matches the API lists
  now, published,
  \* the database: raw_matches, patch_versions, tracked_players
  rawMatches, patchVersions, tracked, lastCrawled,
  \* the run in progress, lost when it ends
  pc, targetPatch, patchStart, tiers, queue, cur, fetchedAt, todo, seen, toPrune,
  \* history: targets that runs worked for, the latest start of a first
  \* collection, matches the ids answers were too short for
  targets, horizon, cut,
  faults

world == <<now, published>>
db    == <<rawMatches, patchVersions, tracked, lastCrawled>>
hist  == <<targets, horizon, cut>>
vars  == <<now, published, rawMatches, patchVersions, tracked, lastCrawled,
           pc, targetPatch, patchStart, tiers, queue, cur, fetchedAt, todo, seen,
           toPrune, targets, horizon, cut, faults>>

----------------------------------------------------------------------------
(* Helpers *)

Fault(kind) == kind \in Faults /\ faults < MaxFaults /\ faults' = faults + 1
NoFault == UNCHANGED faults

(* tiers_for_sample *)
TiersForSample(count) ==
  IF count >= ManyMatches THEN {"challenger"}
  ELSE IF count >= SomeMatches THEN {"challenger", "grandmaster"}
  ELSE Tiers

(* Faulty variants: without ORDER BY; over players not in the table.        *)
PlayersToCrawlUnordered ==
  {S \in SUBSET tracked : Cardinality(S) = Min({PlayersPerCycle, Cardinality(tracked)})}
PlayersToCrawlUntracked ==
  {S \in SUBSET Player : Cardinality(S) = Min({PlayersPerCycle, Cardinality(tracked)})}

(* players_to_crawl: the longest-waiting players first, at most PlayersPerCycle. *)
PlayersToCrawl ==
  {S \in SUBSET tracked :
     /\ Cardinality(S) = Min({PlayersPerCycle, Cardinality(tracked)})
     /\ \A p \in S, q \in tracked \ S : lastCrawled[p] <= lastCrawled[q]}

(* Faulty variant: the increment starts where the last crawl ended.         *)
StartTimeNoMargin(last) ==
  LET from == IF last = Never THEN patchStart ELSE last
  IN  IF from < NotBefore THEN NotBefore ELSE from

(* Where the request of a player last crawled at `last` begins. *)
StartTime(last) ==
  LET from == IF last = Never THEN patchStart ELSE last - Margin
  IN  IF from < NotBefore THEN NotBefore ELSE from

(* Faulty variant: the `!=` filter the comment at crawler.rs:243 tells of.   *)
IsWantedOnlyTarget(m) ==
  /\ SetNumber[m] = CurrentSet
  /\ m \in Solo
  /\ targetPatch # NoPatch => PatchOf(m) = targetPatch

(* The filters of crawl_player after the detail arrives. *)
IsWanted(m) ==
  /\ SetNumber[m] = CurrentSet
  /\ m \in Solo
  /\ targetPatch # NoPatch => ~PatchLt(PatchOf(m), targetPatch)

(* The process exits: nothing of it survives. *)
EndRun ==
  /\ pc' = "idle" /\ targetPatch' = NoPatch /\ patchStart' = NotBefore
  /\ tiers' = {} /\ queue' = {} /\ cur' = NoPlayer /\ fetchedAt' = 0
  /\ todo' = {} /\ seen' = {} /\ toPrune' = {}

Init ==
  /\ now = 0 /\ published = {}
  /\ rawMatches = {} /\ patchVersions = [p \in {} |-> 0]
  /\ tracked = {} /\ lastCrawled = [p \in Player |-> Never]
  /\ pc = "idle" /\ targetPatch = NoPatch /\ patchStart = NotBefore
  /\ tiers = {} /\ queue = {} /\ cur = NoPlayer /\ fetchedAt = 0
  /\ todo = {} /\ seen = {} /\ toPrune = {}
  /\ targets = {} /\ horizon = NotBefore /\ cut = {}
  /\ faults = 0

----------------------------------------------------------------------------
(* The world *)

(* A match appears in its players' id lists some time after it began. *)
Publish(m) ==
  /\ m \notin published /\ GameTime[m] <= now
  /\ published' = published \cup {m}
  /\ UNCHANGED <<now, db, pc, targetPatch, patchStart, tiers, queue, cur, fetchedAt,
                 todo, seen, toPrune, hist, faults>>

Tick ==
  /\ now < MaxTime
  /\ \A m \in Match \ published : now < GameTime[m] + PublishLag
  /\ pc = "crawl" => now < fetchedAt + MaxCrawl
  /\ now' = now + 1
  /\ UNCHANGED <<published, db, pc, targetPatch, patchStart, tiers, queue, cur,
                 fetchedAt, todo, seen, toPrune, hist, faults>>

----------------------------------------------------------------------------
(* One run of the crawler *)

(***************************************************************************)
(* The patch state is read once, at the start, with three queries; an      *)
(* answer that fails is taken for "nothing known".                         *)
(***************************************************************************)
StartRun ==
  /\ pc = "idle"
  /\ \E lost \in SUBSET {"count", "start", "target"} :
       /\ IF lost = {} THEN NoFault ELSE Fault("patch_state")
       /\ \E count \in IF "count" \in lost THEN {0} ELSE CurrentPatchMatchCount(patchVersions) :
            tiers' = TiersForSample(count)
       /\ patchStart' \in IF "start" \in lost THEN {NotBefore}
                          ELSE CurrentPatchStartTime(patchVersions, NotBefore)
       /\ targetPatch' \in IF "target" \in lost THEN {NoPatch}
                           ELSE CurrentPatchInfo(patchVersions)
  /\ targets' = IF targetPatch' = NoPatch THEN targets ELSE targets \cup {targetPatch'}
  /\ pc' = "refresh"
  /\ UNCHANGED <<world, db, queue, cur, fetchedAt, todo, seen, toPrune, horizon, cut>>

(* refresh_top_players, one tier: a league answer that fails is skipped. *)
RefreshTier(t) ==
  /\ pc = "refresh" /\ t \in tiers
  /\ tiers' = tiers \ {t}
  /\ \/ NoFault /\ tracked' = tracked \cup Ladder[t]
     \/ Fault("league") /\ UNCHANGED tracked
  /\ UNCHANGED <<world, rawMatches, patchVersions, lastCrawled, pc, targetPatch, patchStart,
                 queue, cur, fetchedAt, todo, seen, toPrune, hist>>

(* An upsert that fails ends the run with some of the tier written. *)
UpsertFails(t) ==
  /\ pc = "refresh" /\ t \in tiers
  /\ Fault("upsert")
  /\ \E S \in SUBSET Ladder[t] : tracked' = tracked \cup S
  /\ EndRun
  /\ UNCHANGED <<world, rawMatches, patchVersions, lastCrawled, hist>>

SelectPlayers ==
  /\ pc = "refresh" /\ tiers = {}
  /\ queue' \in PlayersToCrawl
  /\ pc' = "players"
  /\ UNCHANGED <<world, db, targetPatch, patchStart, tiers, cur, fetchedAt, todo, seen,
                 toPrune, hist, faults>>

(* The queue keeps the order of the selection. *)
IsNext(p) == p \in queue /\ \A q \in queue : lastCrawled[p] <= lastCrawled[q]

(***************************************************************************)
(* crawl_player up to its first detail request, for a player taken to have *)
(* been crawled at `last`, with `stored` the ids found in raw_matches.     *)
(* The answer lists the newest IdsCount matches since the start time.      *)
(***************************************************************************)
Fetch(p, last, stored) ==
  /\ pc = "players" /\ IsNext(p)
  /\ p \notin Unreachable
  /\ LET avail == {m \in published : p \in Participants[m] /\ GameTime[m] >= StartTime(last)}
     IN  \E ids \in SUBSET avail :
           /\ Cardinality(ids) = Min({IdsCount, Cardinality(avail)})
           /\ \A m \in ids, n \in avail \ ids : GameTime[m] >= GameTime[n]
           /\ todo' = {m \in ids : m \notin stored /\ m \notin seen}
           /\ cut' = cut \cup (avail \ ids)
  /\ horizon' = IF last = Never /\ horizon < StartTime(last) THEN StartTime(last) ELSE horizon
  /\ queue' = queue \ {p} /\ cur' = p /\ fetchedAt' = now
  /\ pc' = "crawl"
  /\ UNCHANGED <<world, db, targetPatch, patchStart, tiers, seen, toPrune, targets>>

FetchIds(p) ==
  \/ NoFault /\ Fetch(p, lastCrawled[p], rawMatches)
  \/ Fault("last_crawled") /\ Fetch(p, Never, rawMatches)
  \/ Fault("existing") /\ Fetch(p, lastCrawled[p], {})

(* The player is left for a later run. *)
FetchFails(p) ==
  /\ pc = "players" /\ IsNext(p)
  /\ IF p \in Unreachable THEN NoFault ELSE Fault("match_ids")
  /\ queue' = queue \ {p}
  /\ UNCHANGED <<world, db, pc, targetPatch, patchStart, tiers, cur, fetchedAt, todo, seen,
                 toPrune, hist>>

(* match_detail, the filters and insert_raw_match: `seen` grows first, *)
(* whatever becomes of the match.                                      *)
TakeMatch(m) ==
  /\ pc = "crawl" /\ m \in todo
  /\ seen' = seen \cup {m}

HandleMatch(m) ==
  /\ TakeMatch(m)
  /\ rawMatches' = IF IsWanted(m) THEN rawMatches \cup {m} ELSE rawMatches
  /\ todo' = todo \ {m}
  /\ UNCHANGED <<world, patchVersions, tracked, lastCrawled, pc, targetPatch, patchStart,
                 tiers, queue, cur, fetchedAt, toPrune, hist, faults>>

(* A detail that fails is passed over and the player goes on. *)
DetailFails(m) ==
  /\ TakeMatch(m)
  /\ Fault("detail")
  /\ todo' = todo \ {m}
  /\ UNCHANGED <<world, db, pc, targetPatch, patchStart, tiers, queue, cur, fetchedAt,
                 toPrune, hist>>

(* An insert that fails gives the player up, unmarked. *)
InsertFails(m) ==
  /\ TakeMatch(m)
  /\ IsWanted(m)
  /\ Fault("insert")
  /\ todo' = {} /\ cur' = NoPlayer /\ fetchedAt' = 0
  /\ pc' = "players"
  /\ UNCHANGED <<world, db, targetPatch, patchStart, tiers, queue, toPrune, hist>>

(* mark_crawled: now(), taken after the last match of the player. *)
MarkCrawled ==
  /\ pc = "crawl" /\ todo = {}
  /\ \/ NoFault /\ lastCrawled' = [lastCrawled EXCEPT ![cur] = now]
     \/ Fault("mark") /\ UNCHANGED lastCrawled
  /\ pc' = "players" /\ cur' = NoPlayer /\ fetchedAt' = 0
  /\ UNCHANGED <<world, rawMatches, patchVersions, tracked, targetPatch, patchStart, tiers,
                 queue, todo, seen, toPrune, hist>>

(* reconcile_patch_versions from the rows its statement has read, and the   *)
(* SELECT DISTINCT of prune_old_patches.                                    *)
Recount(rows) ==
  /\ pc = "players" /\ queue = {}
  /\ NoFault
  /\ patchVersions' = Reconciled(patchVersions, rows)
  /\ IF targetPatch # NoPatch
     THEN /\ pc' = "prune"
          /\ toPrune' = OlderPatches(rawMatches, targetPatch)
          /\ UNCHANGED <<targetPatch, patchStart, tiers, queue, cur, fetchedAt, todo, seen>>
     ELSE EndRun
  /\ UNCHANGED <<world, rawMatches, tracked, lastCrawled, hist>>

(* With no other writer the rows are those that are still there. *)
Reconcile == Recount(rawMatches)

ReconcileFails ==
  /\ pc = "players" /\ queue = {}
  /\ Fault("reconcile")
  /\ EndRun
  /\ UNCHANGED <<world, db, hist>>

(* prune_old_patches: one DELETE per patch older than the target. *)
PrunePatch(p) ==
  /\ pc = "prune" /\ p \in toPrune
  /\ rawMatches' = rawMatches \ RowsOf(rawMatches, p)
  /\ toPrune' = toPrune \ {p}
  /\ UNCHANGED <<world, patchVersions, tracked, lastCrawled, pc, targetPatch, patchStart,
                 tiers, queue, cur, fetchedAt, todo, seen, hist, faults>>

(* A DELETE that fails stops the pruning; either way the run is over. *)
EndPrune ==
  /\ pc = "prune"
  /\ IF toPrune = {} THEN NoFault ELSE Fault("prune")
  /\ EndRun
  /\ UNCHANGED <<world, db, hist>>

Crash ==
  /\ pc # "idle"
  /\ Fault("crash")
  /\ EndRun
  /\ UNCHANGED <<world, db, hist>>

----------------------------------------------------------------------------
RunStep ==
  \/ StartRun
  \/ \E t \in Tiers : RefreshTier(t) \/ UpsertFails(t)
  \/ SelectPlayers
  \/ \E p \in Player : FetchIds(p) \/ FetchFails(p)
  \/ \E m \in Match : HandleMatch(m) \/ DetailFails(m) \/ InsertFails(m)
  \/ MarkCrawled
  \/ ReconcileFails
  \/ \E p \in toPrune : PrunePatch(p)
  \/ EndPrune
  \/ Crash

CrawlerStep == RunStep \/ Reconcile

WorldStep == Tick \/ \E m \in Match : Publish(m)

Next == CrawlerStep \/ WorldStep

Spec == Init /\ [][Next]_vars

(* The scheduler starts one run after another, and a process that is not    *)
(* killed goes on; time passes and matches that were played get listed.     *)
FairSpec == Spec /\ WF_vars(CrawlerStep) /\ WF_vars(WorldStep)

----------------------------------------------------------------------------
(* Properties *)

TypeOK ==
  /\ now \in Nat /\ published \subseteq Match
  /\ rawMatches \subseteq published
  /\ DOMAIN patchVersions \subseteq Patches
  /\ \A p \in DOMAIN patchVersions : patchVersions[p] \in PatchRow
  /\ tracked \subseteq Player
  /\ lastCrawled \in [Player -> Nat \cup {Never}]
  /\ pc \in {"idle", "refresh", "players", "crawl", "prune"}
  /\ targetPatch \in Patches \cup {NoPatch} /\ patchStart \in Int
  /\ tiers \subseteq Tiers /\ queue \subseteq tracked
  /\ cur \in Player \cup {NoPlayer} /\ fetchedAt \in Nat
  /\ todo \subseteq published /\ seen \subseteq published /\ toPrune \subseteq Patches
  /\ targets \subseteq Patches /\ horizon \in Int /\ cut \subseteq published
  /\ faults \in Nat

(* What the crawler's policy is to keep: solo-queue matches of the current *)
(* set, from NotBefore and from the start of the first collections on, of  *)
(* no patch older than a target, that an ids answer had room for.          *)
InPolicy(m) ==
  /\ SetNumber[m] = CurrentSet /\ m \in Solo
  /\ GameTime[m] >= NotBefore /\ GameTime[m] >= horizon
  /\ \A t \in targets : ~PatchLt(PatchOf(m), t)
  /\ m \notin cut

(* No later request of player p reaches back to match m. *)
Passed(p, m) == lastCrawled[p] # Never /\ GameTime[m] < lastCrawled[p] - Margin

(* crawler.rs:113-115: last_crawled_at advances only past what was         *)
(* collected.  A match the policy wants is never lost for good: once a     *)
(* participant has been crawled past it, it is stored, or another tracked  *)
(* participant has yet to be crawled past it.                              *)
IsLost(m) ==
  /\ InPolicy(m) /\ m \notin rawMatches
  /\ \E p \in tracked \cap Participants[m] : Passed(p, m)
  /\ \A p \in tracked \cap Participants[m] : Passed(p, m)

NoMatchLost == \A m \in Match : ~IsLost(m)

(* The patch the pipeline serves only ever moves to a newer one, whatever  *)
(* is stored, recounted or pruned (given that newer patches are played     *)
(* later): a count that fell below the threshold would hand the target     *)
(* back to a patch whose matches are gone.                                 *)
TargetNeverGoesBack ==
  [][\A t \in CurrentPatchInfo(patchVersions), u \in CurrentPatchInfo(patchVersions)' :
       t # NoPatch => u # NoPatch /\ ~PatchLt(u, t)]_vars

(* The crawler implements module MatchStore: though pruning works from a    *)
(* target read at the start of the run (crawler.rs:74, 127-137), it only    *)
(* ever removes matches of patches older than the one patch_versions names  *)
(* now, and nothing else disturbs what downstream programs rely on.         *)
Store == INSTANCE MatchStore WITH rawMatches <- rawMatches, patchVersions <- patchVersions
ImplementsMatchStore == Store!Spec

(* The count that decides the tiers and the regeneration of the quizzes is *)
(* of matches that are there, though counts of pruned patches go stale.    *)
CurrentCountIsBacked ==
  \A p \in Newest(patchVersions, 0) :
    patchVersions[p].count <= Cardinality(RowsOf(rawMatches, p))

(* The last patch that enough matches were played in. *)
IsLatestPatch(p) ==
  LET wanted == {m \in Match : SetNumber[m] = CurrentSet /\ m \in Solo /\ GameTime[m] >= NotBefore}
  IN  /\ p = PatchOf(CHOOSE m \in wanted : \A n \in wanted : GameTime[n] <= GameTime[m])
      /\ Cardinality(RowsOf(wanted, p)) > MinPatchMatches

(* crawler.rs:242-246: a new patch is collected beside the target and takes *)
(* over by itself ("unattended transition").                                *)
NewPatchAdopted ==
  \A p \in Patches : IsLatestPatch(p) => <>[](CurrentPatchInfo(patchVersions) = {p})

(* players_to_crawl: nobody reachable waits for ever, not even behind       *)
(* players whose requests always fail and who therefore stay at the front   *)
(* of the queue (fewer of them than a cycle has room for).                  *)
EveryPlayerCrawled ==
  \A p \in Player \ Unreachable : p \in tracked ~> lastCrawled[p] # Never

(* Every listed match of a reachable tracked player is eventually stored,   *)
(* left out by policy, or behind all of them: none stays pending.           *)
EveryMatchDecided ==
  \A m \in Match, p \in Player \ Unreachable :
    (m \in published /\ p \in tracked \cap Participants[m])
      ~> (m \in rawMatches \/ ~InPolicy(m) \/ Passed(p, m))
=============================================================================
