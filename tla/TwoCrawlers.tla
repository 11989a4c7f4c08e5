----------------------------- MODULE TwoCrawlers -----------------------------
(***************************************************************************)
(* crawler_dev (src/bin/crawler_dev.rs), started by hand beside the        *)
(* incremental crawler of module Crawler.  It fills the same tables by     *)
(* other rules: players straight from the ladder, matches since the start  *)
(* of the patch, of any set and queue but of the target patch only, which  *)
(* it reads anew for every player, and up to a total.                      *)
(*                                                                         *)
(* The recount of patch_versions is one statement, the same in both        *)
(* programs, but it reads raw_matches first and writes the rows some time  *)
(* later.  Beside the other program these are two steps of each of them,   *)
(* and either may write what it read before the other's recount was        *)
(* written.                                                                *)
(***************************************************************************)
EXTENDS Crawler

CONSTANTS
  PlayersPerTier,   \* MAX_PLAYERS_PER_TIER (500)
  TargetMatches,    \* TARGET_MATCHES (3000)
  MaxDevRuns        \* bound of the hand-started runs

ASSUME DevAssumption == {PlayersPerTier, TargetMatches, MaxDevRuns} \subseteq Nat

VARIABLES
  devPc, devTiers, devQueue, devStart, devTarget, devTodo, devSeen, devTotal,
  devRows,          \* the rows its recount has read
  devRuns,
  crawlPc,          \* "write" while the crawler's recount is under way,
  crawlRows,        \* from these rows
  \* history: whose recount read last, and which of those under way read before
  \* a recount that has been written since
  lastRead, late

dev == <<devPc, devTiers, devQueue, devStart, devTarget, devTodo, devSeen, devTotal,
         devRows, devRuns>>
order == <<lastRead, late>>
allVars == <<vars, dev, crawlPc, crawlRows, order>>

(* What the crawler keeps to itself. *)
run == <<pc, targetPatch, patchStart, tiers, queue, cur, fetchedAt, todo, seen, toPrune,
         crawlPc, crawlRows>>

Anywhere == -1      \* no startTime in the request

DevIdle ==
  /\ devPc = "idle" /\ devTiers = {} /\ devQueue = {} /\ devStart = Anywhere
  /\ devTarget = NoPatch /\ devTodo = {} /\ devSeen = {} /\ devTotal = 0 /\ devRows = {}

(* The process exits, at its end or before. *)
DevEnds ==
  /\ devPc' = "idle" /\ devTiers' = {} /\ devQueue' = {} /\ devStart' = Anywhere
  /\ devTarget' = NoPatch /\ devTodo' = {} /\ devSeen' = {} /\ devTotal' = 0 /\ devRows' = {}

DevInit ==
  /\ Init /\ crawlPc = "run" /\ crawlRows = {}
  /\ DevIdle /\ devRuns = 0
  /\ lastRead = "crawler" /\ late = {}

----------------------------------------------------------------------------
(* An answer that fails is taken for no matches. *)
DevStarts ==
  /\ devPc = "idle" /\ devRuns < MaxDevRuns
  /\ devRuns' = devRuns + 1
  /\ \/ NoFault /\ \E count \in CurrentPatchMatchCount(patchVersions) : devTiers' = TiersForSample(count)
     \/ Fault("patch_state") /\ devTiers' = TiersForSample(0)
  /\ devPc' = "leagues"
  /\ UNCHANGED <<world, db, run, hist, order, devQueue, devStart, devTarget, devTodo, devSeen,
                 devTotal, devRows>>

(* Faulty variant: the inner loop does not ask again.                       *)
BelowTotalBetween == devPc = "match" \/ devTotal < TargetMatches

(* TARGET_MATCHES ends the loop over players and the one over their matches. *)
BelowTotal == devTotal < TargetMatches

(* One tier of the ladder: its first players that no tier before had. *)
DevTier(t) ==
  /\ devPc = "leagues" /\ t \in devTiers
  /\ devTiers' = devTiers \ {t}
  /\ LET new == Ladder[t] \ devQueue
     IN  \/ /\ NoFault
            /\ \E S \in SUBSET new : /\ Cardinality(S) = Min({PlayersPerTier, Cardinality(new)})
                                     /\ devQueue' = devQueue \cup S
         \/ Fault("league") /\ UNCHANGED devQueue
  /\ UNCHANGED <<world, db, run, hist, order, devPc, devStart, devTarget, devTodo, devSeen, devTotal,
                 devRows, devRuns>>

(* The start of the patch is asked for once, after the ladder. *)
DevPlayers ==
  /\ devPc = "leagues" /\ devTiers = {}
  /\ \/ NoFault /\ devStart' \in CurrentPatchStartTime(patchVersions, Anywhere)
     \/ Fault("patch_state") /\ devStart' = Anywhere
  /\ devPc' = "players"
  /\ UNCHANGED <<world, db, run, hist, order, devTiers, devQueue, devTarget, devTodo, devSeen,
                 devTotal, devRows, devRuns>>

(* The ids of a player, those already stored, and the target patch. *)
DevFetch(p) ==
  /\ devPc = "players" /\ p \in devQueue /\ BelowTotal
  /\ p \notin Unreachable
  /\ devQueue' = devQueue \ {p}
  /\ LET avail == {m \in published : p \in Participants[m] /\ GameTime[m] >= devStart}
     IN  \E ids \in SUBSET avail, lost \in SUBSET {"existing", "patch_state"} :
           /\ Cardinality(ids) = Min({IdsCount, Cardinality(avail)})
           /\ \A m \in ids, n \in avail \ ids : GameTime[m] >= GameTime[n]
           /\ CASE lost = {} -> NoFault [] OTHER -> \E kind \in lost : Fault(kind)
           /\ devTodo' = {m \in ids : (m \in rawMatches => "existing" \in lost) /\ m \notin devSeen}
           /\ devTarget' \in IF "patch_state" \in lost THEN {NoPatch}
                             ELSE CurrentPatchInfo(patchVersions)
  /\ devPc' = "match"
  /\ UNCHANGED <<world, db, run, hist, order, devTiers, devStart, devSeen, devTotal, devRows, devRuns>>

DevFetchFails(p) ==
  /\ devPc = "players" /\ p \in devQueue /\ BelowTotal
  /\ IF p \in Unreachable THEN NoFault ELSE Fault("match_ids")
  /\ devQueue' = devQueue \ {p}
  /\ UNCHANGED <<world, db, run, hist, order, devPc, devTiers, devStart, devTarget, devTodo, devSeen,
                 devTotal, devRows, devRuns>>

DevWants(m) == devTarget # NoPatch => PatchOf(m) = devTarget

(* A failed detail or insert costs only the match itself. *)
DevMatch(m) ==
  /\ devPc = "match" /\ m \in devTodo /\ BelowTotal
  /\ devTodo' = devTodo \ {m} /\ devSeen' = devSeen \cup {m}
  /\ \/ /\ NoFault /\ DevWants(m)
        /\ rawMatches' = rawMatches \cup {m}
        /\ devTotal' = IF m \in rawMatches THEN devTotal ELSE devTotal + 1
     \/ NoFault /\ ~DevWants(m) /\ UNCHANGED <<rawMatches, devTotal>>
     \/ (\E kind \in {"detail", "insert"} : Fault(kind)) /\ UNCHANGED <<rawMatches, devTotal>>
  /\ UNCHANGED <<world, patchVersions, tracked, lastCrawled, run, hist, order, devPc, devTiers,
                 devQueue, devStart, devTarget, devRows, devRuns>>

DevNextPlayer ==
  /\ devPc = "match" /\ devTodo = {} /\ BelowTotal
  /\ devPc' = "players" /\ devTarget' = NoPatch
  /\ UNCHANGED <<world, db, run, hist, order, faults, devTiers, devQueue, devStart, devTodo, devSeen,
                 devTotal, devRows, devRuns>>

(* reconcile_patch_versions reads ... *)
DevCounts ==
  /\ \/ devPc = "players" /\ devQueue = {}
     \/ devPc \in {"players", "match"} /\ ~BelowTotal
  /\ devRows' = rawMatches
  /\ devPc' = "write" /\ lastRead' = "dev"
  /\ UNCHANGED <<world, db, run, hist, late, faults, devTiers, devQueue, devStart, devTarget,
                 devTodo, devSeen, devTotal, devRuns>>

(* ... and writes. *)
DevWrites ==
  /\ devPc = "write"
  /\ patchVersions' = Reconciled(patchVersions, devRows)
  /\ late' = IF crawlPc = "write" /\ lastRead = "dev" THEN {"crawler"} ELSE late \ {"dev"}
  /\ DevEnds
  /\ UNCHANGED <<world, rawMatches, tracked, lastCrawled, run, hist, lastRead, faults, devRuns>>

(* The recount fails, or the process is killed. *)
DevFails ==
  /\ devPc # "idle"
  /\ Fault("crash") \/ (devPc = "write" /\ Fault("reconcile"))
  /\ DevEnds /\ late' = late \ {"dev"}
  /\ UNCHANGED <<world, db, run, hist, lastRead, devRuns>>

----------------------------------------------------------------------------
(* The crawler's recount is no different: it reads ... *)
CrawlerCounts ==
  /\ crawlPc = "run" /\ pc = "players" /\ queue = {}
  /\ crawlPc' = "write" /\ crawlRows' = rawMatches /\ lastRead' = "crawler"
  /\ UNCHANGED <<vars, dev, late>>

CountOver == crawlPc' = "run" /\ crawlRows' = {}

(* ... and writes. *)
CrawlerWrites ==
  /\ crawlPc = "write"
  /\ Recount(crawlRows)
  /\ late' = IF devPc = "write" /\ lastRead = "crawler" THEN {"dev"} ELSE late \ {"crawler"}
  /\ CountOver
  /\ UNCHANGED <<dev, lastRead>>

(* Everything else the crawler and the world do.  A recount that fails, and *)
(* a process that is killed while its recount is under way, leave nothing.  *)
CrawlerGoesOn ==
  /\ RunStep \/ WorldStep
  /\ IF pc' = "idle" THEN CountOver /\ late' = late \ {"crawler"}
     ELSE UNCHANGED <<crawlPc, crawlRows, late>>
  /\ UNCHANGED <<dev, lastRead>>

----------------------------------------------------------------------------
DevStep ==
  \/ DevStarts \/ DevPlayers \/ DevNextPlayer \/ DevCounts \/ DevWrites \/ DevFails
  \/ \E t \in Tiers : DevTier(t)
  \/ \E p \in Player : DevFetch(p) \/ DevFetchFails(p)
  \/ \E m \in Match : DevMatch(m)

DevNext == CrawlerCounts \/ CrawlerWrites \/ CrawlerGoesOn \/ DevStep

DevSpec == DevInit /\ [][DevNext]_allVars

----------------------------------------------------------------------------
(* Properties: NoMatchLost and CurrentCountIsBacked of module Crawler hold  *)
(* with the second writer too, and                                          *)

DevTypeOK ==
  /\ TypeOK
  /\ devPc \in {"idle", "leagues", "players", "match", "write"}
  /\ devTiers \subseteq Tiers /\ devQueue \subseteq Player /\ devStart \in Int
  /\ devTarget \in Patches \cup {NoPatch}
  /\ devTodo \subseteq published /\ devSeen \subseteq published /\ devRows \subseteq published
  /\ devTotal \in 0 .. TargetMatches /\ devRuns \in 0 .. MaxDevRuns
  /\ devPc = "idle" => DevIdle
  /\ crawlPc = "write" => pc = "players" /\ queue = {}
  /\ crawlPc \in {"run", "write"} /\ crawlRows \subseteq published
  /\ crawlPc = "run" => crawlRows = {}
  /\ lastRead \in {"crawler", "dev"} /\ late \subseteq {"crawler", "dev"}
  /\ "crawler" \in late => crawlPc = "write"
  /\ "dev" \in late => devPc = "write"

(* A recount that read early and is written late may hand the target back   *)
(* to an older patch (db.rs:361-381 keeps the later write); the crawler's   *)
(* next recount repairs it: even if it is late itself, it never leaves a    *)
(* target older than one a run has worked for.                              *)
RecountRestoresTarget ==
  [][pc = "players" /\ pc' \in {"prune", "idle"} /\ patchVersions' # patchVersions
       => \A t \in targets, u \in CurrentPatchInfo(patchVersions)' :
            u # NoPatch /\ ~PatchLt(u, t)]_vars

(* Two recounts at once are no worse than one after the other as long as    *)
(* they are written in the order they read (db.rs:361-381).  The target is  *)
(* handed back to an older patch by nothing but a recount that is written   *)
(* over one that read after it, the crawler's or crawler_dev's: not by what *)
(* either stores or prunes, nor by a recount that read long before its      *)
(* write while the other's failed or read earlier still.                    *)
OnlyLateRecountGoesBack ==
  [][(\E t \in CurrentPatchInfo(patchVersions), u \in CurrentPatchInfo(patchVersions)' :
        t # NoPatch /\ (u = NoPatch \/ PatchLt(u, t)))
      => \/ "crawler" \in late /\ crawlPc' = "run"
         \/ "dev" \in late /\ devPc' = "idle"]_allVars
=============================================================================
