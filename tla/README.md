# TFT IQ backend: TLA+ models, checks and proofs

The backend collects Teamfight Tactics matches from the Riot API, derives
statistics from them, makes quizzes of the statistics and serves the quizzes.
This directory models the parts of it where time, failure and order matter.
Paths such as `src/bin/crawler.rs` are relative to the repository root.

## The system

| Part | State it keeps | Operations | What makes it correct |
|---|---|---|---|
| Crawler (`src/bin/crawler.rs`) | `raw_matches`, `tracked_players`, `patch_versions`; in memory the target patch and the ids handled in the run | refresh the ladder, ask for match ids, fetch and store matches, mark a player, recount patches, prune old patches | no wanted match is lost; pruning spares the served patch; new patches take over; nobody starves |
| Patch tracking (`src/db.rs`, `src/riot/dto.rs`) | `patch_versions` | parse a version, compare patches, recount, pick the current patch (with and without a threshold) | the served patch only moves to newer ones; the count that drives decisions is of matches that exist |
| Scheduler (`src/bin/scheduler.rs`) | the number of the cycle, in memory | start the programs one after another, gate the regeneration | failures leave old data in place; regeneration does come |
| Aggregation (`aggregate_combos.rs`, `aggregate_special.rs`) | `item_combo_stats`, `carry_stats`, `special_item_stats` | delete and reinsert the rows of the current patch, or, by hand, add the matches fetched since an instant | each match is counted exactly as often as it was asked to be; rates and flags fit the sums |
| Quiz generation (`combo_quiz_gen.rs`, `deck_quiz_gen.rs`) | `puzzles`, `deck_stats` | upsert quizzes of the current patch | quizzes come from complete statistics of the served patch; the two quizzes of a carry agree; the unit a deck quiz asks for is rare; a choice is judged by what was shown |
| Special items (`special_item_class.rs`) | `special_items` | upsert the catalogue | new items reach the statistics |
| Server (`src/bin/server.rs`) | `puzzle_attempts`, `users`, `puzzle_reports` | serve, answer, review, reset | serves quizzes of the current patch that the user has not solved |
| Riot client (`src/riot/client.rs`) | four rate limiters | wait for a limiter, request, retry on 429 | stays below the provider's limits |
| Second crawler (`crawler_dev.rs`), started by hand | `raw_matches`, `patch_versions` | players from the ladder, matches of the target patch up to a total, recount | takes nothing from the crawler it may run beside |
| Other generators, catalogue and diagnostic programs | as above | started by hand | |

The programs are separate processes that share nothing but the Postgres
database. Most write it statement by statement, without transactions. The
scheduler runs them in sequence on one machine; the server reads at any time;
any program may fail at any statement and the machine may restart. What is hard
to test is what such a failure leaves behind for the next program, the next
cycle and the next patch. `PROJECT.json` lists these hazards line by line.

## Modules

| Module | Models | Built on |
|---|---|---|
| `PatchTracking` | versions, their order, `patch_versions` recomputed from the matches, the queries that pick a patch (constant operators, no state) | |
| `PatchTrackingProofs` | lemmas about these operators, shared by the proofs below | `PatchTracking` |
| `Crawler` | the crawler against database, API and clock, statement by statement | `PatchTracking` |
| `MatchStore` | abstract: what the crawler promises to the programs after it | `PatchTracking` |
| `CrawlerProofs` | theorems about `Crawler` | `Crawler`, `PatchTrackingProofs` |
| `QuizPolicy` | the counts the aggregation takes and the thresholds of quiz generation (constant operators) | `PatchTracking` |
| `QuizPublication` | abstract: what the pipeline promises to the server | `QuizPolicy`, `MatchStore` |
| `Pipeline` | the scheduler and the programs it starts | `QuizPolicy` |
| `PipelineProofs` | theorems about `Pipeline` | `Pipeline`, `PatchTrackingProofs` |
| `RiotClient` | the rate limiters of the API client and its retries on 429 | |
| `RiotClientProofs` | theorems about `RiotClient` | `RiotClient` |
| `QuizServer` | the quiz endpoints and their queries, browser tabs running concurrently, against the pipeline | |
| `QuizServerProofs` | theorems about `QuizServer` | `QuizServer` |
| `TwoCrawlers` | `crawler_dev` running beside the incremental crawler on the same tables | `Crawler` |
| `TwoCrawlersProofs` | theorems about `TwoCrawlers` | `TwoCrawlers`, `CrawlerProofs` |
| `ComboStats` | both modes of `aggregate_combos` on one patch, runs that overlap and fail, and the answers `combo_quiz_gen` would give from the rows | |
| `ComboStatsProofs` | theorems about `ComboStats` | `ComboStats` |
| `DeckQuiz` | `deck_quiz_gen` over a patch change, with a user looking at a quiz | |
| `DeckQuizProofs` | theorems about `DeckQuiz` | `DeckQuiz` |
| `MCCrawler`, `MCCrawlerLive`, `MCTwoCrawlers`, `MCPipeline`, `MCRiotClient`, `MCQuizServer`, `MCComboStats`, `MCDeckQuiz` | constants for TLC | |

`Crawler` implements `MatchStore` (`ImplementsMatchStore`): the mapping is
`INSTANCE MatchStore WITH rawMatches <- ..., patchVersions <- ...`. `Pipeline`
implements `QuizPublication` (`ImplementsPublication`, an `INSTANCE ... WITH`
again), whose matches change as `MatchStore` says. `TwoCrawlers` adds the
variables and steps of a second process to `Crawler` and takes the recount of
either apart; every step of the one leaves the memory of the other alone. `ComboStats` and `DeckQuiz` look into two
programs that `Pipeline` has as a few stages each: `Pipeline` keeps where they
stand in the cycle and what a failure leaves to the next program, the two
modules keep what the rows hold. `RiotClient` is what is inside one request step of `Crawler`;
`QuizServer` sees of the pipeline only that some patch or none is served, and
that quizzes of a patch appear once it is or was served; `TwoCrawlers` shows that
the served patch can go back, so any other patch may be next. The pipeline's
crawler is reduced to stores, a recount and deletes, and what it assumes of the
real one is what the crawler runs check.

### Crawler: state and actions

- The database is `rawMatches`, `patchVersions` (a function from the patches that
  have a row to the earliest time and the count), `tracked`, `lastCrawled`.
- A run is a program counter: `idle`, `refresh` (patch state read by `StartRun`,
  tiers refreshed one by one), `players` (one queue entry after another),
  `crawl` (the details of `cur`), `prune`. `EndRun` clears all of it: nothing in
  memory survives a run.
- Every HTTP call and statement has a failing variant that costs one unit of
  `MaxFaults` and does what the code does: a league answer is skipped, a failed
  insert gives the player up unmarked, a failed patch query is taken for
  "nothing known", and so on. `Crash` ends a run anywhere.
- `Publish` and `Tick` are the world: a match shows up in id lists at most
  `PublishLag` after it began, and an ids answer is followed by `mark_crawled`
  within `MaxCrawl`. `MarginAssumption` says that the margin covers both. It is
  an assumption about the deployment, not something the code enforces: the
  client retries 429 without a limit.
- `targets`, `horizon` and `cut` are history, used in properties only: which
  targets have been used, where first collections began, and which matches an
  answer of at most `IdsCount` ids had no room for.

### Pipeline: state and actions

- `pc` names the stage. Each program is a few stages; a stage ends with `Exit`,
  which forgets what the program knew (`NoChild`). `aggOk` and `specialOk` are
  the scheduler's flags, `cycle` its counter modulo `RegenEvery`.
- `comboStats` and `carryStats` are rewritten row by row after a delete, a row
  standing for a batch; `InsertComboRow` adds to what is there, as its ON
  CONFLICT clause does. `specialStats` and `specialItems` are written in one
  transaction each.
- `quizzes` maps patch, carry and variant to the picks the quiz was made from.
  `deckStats` and `deckQuizzes` record the matches their rows came from.
- `image` is the set of programs in the container image, chosen once.
- `ProgramFails` is a statement that fails, a program that is killed, or one the
  image does not hold (no fault of its own: it fails every time); `Restart` is the
  machine. What follows is the scheduler's
  choice (`AfterFailure`).

### RiotClient: state and actions

- `fullAt` is the state of each governor limiter: the time at which it is full
  again. `Pass` is `until_ready` for the next limiter of the endpoint, enabled
  when at most `Burst` cells would be in use, and takes one cell.
- `pc` is the place in `get_json`: `wait` (for the limiters, `passed` of them so
  far), `sent`, `backoff` (until `until`, which Retry-After or its default gives).
  `Retry` goes back before the first limiter, as the `continue` does.
- The crawler awaits each request before it makes the next, so one request is
  under way at a time. `granted` and `sent` are history.

### QuizServer: state and actions

- A request of a tab is two steps, because a handler is two statements: `Ask`
  reads the current patch (`next_unsolved`), `Serve` or `ServeNone` is the query
  with the patch that was read; `Submit` reads the answer, `Record` inserts the
  attempt. `DailyPuzzle` is a single statement.
- `LeaveScreen` forgets how a quiz was served once it cannot be answered any more.
- `RecordLost` stores the attempt and loses the answer: the tab may submit again.
  `QueryFails` and `RecordFails` are a statement that fails. `Reset` deletes the
  attempts of the user.
- `NewPatch` and `Publish` are the pipeline. The next patch served is any other
  one, older or newer, or none. `Publish` may come late, for a patch that is no
  longer served: the generator read the patch before.
- `followedBy` is history: of each patch served, which patches were served after.
- `Review` has the query's filters and no others: any wrong attempt, any type,
  this patch. `FirstOf` is its ORDER BY, with NULL before true.
- Which option is right is left open (`Submit` chooses), since a regeneration
  may change the row between showing and judging.

### TwoCrawlers: state and actions

- `devPc` is the place in `main` of `crawler_dev`: `leagues` (`DevTier`, at most
  `PlayersPerTier` new players each), `players`, `match` (one id after another),
  `write`. It reads the start time once and the target patch for every player,
  wants the target patch only, of any set and queue, and stops at
  `TargetMatches`. Failed answers and failed inserts cost the item, not the run.
- `reconcile_patch_versions` is one statement, the same in both programs, but it
  reads at its start and may wait for the rows another recount is writing. It is
  two steps of each: `DevCounts` and `DevWrites`, `CrawlerCounts` and
  `CrawlerWrites`, which is `Recount` of module `Crawler` for the rows read before
  (`crawlRows`; `crawlPc` says that the recount is under way). `CrawlerGoesOn` is
  every other step of the crawler and the world.
- `lastRead` and `late` are history: whose recount read last, and which of the
  recounts under way read before one that has been written since.

### ComboStats: state and actions

- `runs[r]` is a process: `clear` (full mode, before its DELETE), `combos` (the
  batches that remain are in `todo`), `carries` (full mode, row by row). The
  incremental mode ends with `UpsertCarries`, one transaction.
- `Added` is ON CONFLICT DO UPDATE. A full run inserts into `carry_stats` without
  it and fails when another has put the row there (`InsertCarry`, `Fails`).
- `counted`, `clean`, `base` and `owner` are history: how often each match has
  been counted, whether that is known, and which full run cleared last.
- The full mode decides `is_carry` with a 64-bit 0.20, the incremental one with a
  32-bit 0.20, a little more than a fifth; `Flagged` is strict for that reason.
- The quizzes are operators on the rows (`Rankings`, `Prior`, `Answer`), so that
  their properties hold for a generator started at any moment. Means are compared
  by cross-multiplication, in whole numbers.

### DeckQuiz: state and actions

- A row is the set of matches it was computed from. `Generate` is all queries,
  `WriteDeckStats` and `WritePuzzles` a batch each, `Fails` ends the run between
  any two. `raw` changes between runs only, as the scheduler has it.
- `Appears` counts copies over all patches, `TotalBoards` the boards of one, as
  the two queries do.
- `Show` copies a quiz to the screen of a user, who may look at it while the row
  is written again; `Submit` judges by the row.

## Runs

| Run | Shows | Bounds |
|---|---|---|
| `crawler_safety` | `TypeOK`, `NoMatchLost`, `CurrentCountIsBacked`, `TargetNeverGoesBack`, `ImplementsMatchStore` under two faults of every kind but a failed detail | 2 players, 4 matches in 2 patches (one not solo-queue), clock to 5, margin 2 = lag 1 + crawl 1 |
| `crawler_live` | `NewPatchAdopted`, `EveryPlayerCrawled`, `EveryMatchDecided` under fairness, one fault | 3 players of whom one is unreachable, 2 places per cycle, 3 matches in 2 patches |
| `crawler_detail` (violation) | a failed detail request loses a match, against the comment at `crawler.rs:113-115` | as `crawler_safety`, one fault |
| `two_crawlers` | `DevTypeOK`, `NoMatchLost`, `CurrentCountIsBacked`, `RecountRestoresTarget`, `OnlyLateRecountGoesBack` with one fault | 4 matches in 2 patches, two needed for a patch to be the current one, one of another queue; a player that answers and one that does not; one run of `crawler_dev` that stores 2 matches; clock to 2, margin 1 |
| `pipeline_cycle` | `TypeOK`, `ImplementsPublication`, `QuizBasisGrows`, `QuizzesFollowPatch`, `DeckQuizzesFollowPatch`, `SpecialStatsFollowRelease` in the image the Dockerfile makes and in one with every program, under a failure or restart; in the former a patch never gets deck quizzes | 4 matches, 1 of the old patch and 3 of the new, 2 carries, 3 combinations, regeneration every 2nd cycle from 3 matches on, serving from 1 on, 2 catalogue releases |
| `pipeline_gap` (violation) | nothing is served between the serving and the regeneration threshold, against `scheduler.rs:17-19` | 4 matches, 2 of each patch, regeneration from 2 on, the image the Dockerfile makes, no fault |
| `riot_limits` | `TypeOK`, `GrantSpacing`, `SendSpacing` with two 429 answers | the league endpoint: a limiter of 2 per 4 and one of 3 per 9 time units, 4 requests, clock to 6 |
| `riot_quota` (violation) | more requests in a period than the provider allows, against the safety margin of `client.rs:10` | two endpoints, quotas one above the limiter's n |
| `server_safety` | `TypeOK`, `CountedOnce`, `ServedInOrder`, `ReviewMissesNothing` with one failure | two tabs of one user, an item quiz of each of two patches, any changes between these and none, 3 attempts, any resets |
| `server_review` (violation) | a quiz answered right since is reviewed again, against `db.rs:1103-1104` | one logged-in tab, a trait quiz of the old patch and an item quiz of the new, no failure |
| `combo_stats` | `TypeOK`, `TablesAreExact`, `LastClearStands`, `FlagsFollowCounts`, `QuizzesAgree`, `AnswerNotDominated` with one failure | 2 matches, a carry with 4 combinations (quizzes of 3, one apart) and one at exactly 20%, 2 processes, 3 runs of either mode, any instant, batches of 4 rows |
| `deck_quizzes` | `TypeOK`, `QuizNeverAheadOfStats`, `AnswerIsRare`, `JudgedAsShown`, `CompleteRunIsComplete` with two failures | 3 matches in 2 patches, decks of 2 out of 5 units, a unit that stands twice on a board, quizzes of 3 options, batches of 2 rows |

Why these bounds are enough: two patches give one change of the target, with
matches on both sides of it and an order in which they are stored that TLC
chooses; more patches repeat the step. Two players that share a match are what
the run-wide `seen` set needs to go wrong, three with one unreachable and two
places are what starvation needs. Two faults let a failure meet the recovery of
an earlier one. `pipeline_cycle` has one, at any statement of any program of any
cycle: its safety is proved for any number, and what a second one leaves behind is
again a cycle cut short. The clock reaches beyond the margin after the last match,
so that every match can fall behind it. Two carries with an uneven number of
combinations let a half-written table be wrong in a row, in a carry and in a
count, and as two combinations are asked of a carry, one falls short and is
skipped. In `two_crawlers` a patch loses the threshold when one of two matches is
not counted, which is what a late write does, and either crawler's recount can be
the late one. In `combo_stats` the third run can
heal or add to what two overlapping ones left; the places are chosen so that a
prior of its own would turn the order in one of two quizzes. In `deck_quizzes` a
read sees one patch, the other or both, and a run has more rows than fit a
batch. The two league limiters differ
in burst and interval, so a request can be held up by either, between them and
after a 429; four requests are more than either burst. Two tabs are what it takes
to show one quiz twice, and three attempts are one more than two tabs can
explain. With item quizzes of two patches each query of `server_safety` can answer
with a quiz of the wrong one; trait quizzes, which may outlive their patch, are in
`server_review` and in the proofs.
Real constants (5000, 15000, 500, 100, two hours) are scaled down and keep their
order: serving threshold below regeneration threshold.

`two_crawlers`, `combo_stats` and `server_safety` use the symmetry of alike
matches, processes and tabs; none of them checks liveness.

Each run but the violations may stop only where a bound stops it (the clock, the
number of runs or requests, the faults): the loops themselves go on, and
`CHECK_DEADLOCK FALSE` is for these bounds.

Names that begin a comment with "Faulty variant" are plausible bugs, kept beside
the definition they vary. They are used by nothing; replacing the definition by
the variant must make the named property fail.

### Fairness

`Crawler!FairSpec`: weak fairness of the crawler's steps together (the scheduler
starts run after run, a process that is not killed goes on) and of the world's
(time passes, matches get listed). No fairness is assumed of any single action,
in particular no success of a request to an unreachable player.

`Pipeline!FairSpec`: weak fairness of the scheduler's steps, and strong fairness
of storing each match the crawler wants, which is what `EveryMatchDecided`
establishes for `Crawler`. Failures are bounded, so a cycle eventually runs
undisturbed; with failures for ever nothing could be promised.

## Proofs

Every type invariant and safety property that a passing run checks is also proved,
for all constants that satisfy the named assumptions (`MatchAssumption`,
`LimitsAssumption`, `BoardAssumption`, ...: TLC evaluates them on every run).
What they rest on beyond that:

- `NewerPlayedLater`: of two patches every match of the newer began later. The
  queries that order patches by their earliest match (`db.rs:392-415`) take it for
  granted. Without it `ORDER BY earliest_at DESC` picks an old patch, and what is
  said of the order of patches fails. `MCCrawler`, `MCTwoCrawlers` and
  `MCPipeline` assume it of their instances, and TLC evaluates that.
- `"detail" \notin Faults`: no detail request fails. `crawler_detail` shows what one
  that fails does.
- The named assumptions have the sets of matches, boards, units, carries, players,
  tabs and runs finite, as they are in a database.

### Patches (`PatchTrackingProofs`)

No theorems, but the lemmas that three modules need: patches are totally ordered
(`PatchOrder`, `PatchesCompare`), what a recount makes of a row (`ReconciledRow`),
that a non-empty table has a newest patch (`NewestExists`), that one patch is
served or none (`OneServed`). `Backed` says that the counts of the table are of
matches that are there, but for patches older than the one served; `BackedMore`,
`BackedPruned` and `Recounting` say that storing, pruning and recounting keep it.
That the served patch never loses its matches rests on these.

### The crawler (`CrawlerProofs`)

- `TypeCorrect`: `Spec => []TypeOK`.
- `NothingLost`: if no detail request fails, `Spec => []NoMatchLost`.
- `CountsBacked`, `TargetAscends`, `StoreImplemented`: under `NewerPlayedLater` the
  count of the newest patch is of matches that exist, the served patch moves to
  newer ones only, and the crawler implements `MatchStore`.

`NoMatchLost` alone is not inductive. A match is about to be lost long before
`lastCrawled` moves: when an ids answer leaves it out, or when a run-wide `seen`
hides it. The invariant `IInv` adds what the code relies on at each point:

- `PhaseInv`: which of the run's variables are set in which phase.
- `CurInv`: while a player is being crawled, the clock is at most `MaxCrawl`
  past the ids answer. With `MarginAssumption` this is why a match listed later
  is still inside the next increment.
- `SeenInv`: a wanted match that was taken up in this run is either stored or
  was part of a crawl that was given up unmarked.
- `TodoInv`, `FetchedInv`: everything the answer owed the current player is
  stored, in `todo`, or excluded by the policy.

The step lemmas treat the actions that move these (`InvFetch`, `InvMatch`,
`InvMark`, `InvRecount`) one by one and the rest together (`InvQuiet`); `StillFound`, `StillSeen`
and `PolicyShrinks` are the facts they share: pruning and
new targets only ever shrink what the policy wants.

The three theorems on patches rest on `PInv`: every row of `patch_versions` goes
back to a match that was played, the table is `Backed`, and the target a run read
at its start is not newer than the patch served now. So what the run prunes, by
that old target, is older than the served patch.

### The second crawler (`TwoCrawlersProofs`)

`DevTypeCorrect`, `NothingLostBeside`, `CountsBackedBeside`, `RecountRestores` and
`LateRecountsOnly` are the five properties of `two_crawlers`. The steps of the
crawler keep what `CrawlerProofs` shows of them, its recount for any rows that it
may have read; new are the late writes of either program, which put back counts read
before a prune and a recount. `DInv` bounds the damage by the targets that were ever
used (`targets`), and speaks only of patches not older than one of them
(`Overtaken`):

- `KeptInv`: the counts of the table, and what the recounts under way have read,
  are of matches that are there, and of the newest target there are enough. The
  crawler prunes and counts in turn, so what its recount has read is all there.
- `SnapInv`: what a recount that is not late has read is enough for the counts of
  the table and for the targets. This needs the order of the reads: when one is
  written, it has read no more than the other, or the other becomes late. Even when
  the crawler's recount is late it has read enough for the targets, as no run has
  begun since it read.

So a write of a recount that is not late never takes the target back
(`RecountAscends`), and a target that a late one has undone is given back by the
crawler's next recount (`TargetsServed`).

### The pipeline (`PipelineProofs`)

- `TypeCorrect`: `Spec => []TypeOK`.
- `PublicationImplemented`: under `NewerPlayedLater`, `Spec => ImplementsPublication`.
- `BasisKeepsGrowing`: under `NewerPlayedLater`, `Spec => QuizBasisGrows`.

`QuizPublication` asks of a quiz that it is made from exact statistics of the patch
being served and of enough matches, although the programs that see to each of
these run one after another and fail on their own. `PInv` says what a stage may rely on:

- `StoreInv`: as in the crawler's proofs; `CountInv`: after the recount the count of
  the served patch is exact, and pruning leaves it so.
- `LoadedInv`, `ComboRowsInv`, `CarryRowsInv`: a half-written table holds the rows
  done and zero for those to do. The rows are there twice if the `DELETE` is missing.
- `FlagInv`: `aggOk` means that the statistics of the served patch are complete,
  and the regeneration is reached with `aggOk` only.
- `QuizInv`: `current_patch_match_count` has no threshold and may answer for a
  patch that is not served; but a count above `MinRegen` is that of the served
  patch (`EnoughIsServed`).
- `BasisInv`: the picks behind a quiz of a patch still to be served are there.

`Quiet` sums up the steps that only go on to another stage, failures and restarts
among them; each other step has a lemma of its own. TLC found `PInv` to hold on the
instances of the pipeline before it was proved.

### The aggregation (`ComboStatsProofs`)

- `TypeCorrect`, `FlagsFollow`, `LastClearCounts` and `CountsAreExact` are the
  type invariant, `FlagsFollowCounts`, `LastClearStands` and `TablesAreExact`.
- `AnswersAgree` and `AnswersStand` are `QuizzesAgree` and `AnswerNotDominated`.

A table is exact if each of its sums is the sum over the matches of what a match
says times how often it was counted. `KnownInv` says so of a table that runs are
still at work on: a row holds what was counted and what the runs under way have
added. `RunInv` and `MadeInv` say what a run, and a full one in particular, has
behind it; `AloneInv` that a run taken to be alone meets no full one; `OwnerInv`
follows the full run that cleared last. Facts about sums over sets of matches and
boards are proved by taking a smallest set that would contradict them
(`SetInduction`), since the library's induction theorems are out of this prover's
reach. The answers are compared as fractions: the first of the least exists in
every finite list (`FirstLeastExists`), which fixes `Answer`, and shrinking both
toward one prior keeps the order of two means.

### The deck quizzes (`DeckQuizProofs`)

`TypeCorrect`, `StatsFirst`, `RareAnswers`, `FairlyJudged` and `RunsComplete` are
the five properties of `deck_quizzes`. `IInv` consists of `KeyInv` (the key of a
quiz holds its answer, so a rewritten row asks for the same unit), `BasisInv` (the
matches behind a quiz of the patch being served are there), `ScreenInv` (the quiz
on a screen has its row, and the row's answer is among the options shown) and
`RunInv` (a run works on what it read, and what it has not left to write is written).

### The server (`QuizServerProofs`)

`TypeCorrect`, `AttemptsBounded`, `OrderKept` and `ReviewComplete` are the four
properties of `server_safety`. `PatchInv` ties the quiz on a
screen to the patch that the request under way has read, since the patch may change
in between: that patch, and the one served now, came after the quiz's
(`followedBy`), wherever the patches went.
`CountInv` is why an unsolved quiz is not counted at will: the attempts at it and
the tabs that may still add one are at most the tabs and the answers lost. A quiz is
served as unsolved only while there is no attempt, and each attempt uses up a tab.

### The client (`RiotClientProofs`)

- `TypeCorrect`: `Spec => []TypeOK`.
- `GrantsSpaced`: `Spec => []GrantSpacing`, that is, at most `Burst` requests plus
  one per `Interval` pass a limiter in any span of time. `GrantSpacing` says
  nothing of the limiter's own state, so it is not inductive. `DebtInv` ties the
  two together: a limiter will not be full before every cell taken since request
  `i` has refilled. With `Ready` that gives the distance of the next request from
  each earlier one. `TakeCell` is that step on sequences of times.
- `SendsSpaced`: `Spec => []SendSpacing`. `SendInv` matches the requests sent to an
  endpoint one to one with the passes of each of its limiters; `LimitsAssumption`
  (a limiter belongs to one endpoint) makes that possible, and going back
  before the first limiter after a 429 preserves it.

The bound is nearly `2n` for a window of one period, which is why `riot_quota`
finds the provider's quota exceeded although every limiter works as it should.

### What is not proved

Only model-checked is all liveness (`crawler_live` and the three `...Follow...`
properties of `pipeline_cycle`): fairness and ENABLED are beyond this prover. The violations are counterexamples that TLC finds.

## Abstractions

- Versions are pairs of numbers, matches and players model values. What a match
  holds is reduced to its time, version, set, queue, participants, carries and
  combinations.
- In `Pipeline` a carry's statistics are its appearances and the picks per
  combination. `ComboStats` adds placements, flags and answers. The sums of unit
  tiers, the label of the most played deck and the hidden pick are in no module.
- In `QuizServer` the verdict is open; in `DeckQuiz` it is the row's. The key of a
  deck quiz holds its answer, so `JudgedAsShown` holds for these. The key of an
  item quiz does not: a regeneration between showing and judging may change the
  answer, and nothing in the repository promises otherwise.
- Requests are steps; their duration shows only in `MaxCrawl`.
- The world has one crawler and one scheduler at a time, as deployed;
  `TwoCrawlers` and `ComboStats` add the processes a person may start by hand.

## Observations beside the findings

- With version strings that hold no digits the patch becomes `18.0`
  (`dto.rs:139-143`), and a real version `16.17` (`crawler.rs:38`) compares as
  older: `NewPatchAdopted` fails when `crawler_live` is given such versions.
- The image that `fly.toml:5-20` runs as the worker holds no `deck_quiz_gen`:
  `Dockerfile:27-34` builds and `Dockerfile:44-50` copies seven other programs.
  `scheduler.rs:74` starts it all the same, `run_step` logs the failure
  (`scheduler.rs:122-125`) and the cycle goes on, so no patch ever gets deck quizzes
  there, although `server.rs:262` offers `deck_complete`. `DeckQuizzesFollowPatch`
  says what happens in either image; without its condition on the image it fails.
- `cluster_decks` is not called by `deck_quiz_gen`, although its header says that
  variants are merged: decks that differ in one unit are separate tier decks, and
  a wrong option may complete the shown units to another of them.
- `prune_matches` and `prune_matches_by_time` skip the rows their comments say
  they delete; no program calls them.

## Not modelled, and the plan

All modules of the table above are written, and their safety properties proved.
What is left, in this order:

1. `QuizServer`: the review badge (`review_counts`) against what the review
   serves, the group a review was asked for, the statistics of a user.
2. A timed crawler over `RiotClient`: how many retries `MarginAssumption` bears.

Left out for good: `trait_quiz_gen`, `item_quiz_gen` (its insert is commented
out), catalogue and diagnostic programs (sequential, run by hand, nothing beside
them), `comp.rs` (the label of one board) and `deck_cluster.rs` (called by the
diagnostic programs only), configuration and type declarations, wording and icons.
