------------------------------ MODULE Pipeline ------------------------------
(***************************************************************************)
(* The scheduler (src/bin/scheduler.rs) and the programs it starts, one    *)
(* after another, each cycle: the crawler, aggregate_combos,               *)
(* aggregate_special and, every few cycles and with enough matches,        *)
(* combo_quiz_gen, deck_quiz_gen and special_item_class.                   *)
(*                                                                         *)
(* The programs share nothing but the database; most write it statement by *)
(* statement, without a transaction.  Any of them may fail at any          *)
(* statement, and the machine may restart at any time, which also restarts *)
(* the cycle count.  The crawler is reduced to what it does to the match   *)
(* store (module Crawler has its own steps).                               *)
(***************************************************************************)
EXTENDS QuizPolicy

CONSTANTS
  RegenEvery,     \* REGEN_EVERY_N_CYCLES (4)
  Images,         \* the container images it may run in, as sets of programs
  MaxRelease,     \* bound of the Community Dragon releases
  MaxFaults       \* bound of the failures and restarts

ASSUME PipelineAssumption ==
  /\ RegenEvery \in Nat \ {0} /\ MaxRelease \in Nat /\ MaxFaults \in Nat

NoCarry == "none"

VARIABLES
  \* the match store
  rawMatches, patchVersions,
  \* item_combo_stats and carry_stats, per patch and carry
  comboStats, carryStats,
  \* puzzles: the picks behind each item quiz, the matches behind the deck
  \* quizzes of a patch; deck_stats likewise
  quizzes, deckStats, deckQuizzes,
  \* special_items: the release it was taken from; special_item_stats: the
  \* matches and the release behind the rows of a patch
  specialItems, specialStats,
  \* the scheduler
  pc, cycle, aggOk, specialOk,
  \* the program it runs, lost when that ends
  target, loaded, todo, cur, picks,
  \* the newest Community Dragon release
  release,
  \* the programs in the container image the scheduler runs in
  image,
  faults

store   == <<rawMatches, patchVersions>>
combos  == <<comboStats, carryStats>>
decks   == <<deckStats, deckQuizzes>>
special == <<specialItems, specialStats>>
sched   == <<cycle, aggOk, specialOk>>
child   == <<target, loaded, todo, cur, picks>>
vars    == <<rawMatches, patchVersions, comboStats, carryStats, quizzes, deckStats,
             deckQuizzes, specialItems, specialStats, pc, cycle, aggOk, specialOk,
             target, loaded, todo, cur, picks, release, image, faults>>

----------------------------------------------------------------------------
(* Helpers *)

(* run_step: the stage at which each program starts. *)
Program ==
  [crawl |-> "crawler", combos |-> "aggregate_combos", special |-> "aggregate_special",
   quizzes |-> "combo_quiz_gen", decks |-> "deck_quiz_gen", classify |-> "special_item_class"]

(* The stages of each program, "gate" being the scheduler's own query.      *)
Stages ==
  [crawl |-> {"crawl", "prune"}, combos |-> {"combos", "comboRows", "carryRows"},
   special |-> {"special"}, gate |-> {"gate"}, quizzes |-> {"quizzes", "carries", "variant"},
   decks |-> {"decks", "deckQuizzes"}, classify |-> {"classify"}]

Installed(stage) == stage \in DOMAIN Program => Program[stage] \in image

At(stage) == pc = stage /\ Installed(stage)

Fault == faults < MaxFaults /\ faults' = faults + 1
NoFault == UNCHANGED faults

(* Faulty variant: what one program knew is left to the next.               *)
NoChildKept == UNCHANGED child

NoChild == target' = NoPatch /\ loaded' = {} /\ todo' = {} /\ cur' = NoCarry /\ picks' = NoPicks

(* The program ends and the scheduler goes on to a stage. *)
Exit(stage) == pc' = stage /\ NoChild

(* Faulty variant: the special items are never classified anew.             *)
AfterDecksSkipping == "sleep"

(* Faulty variant: the aggregation may have failed.                         *)
AfterSpecialAnyway == "gate"

AfterSpecial == IF aggOk THEN "gate" ELSE "sleep"
AfterDecks == IF specialOk THEN "classify" ELSE "sleep"

NoPickRows == [c \in Carry |-> NoPicks]
NoCarryRows == [c \in Carry |-> NoRow]

(* Faulty variant: the full aggregation adds to what is there.              *)
ClearedNever(table, p, none) == table

(* DELETE of a patch's rows. *)
Cleared(table, p, none) == [table EXCEPT ![p] = none]

(* Faulty variant: the threshold itself is not enough.                      *)
EnoughOver(count) == count > MinRegen

(* should_regenerate *)
Enough(count) == count >= MinRegen

Init ==
  /\ rawMatches = {} /\ patchVersions = [p \in {} |-> 0]
  /\ comboStats = [p \in Patches |-> NoPickRows]
  /\ carryStats = [p \in Patches |-> NoCarryRows]
  /\ quizzes = [k \in QuizKeys |-> NoPicks]
  /\ deckStats = [p \in Patches |-> {}] /\ deckQuizzes = [p \in Patches |-> {}]
  /\ specialItems = 0
  /\ specialStats = [p \in Patches |-> [matches |-> {}, items |-> 0]]
  /\ pc = "sleep" /\ cycle = 0 /\ aggOk = FALSE /\ specialOk = FALSE
  /\ target = NoPatch /\ loaded = {} /\ todo = {} /\ cur = NoCarry /\ picks = NoPicks
  /\ release = 1 /\ image \in Images /\ faults = 0

----------------------------------------------------------------------------
(* The crawler, as the match store sees it *)

(* The cycle count matters modulo RegenEvery.  The crawler reads its target *)
(* patch first; an answer that fails is taken for no target.                *)
StartCycle ==
  /\ pc = "sleep"
  /\ cycle' = (cycle + 1) % RegenEvery
  /\ aggOk' = FALSE /\ specialOk' = FALSE
  /\ \/ NoFault /\ target' \in CurrentPatchInfo(patchVersions)
     \/ Fault /\ target' = NoPatch
  /\ pc' = "crawl"
  /\ UNCHANGED <<store, combos, quizzes, decks, special, loaded, todo, cur, picks, release,
                 image>>

CrawlStores(m) ==
  /\ At("crawl") /\ m \notin rawMatches
  /\ target # NoPatch => ~PatchLt(PatchOf(m), target)
  /\ rawMatches' = rawMatches \cup {m}
  /\ UNCHANGED <<patchVersions, combos, quizzes, decks, special, pc, sched, child, release,
                 image, faults>>

CrawlRecounts ==
  /\ At("crawl")
  /\ patchVersions' = Reconciled(patchVersions, rawMatches)
  /\ IF target = NoPatch THEN Exit("combos") ELSE pc' = "prune" /\ UNCHANGED child
  /\ UNCHANGED <<rawMatches, combos, quizzes, decks, special, sched, release, image, faults>>

CrawlPrunes(p) ==
  /\ pc = "prune" /\ p \in OlderPatches(rawMatches, target)
  /\ rawMatches' = rawMatches \ RowsOf(rawMatches, p)
  /\ UNCHANGED <<patchVersions, combos, quizzes, decks, special, pc, sched, child, release,
                 image, faults>>

(* A DELETE that fails stops the pruning; the crawler succeeds all the same. *)
CrawlEnds ==
  /\ pc = "prune"
  /\ IF OlderPatches(rawMatches, target) = {} THEN NoFault ELSE Fault
  /\ Exit("combos")
  /\ UNCHANGED <<store, combos, quizzes, decks, special, sched, release, image>>

----------------------------------------------------------------------------
(* aggregate_combos, the full aggregation *)

(* Without a current patch it succeeds and writes nothing. *)
NothingToAggregate ==
  /\ At("combos") /\ NoPatch \in CurrentPatchInfo(patchVersions)
  /\ aggOk' = TRUE
  /\ Exit("special")
  /\ UNCHANGED <<store, combos, quizzes, decks, special, cycle, specialOk, release, image,
                 faults>>

(* load_matches, then save_combo_stats: the DELETE ... *)
LoadMatches ==
  /\ At("combos")
  /\ target' \in CurrentPatchInfo(patchVersions) \ {NoPatch}
  /\ loaded' = RowsOf(rawMatches, target')
  /\ comboStats' = Cleared(comboStats, target', NoPickRows)
  /\ todo' = UNION {Built[m] : m \in loaded'}
  /\ pc' = "comboRows"
  /\ UNCHANGED <<store, carryStats, quizzes, decks, special, sched, cur, picks, release, image,
                 faults>>

(* ... and the batches, ON CONFLICT added to the row that is there. *)
InsertComboRow(c, o) ==
  /\ pc = "comboRows" /\ <<c, o>> \in todo
  /\ comboStats' = [comboStats EXCEPT ![target][c][o] = @ + Picks(c, loaded)[o]]
  /\ todo' = todo \ {<<c, o>>}
  /\ UNCHANGED <<store, carryStats, quizzes, decks, special, pc, sched, target, loaded, cur,
                 picks, release, image, faults>>

(* save_carry_stats: the DELETE, then a row for every unit seen. *)
ClearCarryRows ==
  /\ pc = "comboRows" /\ todo = {}
  /\ carryStats' = Cleared(carryStats, target, NoCarryRows)
  /\ todo' = {c \in Carry : CarryRow(c, loaded).total > 0}
  /\ pc' = "carryRows"
  /\ UNCHANGED <<store, comboStats, quizzes, decks, special, sched, target, loaded, cur, picks,
                 release, image, faults>>

InsertCarryRow(c) ==
  /\ pc = "carryRows" /\ c \in todo
  /\ carryStats' = [carryStats EXCEPT ![target][c] = CarryRow(c, loaded)]
  /\ todo' = todo \ {c}
  /\ UNCHANGED <<store, comboStats, quizzes, decks, special, pc, sched, target, loaded, cur,
                 picks, release, image, faults>>

AggregateEnds ==
  /\ pc = "carryRows" /\ todo = {}
  /\ aggOk' = TRUE
  /\ Exit("special")
  /\ UNCHANGED <<store, combos, quizzes, decks, special, cycle, specialOk, release, image,
                 faults>>

----------------------------------------------------------------------------
(* aggregate_special: one transaction, run whether or not the aggregation   *)
(* succeeded.                                                               *)
AggregateSpecial ==
  /\ At("special")
  /\ \E t \in CurrentPatchInfo(patchVersions) :
       specialStats' =
         IF t = NoPatch THEN specialStats
         ELSE [specialStats EXCEPT ![t] = [matches |-> RowsOf(rawMatches, t),
                                          items |-> specialItems]]
  /\ specialOk' = TRUE
  /\ Exit(AfterSpecial)
  /\ UNCHANGED <<store, combos, quizzes, decks, specialItems, cycle, aggOk, release, image,
                 faults>>

(* Every RegenEvery-th cycle, if the newest patch has enough matches.       *)
Gate ==
  /\ pc = "gate"
  /\ \E count \in CurrentPatchMatchCount(patchVersions) :
       pc' = IF cycle = 0 /\ Enough(count) THEN "quizzes" ELSE "sleep"
  /\ UNCHANGED <<store, combos, quizzes, decks, special, sched, child, release, image, faults>>

----------------------------------------------------------------------------
(* combo_quiz_gen *)

(* The candidates, by a threshold on the match count of the newest patch.   *)
StartQuizzes ==
  /\ At("quizzes")
  /\ \E t \in CurrentPatchInfo(patchVersions), count \in CurrentPatchMatchCount(patchVersions) :
       IF t = NoPatch THEN Exit("decks")
       ELSE /\ target' = t
            /\ todo' = {c \in Carry : IsCandidate(carryStats[t][c], count)}
            /\ pc' = "carries"
            /\ UNCHANGED <<loaded, cur, picks>>
  /\ UNCHANGED <<store, combos, quizzes, decks, special, sched, release, image, faults>>

(* The carries come ORDER BY total_appearances DESC. *)
IsNext(c) ==
  c \in todo /\ \A d \in todo : carryStats[target][d].total <= carryStats[target][c].total

SkipCarry(c) ==
  /\ pc = "carries" /\ IsNext(c)
  /\ ~EnoughCombos(Listed(comboStats[target][c]))
  /\ todo' = todo \ {c}
  /\ UNCHANGED <<store, combos, quizzes, decks, special, pc, sched, target, loaded, cur, picks,
                 release, image, faults>>

(* Both quizzes of a carry are made from one read of its combinations, and  *)
(* upserted one by one.                                                     *)
MakeMain(c) ==
  /\ pc = "carries" /\ IsNext(c)
  /\ picks' = Listed(comboStats[target][c])
  /\ EnoughCombos(picks')
  /\ quizzes' = [quizzes EXCEPT ![<<target, c, "main">>] = picks']
  /\ todo' = todo \ {c} /\ cur' = c
  /\ pc' = "variant"
  /\ UNCHANGED <<store, combos, decks, special, sched, target, loaded, release, image, faults>>

MakeVariant ==
  /\ pc = "variant"
  /\ quizzes' = [quizzes EXCEPT ![<<target, cur, "variant">>] = picks]
  /\ cur' = NoCarry /\ picks' = NoPicks
  /\ pc' = "carries"
  /\ UNCHANGED <<store, combos, decks, special, sched, target, loaded, todo, release, image,
                 faults>>

QuizzesEnd ==
  /\ pc = "carries" /\ todo = {}
  /\ Exit("decks")
  /\ UNCHANGED <<store, combos, quizzes, decks, special, sched, release, image, faults>>

----------------------------------------------------------------------------
(* deck_quiz_gen: deck_stats, then the puzzles, from the raw matches *)

WriteDeckStats ==
  /\ At("decks")
  /\ \E t \in CurrentPatchInfo(patchVersions) :
       IF t = NoPatch THEN Exit(AfterDecks) /\ UNCHANGED deckStats
       ELSE /\ target' = t /\ loaded' = RowsOf(rawMatches, t)
            /\ deckStats' = [deckStats EXCEPT ![t] = loaded']
            /\ pc' = "deckQuizzes"
            /\ UNCHANGED <<todo, cur, picks>>
  /\ UNCHANGED <<store, combos, quizzes, deckQuizzes, special, sched, release, image, faults>>

WriteDeckQuizzes ==
  /\ pc = "deckQuizzes"
  /\ deckQuizzes' = [deckQuizzes EXCEPT ![target] = loaded]
  /\ Exit(AfterDecks)
  /\ UNCHANGED <<store, combos, quizzes, deckStats, special, sched, release, image, faults>>

(* special_item_class: one transaction, from the newest release. *)
ClassifySpecialItems ==
  /\ At("classify")
  /\ specialItems' = release
  /\ Exit("sleep")
  /\ UNCHANGED <<store, combos, quizzes, decks, specialStats, sched, release, image, faults>>

----------------------------------------------------------------------------
(* Failures *)

(* Where the scheduler goes on after a program that failed. *)
AfterFailure(program) ==
  CASE program \in {"crawl", "gate", "classify"} -> "sleep"
    [] program = "combos"  -> "special"
    [] program = "special" -> AfterSpecial
    [] program = "quizzes" -> "decks"
    [] program = "decks"   -> AfterDecks

(* A statement fails or the program is killed, or it is not in the image. *)
ProgramFails(program) ==
  /\ pc \in Stages[program]
  /\ IF Installed(pc) THEN Fault ELSE NoFault
  /\ Exit(AfterFailure(program))
  /\ UNCHANGED <<store, combos, quizzes, decks, special, sched, release, image>>

(* The machine restarts: the count of cycles begins again. *)
Restart ==
  /\ pc # "sleep" \/ cycle # 0
  /\ Fault
  /\ cycle' = 0 /\ aggOk' = FALSE /\ specialOk' = FALSE
  /\ Exit("sleep")
  /\ UNCHANGED <<store, combos, quizzes, decks, special, release, image>>

(* Community Dragon publishes the special items of a new game version. *)
Release ==
  /\ release < MaxRelease
  /\ release' = release + 1
  /\ UNCHANGED <<store, combos, quizzes, decks, special, pc, sched, child, image, faults>>

----------------------------------------------------------------------------
SchedulerStep ==
  \/ StartCycle
  \/ \E m \in Match : CrawlStores(m)
  \/ CrawlRecounts \/ (\E p \in Patches : CrawlPrunes(p)) \/ CrawlEnds
  \/ NothingToAggregate \/ LoadMatches \/ ClearCarryRows \/ AggregateEnds
  \/ \E c \in Carry : InsertCarryRow(c) \/ \E o \in Combo : InsertComboRow(c, o)
  \/ AggregateSpecial \/ Gate
  \/ StartQuizzes \/ MakeVariant \/ QuizzesEnd
  \/ \E c \in Carry : SkipCarry(c) \/ MakeMain(c)
  \/ WriteDeckStats \/ WriteDeckQuizzes
  \/ ClassifySpecialItems
  \/ \E program \in DOMAIN Stages : ProgramFails(program)
  \/ Restart

Next == SchedulerStep \/ Release

Spec == Init /\ [][Next]_vars

(* The loop never stops by itself, and the crawler gets every match it      *)
(* wants in the end (EveryMatchDecided of module Crawler).                  *)
FairSpec ==
  Spec /\ WF_vars(SchedulerStep) /\ \A m \in Match : SF_vars(CrawlStores(m))

----------------------------------------------------------------------------
(* Properties *)

TypeOK ==
  /\ rawMatches \subseteq Match
  /\ DOMAIN patchVersions \subseteq Patches
  /\ \A p \in DOMAIN patchVersions : patchVersions[p] \in PatchRow
  /\ comboStats \in [Patches -> [Carry -> [Combo -> Nat]]]
  /\ carryStats \in [Patches -> [Carry -> [total : Nat, three : Nat]]]
  /\ quizzes \in [QuizKeys -> [Combo -> Nat]]
  /\ deckStats \in [Patches -> SUBSET Match] /\ deckQuizzes \in [Patches -> SUBSET Match]
  /\ specialItems \in Nat
  /\ specialStats \in [Patches -> [matches : SUBSET Match, items : Nat]]
  /\ pc \in {"sleep"} \cup UNION {Stages[program] : program \in DOMAIN Stages}
  /\ cycle \in 0 .. RegenEvery - 1 /\ aggOk \in BOOLEAN /\ specialOk \in BOOLEAN
  /\ target \in Patches \cup {NoPatch} /\ loaded \subseteq Match
  /\ todo \subseteq Carry \cup Carry \X Combo /\ cur \in Carry \cup {NoCarry}
  /\ picks \in [Combo -> Nat]
  /\ release \in Nat /\ image \in Images /\ faults \in Nat
  /\ pc \in {"sleep", "special", "gate", "classify"} =>
       target = NoPatch /\ loaded = {} /\ todo = {} /\ cur = NoCarry /\ picks = NoPicks

(* The pipeline implements module QuizPublication: though statistics are    *)
(* deleted and rewritten row by row and any program may stop half-way, a    *)
(* quiz is only ever made from complete and exact statistics of the patch   *)
(* being served, and never below the regeneration threshold                 *)
(* (scheduler.rs:58-72).                                                    *)
Publication ==
  INSTANCE QuizPublication WITH
    rawMatches <- rawMatches, patchVersions <- patchVersions, quizzes <- quizzes
ImplementsPublication == Publication!Spec

(* A regeneration never replaces a quiz by one made from fewer picks: the   *)
(* matches behind a published quiz are still there when it is made again.   *)
QuizBasisGrows == [][\A k \in QuizKeys, o \in Combo : quizzes[k][o] <= quizzes'[k][o]]_vars

LastPatch == PatchOf(CHOOSE m \in Match : \A n \in Match : GameTime[n] <= GameTime[m])

MatchesOf(p) == RowsOf(Match, p)

(* Once the newest patch has been collected, its quizzes come, in spite of  *)
(* failures and restarts, and show all its matches.                         *)
QuizzesFollowPatch ==
  Cardinality(MatchesOf(LastPatch)) >= MinRegen =>
    \A k \in QuizKeys :
      k[1] = LastPatch /\ HasQuiz(k[2], MatchesOf(LastPatch)) =>
        <>[](quizzes[k] = Listed(Picks(k[2], MatchesOf(LastPatch))))

(* Likewise its deck quizzes (scheduler.rs:74), if the image holds          *)
(* deck_quiz_gen.  The one the Dockerfile makes does not: in it the cycle   *)
(* goes on as ever, but the patch never gets a deck quiz.                   *)
DeckQuizzesFollowPatch ==
  Cardinality(MatchesOf(LastPatch)) >= MinRegen =>
    <>[](deckQuizzes[LastPatch] =
           IF "deck_quiz_gen" \in image THEN MatchesOf(LastPatch) ELSE {})

(* The special items of the last release reach the statistics, although     *)
(* they are classified only after the statistics of a cycle are made        *)
(* (scheduler.rs:60, 75-78).                                                *)
SpecialStatsFollowRelease ==
  Cardinality(MatchesOf(LastPatch)) >= MinRegen =>
    <>[](specialStats[LastPatch] = [matches |-> MatchesOf(LastPatch), items |-> release])

(* scheduler.rs:17-19: below the threshold the existing quizzes go on being *)
(* served, without a gap.  next_unsolved serves the quizzes of the current  *)
(* patch only.                                                              *)
ServedQuizzes ==
  {k \in QuizKeys : k[1] \in CurrentPatchInfo(patchVersions) /\ quizzes[k] # NoPicks}
NoServingGap == [][ServedQuizzes # {} => ServedQuizzes' # {}]_vars
=============================================================================
