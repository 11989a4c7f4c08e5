--------------------------- MODULE PipelineProofs ---------------------------
(* Proofs about the pipeline: its types, that it implements QuizPublication *)
(* and that a quiz is never made again from fewer picks.                    *)
EXTENDS Pipeline, PatchTrackingProofs

----------------------------------------------------------------------------
(* What the policy's operators return *)

LEMMA PicksType ==
  ASSUME NEW rows \in SUBSET Match, NEW c
  PROVE  /\ Picks(c, rows) \in [Combo -> Nat]
         /\ CarryRow(c, rows) \in [total : Nat, three : Nat]
<1>1. \A some \in SUBSET rows : Cardinality(some) \in Nat
  BY MatchAssumption, FS_Subset, FS_CardinalityType
<1>2. Picks(c, rows) \in [Combo -> Nat]
  <2>1. \A o \in Combo : {m \in rows : <<c, o>> \in Built[m]} \in SUBSET rows
    OBVIOUS
  <2>2. \A o \in Combo : Cardinality({m \in rows : <<c, o>> \in Built[m]}) \in Nat
    BY <1>1, <2>1
  <2> QED
    BY <2>2 DEF Picks
<1>3. CarryRow(c, rows) \in [total : Nat, three : Nat]
  <2> DEFINE seen == {m \in rows : c \in Units[m]}
             three == {m \in rows : \E o \in Combo : <<c, o>> \in Built[m]}
  <2>1. seen \in SUBSET rows /\ three \in SUBSET rows
    OBVIOUS
  <2>2. Cardinality(seen) \in Nat /\ Cardinality(three) \in Nat
    BY <1>1, <2>1
  <2>3. CarryRow(c, rows) = [total |-> Cardinality(seen), three |-> Cardinality(three)]
    BY DEF CarryRow
  <2> HIDE DEF seen, three
  <2> QED
    BY <2>2, <2>3
<1> QED
  BY <1>2, <1>3

LEMMA ListedType ==
  ASSUME NEW counts \in [Combo -> Nat]
  PROVE  Listed(counts) \in [Combo -> Nat]
BY DEF Listed

(* More matches, no fewer picks. *)
LEMMA MorePicks ==
  ASSUME NEW rows \in SUBSET Match, NEW more \in SUBSET Match, rows \subseteq more, NEW c,
         NEW o \in Combo
  PROVE  Listed(Picks(c, rows))[o] <= Listed(Picks(c, more))[o]
<1> DEFINE Picked(raw) == {m \in raw : <<c, o>> \in Built[m]}
<1>1. Picked(rows) \subseteq Picked(more) /\ IsFiniteSet(Picked(more))
  BY MatchAssumption, FS_Subset
<1>2. /\ Cardinality(Picked(rows)) <= Cardinality(Picked(more))
      /\ Cardinality(Picked(rows)) \in Nat /\ Cardinality(Picked(more)) \in Nat
  BY <1>1, FS_Subset, FS_CardinalityType
<1>3. Picks(c, rows)[o] = Cardinality(Picked(rows)) /\ Picks(c, more)[o] = Cardinality(Picked(more))
  BY DEF Picks
<1> HIDE DEF Picked
<1>4. /\ Listed(Picks(c, rows))[o] =
           IF Cardinality(Picked(rows)) >= MinPicks THEN Cardinality(Picked(rows)) ELSE 0
      /\ Listed(Picks(c, more))[o] =
           IF Cardinality(Picked(more)) >= MinPicks THEN Cardinality(Picked(more)) ELSE 0
  BY <1>3 DEF Listed
<1> QED
  BY <1>2, <1>4, PolicyAssumption

(* A combination no match has is picked by none, and a carry no match has   *)
(* was seen in none.                                                        *)
LEMMA NothingPicked ==
  ASSUME NEW rows \in SUBSET Match, NEW c \in Carry
  PROVE  /\ \A o \in Combo : <<c, o>> \notin UNION {Built[m] : m \in rows} => Picks(c, rows)[o] = 0
         /\ ~(CarryRow(c, rows).total > 0) => CarryRow(c, rows) = NoRow
<1>1. ASSUME NEW o \in Combo, <<c, o>> \notin UNION {Built[m] : m \in rows}
      PROVE  Picks(c, rows)[o] = 0
  <2>1. {m \in rows : <<c, o>> \in Built[m]} = {}
    BY <1>1
  <2> QED
    BY <2>1, FS_EmptySet DEF Picks
<1>2. ASSUME ~(CarryRow(c, rows).total > 0) PROVE CarryRow(c, rows) = NoRow
  <2> DEFINE seen == {m \in rows : c \in Units[m]}
             three == {m \in rows : \E o \in Combo : <<c, o>> \in Built[m]}
  <2>1. three \subseteq seen
    <3> SUFFICES ASSUME NEW m \in rows, NEW o \in Combo, <<c, o>> \in Built[m]
                 PROVE  c \in Units[m]
      OBVIOUS
    <3>1. <<c, o>>[1] \in Units[m]
      BY CarryAssumption
    <3> QED
      BY <3>1
  <2>2. IsFiniteSet(seen)
    BY MatchAssumption, FS_Subset
  <2>3. CarryRow(c, rows) = [total |-> Cardinality(seen), three |-> Cardinality(three)]
    BY DEF CarryRow
  <2> HIDE DEF seen, three
  <2>4. Cardinality(seen) = 0
    BY <1>2, <2>2, <2>3, FS_CardinalityType
  <2>5. seen = {}
    BY <2>2, <2>4, FS_EmptySet
  <2>6. Cardinality(three) = 0
    BY <2>1, <2>5, FS_EmptySet
  <2> QED
    BY <2>3, <2>4, <2>6 DEF NoRow
<1> QED
  BY <1>1, <1>2

----------------------------------------------------------------------------
(* Type correctness *)

LEMMA InitType == Init => TypeOK
<1> SUFFICES ASSUME Init PROVE TypeOK
  OBVIOUS
<1>1. pc \in {"sleep"} \cup UNION {Stages[program] : program \in DOMAIN Stages}
  BY DEF Init
<1>2. DOMAIN patchVersions = {}
  BY DEF Init
<1>3. NoPicks \in [Combo -> Nat] /\ NoRow \in [total : Nat, three : Nat]
  BY DEF NoPicks, NoRow
<1>4. 0 \in 0 .. RegenEvery - 1
  BY PipelineAssumption
<1> QED
  BY <1>1, <1>2, <1>3, <1>4 DEF Init, TypeOK, NoPickRows, NoCarryRows

LEMMA StagesAre ==
  /\ DOMAIN Stages = {"crawl", "combos", "special", "gate", "quizzes", "decks", "classify"}
  /\ UNION {Stages[program] : program \in DOMAIN Stages} =
       {"crawl", "prune", "combos", "comboRows", "carryRows", "special", "gate", "quizzes",
        "carries", "variant", "decks", "deckQuizzes", "classify"}
<1>1. DOMAIN Stages = {"crawl", "combos", "special", "gate", "quizzes", "decks", "classify"}
  BY DEF Stages
<1>2. /\ Stages["crawl"] = {"crawl", "prune"}
      /\ Stages["combos"] = {"combos", "comboRows", "carryRows"}
      /\ Stages["special"] = {"special"}
      /\ Stages["gate"] = {"gate"}
      /\ Stages["quizzes"] = {"quizzes", "carries", "variant"}
      /\ Stages["decks"] = {"decks", "deckQuizzes"}
      /\ Stages["classify"] = {"classify"}
  BY DEF Stages
<1> QED
  BY <1>1, <1>2

(* Where a failed program leaves the scheduler. *)
LEMMA FailureLeads ==
  ASSUME NEW program \in DOMAIN Stages, NEW stage \in Stages[program]
  PROVE  /\ AfterFailure(program) \in {"sleep", "special", "gate", "decks", "classify"}
         /\ AfterFailure(program) = "gate" => aggOk
         /\ AfterFailure(program) \notin {"sleep", "crawl"} => stage \notin {"sleep", "crawl"}
         /\ stage = "gate" => AfterFailure(program) = "sleep"
BY StagesAre DEF Stages, AfterFailure, AfterSpecial, AfterDecks

LEMMA ServedType ==
  ASSUME DOMAIN patchVersions \subseteq Patches
  PROVE  CurrentPatchInfo(patchVersions) \subseteq Patches \cup {NoPatch}
BY DEF CurrentPatchInfo, Answers, Newest

(* What TypeOK says of the tables. *)
TablesType ==
  /\ rawMatches \subseteq Match
  /\ DOMAIN patchVersions \subseteq Patches
  /\ \A p \in DOMAIN patchVersions : patchVersions[p] \in PatchRow
  /\ comboStats \in [Patches -> [Carry -> [Combo -> Nat]]]
  /\ carryStats \in [Patches -> [Carry -> [total : Nat, three : Nat]]]
  /\ quizzes \in [QuizKeys -> [Combo -> Nat]]
  /\ deckStats \in [Patches -> SUBSET Match] /\ deckQuizzes \in [Patches -> SUBSET Match]
  /\ specialItems \in Nat
  /\ specialStats \in [Patches -> [matches : SUBSET Match, items : Nat]]

(* What it says of the scheduler, its program and the world. *)
SchedulerType ==
  /\ pc \in {"sleep"} \cup UNION {Stages[program] : program \in DOMAIN Stages}
  /\ cycle \in 0 .. RegenEvery - 1 /\ aggOk \in BOOLEAN /\ specialOk \in BOOLEAN
  /\ target \in Patches \cup {NoPatch} /\ loaded \subseteq Match
  /\ todo \subseteq Carry \cup Carry \X Combo /\ cur \in Carry \cup {NoCarry}
  /\ picks \in [Combo -> Nat]
  /\ release \in Nat /\ image \in Images /\ faults \in Nat
  /\ pc \in {"sleep", "special", "gate", "classify"} =>
       target = NoPatch /\ loaded = {} /\ todo = {} /\ cur = NoCarry /\ picks = NoPicks

(* Quizzes are made of the rows of a patch.                                 *)
MakingType == pc \in {"carries", "variant"} => target \in Patches

TypeInv == TablesType /\ SchedulerType /\ MakingType

LEMMA TypeParts == TypeInv <=> TypeOK /\ MakingType
BY DEF TypeInv, TypeOK, TablesType, SchedulerType

LEMMA TablesStep == ASSUME TypeInv, [Next]_vars PROVE TablesType'
<1> USE DEF TypeInv, TablesType
<1>1. CASE UNCHANGED <<store, combos, quizzes, decks, special>>
  BY <1>1 DEF store, combos, decks, special
<1>2. ASSUME NEW m \in Match, CrawlStores(m) PROVE TablesType'
  BY <1>2 DEF CrawlStores, combos, decks, special
<1>3. CASE CrawlRecounts
  <2>1. patchVersions' = Reconciled(patchVersions, rawMatches) /\ UNCHANGED <<rawMatches, combos, quizzes, decks, special>>
    BY <1>3 DEF CrawlRecounts
  <2>2. /\ DOMAIN patchVersions' \subseteq Patches
        /\ \A p \in DOMAIN patchVersions' : patchVersions'[p] \in PatchRow
    BY <2>1, ReconciledType
  <2> QED
    BY <2>1, <2>2 DEF combos, decks, special
<1>4. ASSUME NEW p \in Patches, CrawlPrunes(p) PROVE TablesType'
  BY <1>4 DEF CrawlPrunes, combos, decks, special
<1>5. CASE LoadMatches
  <2>1. comboStats' = [comboStats EXCEPT ![target'] = NoPickRows]
    BY <1>5 DEF LoadMatches, Cleared
  <2>2. NoPickRows \in [Carry -> [Combo -> Nat]]
    BY DEF NoPickRows, NoPicks
  <2>3. comboStats' \in [Patches -> [Carry -> [Combo -> Nat]]]
    BY <2>1, <2>2
  <2> QED
    BY <1>5, <2>3 DEF LoadMatches, store, decks, special
<1>6. ASSUME NEW c \in Carry, NEW o \in Combo, InsertComboRow(c, o) PROVE TablesType'
  <2>1. comboStats' = [comboStats EXCEPT ![target][c][o] = @ + Picks(c, loaded)[o]]
    BY <1>6 DEF InsertComboRow
  <2>2. Picks(c, loaded) \in [Combo -> Nat]
    BY PicksType DEF SchedulerType
  <2>3. ASSUME target \in Patches PROVE comboStats' \in [Patches -> [Carry -> [Combo -> Nat]]]
    <3> DEFINE n == comboStats[target][c][o] + Picks(c, loaded)[o]
               row == [comboStats[target][c] EXCEPT ![o] = n]
               rows == [comboStats[target] EXCEPT ![c] = row]
    <3>1. comboStats[target] \in [Carry -> [Combo -> Nat]] /\ comboStats[target][c] \in [Combo -> Nat]
      BY <2>3
    <3>2. n \in Nat
      BY <2>2, <3>1
    <3>3. comboStats' = [comboStats EXCEPT ![target] = rows]
      BY <2>1
    <3> HIDE DEF n
    <3>4. row \in [Combo -> Nat]
      BY <3>1, <3>2
    <3> HIDE DEF row
    <3>5. rows \in [Carry -> [Combo -> Nat]]
      BY <3>1, <3>4
    <3> HIDE DEF rows
    <3> QED
      BY <3>3, <3>5
  <2>4. ASSUME target \notin Patches PROVE comboStats' = comboStats
    BY <2>1, <2>4
  <2>5. comboStats' \in [Patches -> [Carry -> [Combo -> Nat]]]
    BY <2>3, <2>4
  <2> QED
    BY <1>6, <2>5 DEF InsertComboRow, store, decks, special
<1>7. CASE ClearCarryRows
  <2>1. carryStats' = [carryStats EXCEPT ![target] = NoCarryRows]
    BY <1>7 DEF ClearCarryRows, Cleared
  <2>2. NoCarryRows \in [Carry -> [total : Nat, three : Nat]]
    BY DEF NoCarryRows, NoRow
  <2>3. carryStats' \in [Patches -> [Carry -> [total : Nat, three : Nat]]]
    BY <2>1, <2>2
  <2> QED
    BY <1>7, <2>3 DEF ClearCarryRows, store, decks, special
<1>8. ASSUME NEW c \in Carry, InsertCarryRow(c) PROVE TablesType'
  <2>1. carryStats' = [carryStats EXCEPT ![target][c] = CarryRow(c, loaded)]
    BY <1>8 DEF InsertCarryRow
  <2>2. CarryRow(c, loaded) \in [total : Nat, three : Nat]
    BY PicksType DEF SchedulerType
  <2>3. carryStats' \in [Patches -> [Carry -> [total : Nat, three : Nat]]]
    BY <2>1, <2>2
  <2> QED
    BY <1>8, <2>3 DEF InsertCarryRow, store, decks, special
<1>9. CASE AggregateSpecial
  <2>1. PICK t \in CurrentPatchInfo(patchVersions) :
          specialStats' =
            IF t = NoPatch THEN specialStats
            ELSE [specialStats EXCEPT ![t] = [matches |-> RowsOf(rawMatches, t), items |-> specialItems]]
    BY <1>9 DEF AggregateSpecial
  <2>2. [matches |-> RowsOf(rawMatches, t), items |-> specialItems] \in [matches : SUBSET Match, items : Nat]
    BY DEF RowsOf
  <2>3. specialStats' \in [Patches -> [matches : SUBSET Match, items : Nat]]
    BY <2>1, <2>2
  <2> QED
    BY <1>9, <2>3 DEF AggregateSpecial, store, combos, decks
<1>10. ASSUME NEW c \in Carry, MakeMain(c) PROVE TablesType'
  <2>1. /\ pc = "carries" /\ picks' = Listed(comboStats[target][c])
        /\ quizzes' = [quizzes EXCEPT ![<<target, c, "main">>] = picks']
    BY <1>10 DEF MakeMain
  <2>2. comboStats[target][c] \in [Combo -> Nat]
    BY <2>1 DEF MakingType
  <2>3. picks' \in [Combo -> Nat]
    BY <2>1, <2>2, ListedType
  <2>4. quizzes' \in [QuizKeys -> [Combo -> Nat]]
    BY <2>1, <2>3
  <2> QED
    BY <1>10, <2>4 DEF MakeMain, store, combos, decks, special
<1>11. CASE MakeVariant
  <2>1. quizzes' = [quizzes EXCEPT ![<<target, cur, "variant">>] = picks]
    BY <1>11 DEF MakeVariant
  <2>2. quizzes' \in [QuizKeys -> [Combo -> Nat]]
    BY <2>1 DEF SchedulerType
  <2> QED
    BY <1>11, <2>2 DEF MakeVariant, store, combos, decks, special
<1>12. CASE WriteDeckStats
  <2>1. PICK t \in CurrentPatchInfo(patchVersions) :
          IF t = NoPatch THEN UNCHANGED deckStats
          ELSE deckStats' = [deckStats EXCEPT ![t] = RowsOf(rawMatches, t)]
    BY <1>12 DEF WriteDeckStats
  <2>2. deckStats' \in [Patches -> SUBSET Match]
    BY <2>1 DEF RowsOf
  <2> QED
    BY <1>12, <2>2 DEF WriteDeckStats, store, combos, special
<1>13. CASE WriteDeckQuizzes
  <2>1. deckQuizzes' \in [Patches -> SUBSET Match]
    BY <1>13 DEF WriteDeckQuizzes, SchedulerType
  <2> QED
    BY <1>13, <2>1 DEF WriteDeckQuizzes, store, combos, special
<1>14. CASE ClassifySpecialItems
  BY <1>14 DEF ClassifySpecialItems, store, combos, decks, SchedulerType
<1>15. ASSUME UNCHANGED <<store, combos, quizzes, decks, special>> \/
             StartCycle \/ CrawlEnds \/ NothingToAggregate \/ AggregateEnds \/ Gate \/ StartQuizzes
             \/ (\E c \in Carry : SkipCarry(c)) \/ QuizzesEnd
             \/ (\E program \in DOMAIN Stages : ProgramFails(program)) \/ Restart \/ Release
       PROVE UNCHANGED <<store, combos, quizzes, decks, special>>
  BY <1>15 DEF StartCycle, CrawlEnds, NothingToAggregate, AggregateEnds, Gate, StartQuizzes,
               SkipCarry, QuizzesEnd, ProgramFails, Restart, Release
<1>16. vars' = vars => UNCHANGED <<store, combos, quizzes, decks, special>>
  BY DEF vars, store, combos, decks, special
<1> HIDE DEF TablesType
<1> QED
  BY <1>1, <1>2, <1>3, <1>4, <1>5, <1>6, <1>7, <1>8, <1>9, <1>10, <1>11, <1>12, <1>13, <1>14,
     <1>15, <1>16 DEF Next, SchedulerStep

(* A program that ends leaves the variables of a program as they began. *)
LEMMA ExitType ==
  ASSUME NEW stage, Exit(stage)
  PROVE  /\ pc' = stage /\ target' = NoPatch /\ loaded' = {} /\ todo' = {} /\ cur' = NoCarry
         /\ picks' = NoPicks /\ picks' \in [Combo -> Nat]
         /\ pc' \notin {"carries", "variant"} \/ stage \in {"carries", "variant"}
BY DEF Exit, NoChild, NoPicks

LEMMA ChildStep == ASSUME TypeInv, [Next]_vars PROVE SchedulerType'
<1> USE StagesAre DEF TypeInv, SchedulerType
<1>1. UNCHANGED faults \/ Fault => faults' \in Nat
  BY DEF Fault
<1>2. CASE StartCycle
  <2>1. target' \in Patches \cup {NoPatch}
    BY <1>2, ServedType DEF StartCycle, TablesType
  <2>2. cycle' \in 0 .. RegenEvery - 1
    BY <1>2, PipelineAssumption DEF StartCycle
  <2> QED
    BY <1>1, <1>2, <2>1, <2>2 DEF StartCycle, NoFault
<1>3. ASSUME UNCHANGED <<pc, sched, child, release, image, faults>> PROVE SchedulerType'
  BY <1>3 DEF sched, child
<1>4. CASE CrawlRecounts
  <2>1. UNCHANGED <<sched, release, image, faults>> /\ (Exit("combos") \/ (pc' = "prune" /\ UNCHANGED child))
    BY <1>4 DEF CrawlRecounts
  <2> QED
    BY <2>1, ExitType DEF sched, child
<1>5. CASE CrawlEnds
  BY <1>1, <1>5, ExitType DEF CrawlEnds, sched, NoFault
<1>6. CASE NothingToAggregate \/ AggregateEnds
  BY <1>6, ExitType DEF NothingToAggregate, AggregateEnds
<1>7. CASE LoadMatches
  <2>1. target' \in Patches \cup {NoPatch}
    BY <1>7, ServedType DEF LoadMatches, TablesType
  <2>2. loaded' \subseteq Match
    BY <1>7 DEF LoadMatches, TablesType, RowsOf
  <2>3. todo' \subseteq Carry \X Combo
    <3>1. todo' = UNION {Built[m] : m \in loaded'}
      BY <1>7 DEF LoadMatches
    <3>2. \A m \in loaded' : Built[m] \subseteq Carry \X Combo
      BY <2>2, CarryAssumption
    <3> QED
      BY <3>1, <3>2
  <2> QED
    BY <1>7, <2>1, <2>2, <2>3 DEF LoadMatches, sched
<1>8. ASSUME NEW c \in Carry, NEW o \in Combo, InsertComboRow(c, o) PROVE SchedulerType'
  BY <1>8 DEF InsertComboRow, sched
<1>9. CASE ClearCarryRows
  BY <1>9 DEF ClearCarryRows, sched
<1>10. ASSUME NEW c \in Carry, InsertCarryRow(c) \/ SkipCarry(c) PROVE SchedulerType'
  BY <1>10 DEF InsertCarryRow, SkipCarry, sched
<1>11. CASE AggregateSpecial
  <2>1. AfterSpecial \in {"gate", "sleep"}
    BY DEF AfterSpecial
  <2>2. /\ UNCHANGED <<cycle, aggOk, release, image, faults>> /\ specialOk' = TRUE
        /\ Exit(AfterSpecial)
    BY <1>11 DEF AggregateSpecial
  <2> QED
    BY <2>1, <2>2, ExitType
<1>12. CASE Gate
  <2>1. pc = "gate" /\ pc' \in {"quizzes", "sleep"} /\ UNCHANGED <<sched, child, release, image, faults>>
    BY <1>12 DEF Gate
  <2> QED
    BY <2>1 DEF sched, child
<1>13. CASE StartQuizzes
  <2>1. PICK t \in CurrentPatchInfo(patchVersions), count \in CurrentPatchMatchCount(patchVersions) :
          IF t = NoPatch THEN Exit("decks")
          ELSE /\ target' = t
               /\ todo' = {c \in Carry : IsCandidate(carryStats[t][c], count)}
               /\ pc' = "carries"
               /\ UNCHANGED <<loaded, cur, picks>>
    BY <1>13 DEF StartQuizzes
  <2>2. UNCHANGED <<sched, release, image, faults>>
    BY <1>13 DEF StartQuizzes
  <2>3. CASE t = NoPatch
    BY <2>1, <2>2, <2>3, ExitType DEF sched
  <2>4. CASE t # NoPatch
    <3>1. target' \in Patches /\ todo' \subseteq Carry
      BY <2>1, <2>4, ServedType DEF TablesType
    <3> QED
      BY <2>1, <2>2, <2>4, <3>1 DEF sched
  <2> QED
    BY <2>3, <2>4
<1>14. ASSUME NEW c \in Carry, MakeMain(c) PROVE SchedulerType'
  <2>1. /\ picks' = Listed(comboStats[target][c]) /\ EnoughCombos(picks') /\ IsNext(c)
        /\ todo' = todo \ {c} /\ cur' = c /\ pc' = "variant"
        /\ UNCHANGED <<sched, target, loaded, release, image, faults>>
    BY <1>14 DEF MakeMain
  <2>2. picks' \in [Combo -> Nat]
    <3>1. pc = "carries"
      BY <1>14 DEF MakeMain
    <3>2. comboStats[target][c] \in [Combo -> Nat]
      BY <3>1 DEF MakingType, TablesType
    <3> QED
      BY <2>1, <3>2, ListedType
  <2> QED
    BY <2>1, <2>2 DEF sched
<1>15. CASE MakeVariant
  <2>1. NoPicks \in [Combo -> Nat]
    BY DEF NoPicks
  <2> QED
    BY <1>15, <2>1 DEF MakeVariant, sched
<1>16. CASE QuizzesEnd
  BY <1>16, ExitType DEF QuizzesEnd, sched
<1>17. CASE WriteDeckStats
  <2>1. PICK t \in CurrentPatchInfo(patchVersions) :
          IF t = NoPatch THEN Exit(AfterDecks)
          ELSE /\ target' = t /\ loaded' = RowsOf(rawMatches, t)
               /\ pc' = "deckQuizzes"
               /\ UNCHANGED <<todo, cur, picks>>
    BY <1>17 DEF WriteDeckStats
  <2>2. UNCHANGED <<sched, release, image, faults>>
    BY <1>17 DEF WriteDeckStats
  <2>3. CASE t = NoPatch
    <3>1. AfterDecks \in {"classify", "sleep"}
      BY DEF AfterDecks
    <3> QED
      BY <2>1, <2>2, <2>3, <3>1, ExitType DEF sched
  <2>4. CASE t # NoPatch
    <3>1. target' \in Patches /\ loaded' \subseteq Match
      BY <2>1, <2>4, ServedType DEF TablesType, RowsOf
    <3> QED
      BY <2>1, <2>2, <2>4, <3>1 DEF sched
  <2> QED
    BY <2>3, <2>4
<1>18. CASE WriteDeckQuizzes
  <2>1. AfterDecks \in {"classify", "sleep"}
    BY DEF AfterDecks
  <2> QED
    BY <1>18, <2>1, ExitType DEF WriteDeckQuizzes, sched
<1>19. CASE ClassifySpecialItems
  BY <1>19, ExitType DEF ClassifySpecialItems, sched
<1>20. ASSUME NEW program \in DOMAIN Stages, ProgramFails(program) PROVE SchedulerType'
  <2>1. /\ pc \in Stages[program] /\ UNCHANGED <<sched, release, image>> /\ (UNCHANGED faults \/ Fault)
        /\ Exit(AfterFailure(program))
    BY <1>20 DEF ProgramFails, NoFault
  <2>2. AfterFailure(program) \in {"sleep", "special", "gate", "decks", "classify"}
    BY <2>1, FailureLeads
  <2> QED
    BY <1>1, <2>1, <2>2, ExitType DEF sched
<1>21. CASE Restart
  <2>1. /\ Fault /\ cycle' = 0 /\ aggOk' = FALSE /\ specialOk' = FALSE /\ UNCHANGED <<release, image>>
        /\ Exit("sleep")
    BY <1>21 DEF Restart
  <2>2. cycle' \in 0 .. RegenEvery - 1
    BY <2>1, PipelineAssumption
  <2> QED
    BY <1>1, <2>1, <2>2, ExitType
<1>22. CASE Release
  BY <1>22 DEF Release, sched, child
<1>23. ASSUME (\E m \in Match : CrawlStores(m)) \/ (\E p \in Patches : CrawlPrunes(p))
       PROVE  UNCHANGED <<pc, sched, child, release, image, faults>>
  BY <1>23 DEF CrawlStores, CrawlPrunes
<1>24. vars' = vars => UNCHANGED <<pc, sched, child, release, image, faults>>
  BY DEF vars, sched, child
<1> HIDE DEF SchedulerType
<1> QED
  BY <1>2, <1>3, <1>4, <1>5, <1>6, <1>7, <1>8, <1>9, <1>10, <1>11, <1>12, <1>13, <1>14, <1>15,
     <1>16, <1>17, <1>18, <1>19, <1>20, <1>21, <1>22, <1>23, <1>24 DEF Next, SchedulerStep

LEMMA MakingStep == ASSUME TypeInv, [Next]_vars PROVE MakingType'
<1> USE DEF TypeInv, MakingType
<1>1. CASE UNCHANGED <<pc, target>>
  BY <1>1
<1>2. ASSUME pc' \notin {"carries", "variant"} PROVE MakingType'
  BY <1>2
<1>3. CASE StartQuizzes
  BY <1>3, ServedType DEF StartQuizzes, Exit, TablesType
<1>4. ASSUME NEW c \in Carry, MakeMain(c) PROVE MakingType'
  BY <1>4 DEF MakeMain
<1>5. CASE MakeVariant
  BY <1>5 DEF MakeVariant
<1>6. ASSUME NEW stage, Exit(stage) PROVE pc' = stage
  BY <1>6 DEF Exit
<1>7. AfterSpecial \in {"gate", "sleep"} /\ AfterDecks \in {"classify", "sleep"}
  BY DEF AfterSpecial, AfterDecks
<1>8. CASE \/ StartCycle \/ CrawlRecounts \/ CrawlEnds \/ NothingToAggregate \/ LoadMatches
           \/ ClearCarryRows \/ AggregateEnds \/ AggregateSpecial \/ Gate \/ QuizzesEnd
           \/ WriteDeckStats \/ WriteDeckQuizzes \/ ClassifySpecialItems \/ Restart
  BY <1>1, <1>2, <1>6, <1>7, <1>8
  DEF StartCycle, CrawlRecounts, CrawlEnds, NothingToAggregate, LoadMatches, ClearCarryRows,
      AggregateEnds, AggregateSpecial, Gate, QuizzesEnd, WriteDeckStats, WriteDeckQuizzes,
      ClassifySpecialItems, Restart
<1>9. ASSUME NEW program \in DOMAIN Stages, ProgramFails(program) PROVE MakingType'
  BY <1>2, <1>6, <1>9, FailureLeads DEF ProgramFails
<1>10. ASSUME \/ \E m \in Match : CrawlStores(m)
              \/ \E p \in Patches : CrawlPrunes(p)
              \/ \E c \in Carry : InsertCarryRow(c) \/ \E o \in Combo : InsertComboRow(c, o)
              \/ \E c \in Carry : SkipCarry(c)
              \/ Release \/ vars' = vars
       PROVE  UNCHANGED <<pc, target>>
  BY <1>10 DEF CrawlStores, CrawlPrunes, InsertCarryRow, InsertComboRow, SkipCarry, Release, vars, child
<1> QED
  BY <1>1, <1>3, <1>4, <1>5, <1>8, <1>9, <1>10 DEF Next, SchedulerStep

(* For any patches, carries, combinations, thresholds, failures and         *)
(* restarts every table and variable of the pipeline has its type, and when *)
(* no program runs nothing of one is left.                                  *)
THEOREM TypeCorrect == Spec => []TypeOK
<1>1. Init => TypeInv
  BY InitType, TypeParts DEF Init, MakingType
<1>2. TypeInv /\ [Next]_vars => TypeInv'
  BY TablesStep, ChildStep, MakingStep DEF TypeInv
<1>3. TypeInv => TypeOK
  BY TypeParts
<1> QED
  BY <1>1, <1>2, <1>3, PTL DEF Spec

----------------------------------------------------------------------------
(* The patch being served, and the threshold of the regeneration *)

(* Under NewerPlayedLater one patch is the newest. *)
LEMMA OneNewest ==
  ASSUME NewerPlayedLater, NEW pv, TableOK(pv), NEW n, NEW p \in Newest(pv, n), NEW q \in Newest(pv, n)
  PROVE  p = q
<1>1. /\ p \in DOMAIN pv /\ q \in DOMAIN pv /\ p \in Patches /\ q \in Patches
      /\ pv[p].earliest <= pv[q].earliest /\ pv[q].earliest <= pv[p].earliest
  BY DEF Newest, TableOK
<1>2. pv[p].earliest \in Nat /\ pv[q].earliest \in Nat
  BY <1>1 DEF TableOK, PatchRow
<1>3. ~PatchLt(p, q) /\ ~PatchLt(q, p)
  BY <1>1, <1>2, RowsInOrder DEF TableOK
<1> QED
  BY <1>1, <1>3, PatchesCompare

(* current_patch_match_count asks for no threshold: but a count above the   *)
(* one of the regeneration is that of the patch being served.               *)
LEMMA EnoughIsServed ==
  ASSUME NewerPlayedLater, NEW pv, TableOK(pv), NEW count \in CurrentPatchMatchCount(pv),
         count >= MinRegen
  PROVE  /\ \A t \in CurrentPatchInfo(pv) : t # NoPatch /\ pv[t].count = count
         /\ \A other \in CurrentPatchMatchCount(pv) : other = count
<1>1. MinRegen > 0 /\ MinRegen \in Nat
  BY PolicyAssumption, PatchAssumption
<1>2. PICK p \in Newest(pv, 0) : count = pv[p].count
  <2>1. count # 0
    BY <1>1
  <2> QED
    BY <2>1 DEF CurrentPatchMatchCount, Answers
<1>3. p \in DOMAIN pv /\ p \in Patches /\ p # NoPatch /\ pv[p].count \in Nat
  BY PatchIsPair DEF Newest, TableOK, PatchRow
<1>4. p \in Newest(pv, MinPatchMatches)
  <2>1. pv[p].count >= MinPatchMatches
    BY <1>2, <1>3, PolicyAssumption, PatchAssumption
  <2>2. ASSUME NEW q \in DOMAIN pv PROVE pv[q].earliest <= pv[p].earliest
    <3>1. pv[q].count >= 0
      BY DEF TableOK, PatchRow
    <3> QED
      BY <3>1 DEF Newest
  <2> QED
    BY <1>3, <2>1, <2>2 DEF Newest
<1>5. p \in CurrentPatchInfo(pv)
  BY <1>4 DEF CurrentPatchInfo, Answers
<1>6. \A t \in CurrentPatchInfo(pv) : t = p
  BY <1>5, OneServed
<1>7. ASSUME NEW other \in CurrentPatchMatchCount(pv) PROVE other = count
  <2>1. PICK q \in Newest(pv, 0) : other = pv[q].count
    BY DEF CurrentPatchMatchCount, Answers
  <2>2. q = p
    BY OneNewest
  <2> QED
    BY <1>2, <2>1, <2>2
<1> QED
  BY <1>2, <1>3, <1>6, <1>7

----------------------------------------------------------------------------
(***************************************************************************)
(* The inductive invariant: what each stage of a cycle may rely on.        *)
(***************************************************************************)

Served == CurrentPatchInfo(patchVersions)
Rows(p) == RowsOf(rawMatches, p)

Crawling == pc \in {"crawl", "prune"}
Aggregating == pc \in {"comboRows", "carryRows"}
Making == pc \in {"carries", "variant"}

(* Every row goes back to a match, the counts of patches still to be served *)
(* are of matches that are there, and the crawler's target is not newer     *)
(* than the patch being served.                                             *)
StoreInv ==
  /\ RowsPlayed(patchVersions) /\ Backed(patchVersions, rawMatches)
  /\ pc = "prune" => target # NoPatch
  /\ Crawling /\ target # NoPatch => \A t \in Served : t # NoPatch /\ ~PatchLt(t, target)

(* After the recount of a cycle the count of the served patch is exact.     *)
CountInv ==
  pc \notin {"sleep", "crawl"} =>
    \A t \in Served : t # NoPatch => patchVersions[t].count = Cardinality(Rows(t))

(* A half-written table holds, of the patch being served, the rows that are *)
(* not left to do and no other.                                             *)
ComboRowsInv ==
  pc = "comboRows" =>
    \A c \in Carry : \A o \in Combo :
      comboStats[target][c][o] = IF <<c, o>> \in todo THEN 0 ELSE Picks(c, loaded)[o]

CarryRowsInv ==
  pc = "carryRows" =>
    \A c \in Carry :
      /\ comboStats[target][c] = Picks(c, loaded)
      /\ carryStats[target][c] = IF c \in todo THEN NoRow ELSE CarryRow(c, loaded)

LoadedInv == Aggregating => target \in Served \ {NoPatch} /\ loaded = Rows(target)

(* The statistics of a patch, complete and exact. *)
Exact(t) ==
  \A c \in Carry : comboStats[t][c] = Picks(c, Rows(t)) /\ carryStats[t][c] = CarryRow(c, Rows(t))

(* What the scheduler's flag tells. *)
FlagInv ==
  /\ Crawling \/ pc = "combos" \/ Aggregating => ~aggOk
  /\ pc \in {"gate", "quizzes"} \/ Making => aggOk
  /\ aggOk => \A t \in Served : t # NoPatch => Exact(t)

(* Quizzes are made of the patch being served, with enough matches, and of  *)
(* the carries its matches make candidates.                                 *)
QuizInv ==
  /\ pc = "quizzes" \/ Making =>
       \A count \in CurrentPatchMatchCount(patchVersions) : count >= MinRegen
  /\ Making =>
       /\ target \in Served \ {NoPatch}
       /\ \A c \in todo : c \in Carry /\ IsCandidate(CarryRow(c, Rows(target)), Cardinality(Rows(target)))
  /\ pc = "variant" =>
       cur \in Carry /\ HasQuiz(cur, Rows(target)) /\ picks = Listed(Picks(cur, Rows(target)))

(* The picks behind a quiz of a patch still to be served are there.         *)
BasisInv ==
  \A k \in QuizKeys : ~Surpassed(patchVersions, k[1]) =>
    \A o \in Combo : quizzes[k][o] <= Listed(Picks(k[2], Rows(k[1])))[o]

PInv ==
  /\ TypeInv /\ StoreInv /\ CountInv /\ LoadedInv /\ ComboRowsInv /\ CarryRowsInv
  /\ FlagInv /\ QuizInv /\ BasisInv

----------------------------------------------------------------------------
(* Steps that leave a part alone *)

(* The steps that only go on to another stage: what each stage may rely on  *)
(* is known where they come from.                                           *)
Quiet ==
  /\ UNCHANGED <<store, combos, quizzes>>
  /\ pc' \notin {"crawl", "prune", "comboRows", "carryRows", "quizzes", "carries", "variant"}
     \/ UNCHANGED <<pc, target, loaded, todo, cur, picks, aggOk>>
  /\ pc' \in {"sleep", "crawl"} \/ pc \notin {"sleep", "crawl"}
  /\ pc' = "combos" => UNCHANGED aggOk /\ pc \in {"prune", "combos"}
  /\ pc' = "gate" => aggOk \/ UNCHANGED pc
  /\ aggOk' = aggOk \/ (aggOk' = FALSE /\ pc' = "sleep")

LEMMA QuietSteps ==
  ASSUME TypeInv, [Next]_vars
  PROVE  \/ Quiet
         \/ StartCycle
         \/ \E m \in Match : CrawlStores(m)
         \/ CrawlRecounts \/ (\E p \in Patches : CrawlPrunes(p))
         \/ NothingToAggregate \/ LoadMatches \/ ClearCarryRows \/ AggregateEnds
         \/ (\E c \in Carry : InsertCarryRow(c) \/ \E o \in Combo : InsertComboRow(c, o))
         \/ Gate \/ StartQuizzes \/ MakeVariant
         \/ \E c \in Carry : SkipCarry(c) \/ MakeMain(c)
<1>1. ASSUME NEW stage, Exit(stage) PROVE pc' = stage
  BY <1>1 DEF Exit
<1>2. AfterSpecial \in {"gate", "sleep"} /\ AfterDecks \in {"classify", "sleep"} /\ (AfterSpecial = "gate" => aggOk)
  BY DEF AfterSpecial, AfterDecks
<1>3. CrawlEnds => Quiet
  BY <1>1 DEF CrawlEnds, sched, Quiet
<1>4. AggregateSpecial => Quiet
  BY <1>1, <1>2 DEF AggregateSpecial, At, Quiet
<1>5. QuizzesEnd \/ WriteDeckQuizzes \/ ClassifySpecialItems => Quiet
  BY <1>1, <1>2 DEF QuizzesEnd, WriteDeckQuizzes, ClassifySpecialItems, At, sched, Quiet
<1>6. WriteDeckStats => Quiet
  BY <1>1, <1>2 DEF WriteDeckStats, At, sched, Quiet
<1>7. ASSUME NEW program \in DOMAIN Stages, ProgramFails(program) PROVE Quiet
  BY <1>1, <1>7, FailureLeads DEF ProgramFails, sched, Quiet
<1>8. Restart => Quiet
  BY <1>1 DEF Restart, Quiet
<1>9. Release \/ vars' = vars => Quiet
  BY DEF Release, vars, store, combos, sched, child, Quiet, TypeInv, SchedulerType
<1> QED
  BY <1>3, <1>4, <1>5, <1>6, <1>7, <1>8, <1>9 DEF Next, SchedulerStep

(* What a step needs to leave alone for a part of the invariant to stand.   *)
LEMMA StoreKept ==
  ASSUME StoreInv, UNCHANGED store, pc' \notin {"crawl", "prune"} \/ UNCHANGED <<pc, target>>
  PROVE  StoreInv'
BY DEF StoreInv, store, Crawling, Served

LEMMA CountKept ==
  ASSUME CountInv, UNCHANGED store, pc' \in {"sleep", "crawl"} \/ pc \notin {"sleep", "crawl"}
  PROVE  CountInv'
BY DEF CountInv, store, Served, Rows

LEMMA ExactKept ==
  ASSUME UNCHANGED <<store, combos>>, NEW t, Exact(t)
  PROVE  Exact(t)'
BY DEF Exact, Rows, store, combos

LEMMA FlagKept ==
  ASSUME FlagInv, UNCHANGED <<store, combos>>, aggOk' => aggOk
  PROVE  aggOk' => \A t \in Served' : t # NoPatch => Exact(t)'
<1>1. Served' = Served
  BY DEF Served, store
<1>2. \A t \in Served : Exact(t) => Exact(t)'
  BY ExactKept
<1> QED
  BY <1>1, <1>2 DEF FlagInv

LEMMA BasisKept ==
  ASSUME BasisInv, UNCHANGED <<store, quizzes>>
  PROVE  BasisInv'
BY DEF BasisInv, store, Rows

LEMMA QuizKept ==
  ASSUME QuizInv, UNCHANGED store,
         pc' \notin {"quizzes", "carries", "variant"} \/ UNCHANGED <<pc, target, todo, cur, picks>>
  PROVE  QuizInv'
BY DEF QuizInv, Making, Served, Rows, store

(* Outside of the aggregation nothing is known of its rows. *)
LEMMA RowsKept ==
  ASSUME LoadedInv, ComboRowsInv, CarryRowsInv,
         \/ pc' \notin {"comboRows", "carryRows"}
         \/ UNCHANGED <<store, combos, pc, target, loaded, todo>>
  PROVE  LoadedInv' /\ ComboRowsInv' /\ CarryRowsInv'
<1>1. LoadedInv'
  BY DEF LoadedInv, Aggregating, Served, Rows, store
<1>2. ComboRowsInv'
  BY DEF ComboRowsInv, combos
<1>3. CarryRowsInv'
  BY DEF CarryRowsInv, combos
<1> QED
  BY <1>1, <1>2, <1>3

LEMMA QuietKeeps ==
  ASSUME PInv, Quiet, TypeInv'
  PROVE  PInv'
<1> USE DEF PInv
<1>1. StoreInv'
  BY StoreKept DEF Quiet
<1>2. CountInv'
  BY CountKept DEF Quiet
<1>3. LoadedInv' /\ ComboRowsInv' /\ CarryRowsInv'
  BY RowsKept DEF Quiet
<1>4. FlagInv'
  <2>1. aggOk' => aggOk
    BY DEF Quiet
  <2>2. aggOk' => \A t \in Served' : t # NoPatch => Exact(t)'
    BY <2>1, FlagKept DEF Quiet
  <2>3. (Crawling \/ pc = "combos" \/ Aggregating)' => ~aggOk'
    BY DEF Quiet, FlagInv, Crawling, Aggregating
  <2>4. (pc \in {"gate", "quizzes"} \/ Making)' => aggOk'
    BY DEF Quiet, FlagInv, Making
  <2> QED
    BY <2>2, <2>3, <2>4 DEF FlagInv
<1>5. QuizInv'
  BY QuizKept DEF Quiet
<1>6. BasisInv'
  BY BasisKept DEF Quiet
<1> QED
  BY <1>1, <1>2, <1>3, <1>4, <1>5, <1>6

----------------------------------------------------------------------------
(* The crawler's steps *)

LEMMA TableIsOK == ASSUME TypeInv, StoreInv PROVE TableOK(patchVersions) /\ rawMatches \in SUBSET Match
BY DEF TypeInv, TablesType, StoreInv, TableOK

(* Before the aggregation there is nothing to keep of its flags and rows.   *)
LEMMA EarlyKeeps ==
  ASSUME pc' \in {"crawl", "prune", "combos"}, ~aggOk'
  PROVE  LoadedInv' /\ ComboRowsInv' /\ CarryRowsInv' /\ FlagInv' /\ QuizInv'
BY DEF LoadedInv, ComboRowsInv, CarryRowsInv, FlagInv, QuizInv, Crawling, Aggregating, Making

LEMMA StartKeeps ==
  ASSUME NewerPlayedLater, PInv, StartCycle, TypeInv'
  PROVE  PInv'
<1> USE DEF PInv
<1>1. pc' = "crawl" /\ aggOk' = FALSE /\ UNCHANGED <<store, combos, quizzes>>
  BY DEF StartCycle
<1>2. StoreInv'
  <2>1. TableOK(patchVersions)
    BY TableIsOK
  <2>2. ASSUME target' # NoPatch, NEW t \in Served PROVE t # NoPatch /\ ~PatchLt(t, target')
    <3>1. target' \in Served
      BY <2>2 DEF StartCycle, Served
    <3>2. t = target'
      BY <2>1, <3>1, OneServed DEF Served
    <3>3. t \in Patches
      BY <2>1, <2>2, <3>2, ServedIs DEF Served, TableOK
    <3> QED
      BY <2>2, <3>2, <3>3, PatchOrder
  <2> QED
    BY <1>1, <2>2 DEF StoreInv, store, Served, Crawling
<1>3. CountInv'
  BY <1>1 DEF CountInv
<1>4. BasisInv'
  BY <1>1, BasisKept
<1> QED
  BY <1>1, <1>2, <1>3, <1>4, EarlyKeeps

LEMMA StoresKeeps ==
  ASSUME NewerPlayedLater, PInv, NEW m \in Match, CrawlStores(m), TypeInv'
  PROVE  PInv'
<1> USE DEF PInv
<1>1. /\ pc = "crawl" /\ pc' = pc /\ target' = target /\ aggOk' = aggOk
      /\ rawMatches' = rawMatches \cup {m} /\ patchVersions' = patchVersions /\ quizzes' = quizzes
  BY DEF CrawlStores, At, sched, child
<1>2. /\ TableOK(patchVersions) /\ rawMatches \in SUBSET Match /\ rawMatches' \in SUBSET Match
      /\ rawMatches \subseteq rawMatches'
  BY <1>1, TableIsOK
<1>3. StoreInv'
  <2>1. Backed(patchVersions, rawMatches')
    BY <1>2, BackedMore DEF StoreInv
  <2> QED
    BY <1>1, <2>1 DEF StoreInv, Crawling, Served
<1>4. CountInv'
  BY <1>1 DEF CountInv
<1>5. BasisInv'
  <2> SUFFICES ASSUME NEW k \in QuizKeys, ~Surpassed(patchVersions, k[1]), NEW o \in Combo
               PROVE  quizzes[k][o] <= Listed(Picks(k[2], RowsOf(rawMatches', k[1])))[o]
    BY <1>1 DEF BasisInv, Rows
  <2> DEFINE before == Listed(Picks(k[2], RowsOf(rawMatches, k[1])))[o]
             after == Listed(Picks(k[2], RowsOf(rawMatches', k[1])))[o]
  <2>1. quizzes[k][o] <= before
    BY DEF BasisInv, Rows
  <2>2. /\ RowsOf(rawMatches, k[1]) \in SUBSET Match /\ RowsOf(rawMatches', k[1]) \in SUBSET Match
        /\ RowsOf(rawMatches, k[1]) \subseteq RowsOf(rawMatches', k[1])
    BY <1>2 DEF RowsOf
  <2>3. before <= after
    BY <2>2, MorePicks
  <2>4. before \in Nat /\ after \in Nat
    BY <2>2, PicksType, ListedType
  <2>5. quizzes[k][o] \in Nat
    BY DEF TypeInv, TablesType
  <2> HIDE DEF before, after
  <2> QED
    BY <2>1, <2>3, <2>4, <2>5 DEF after
<1>6. ~aggOk'
  BY <1>1 DEF FlagInv, Crawling
<1> QED
  BY <1>1, <1>3, <1>4, <1>5, <1>6, EarlyKeeps

LEMMA RecountsKeeps ==
  ASSUME NewerPlayedLater, PInv, CrawlRecounts, TypeInv'
  PROVE  PInv'
<1> USE DEF PInv
<1> DEFINE new == patchVersions'
<1>1. /\ pc = "crawl" /\ aggOk' = aggOk /\ rawMatches' = rawMatches /\ quizzes' = quizzes
      /\ new = Reconciled(patchVersions, rawMatches)
      /\ (pc' = "combos" \/ (pc' = "prune" /\ target # NoPatch /\ target' = target))
  BY DEF CrawlRecounts, At, sched, child, Exit
<1>2. TableOK(patchVersions) /\ rawMatches \in SUBSET Match
  BY TableIsOK
<1> HIDE DEF new
<1>3. /\ TableOK(new) /\ Backed(new, rawMatches)
      /\ \A t \in CurrentPatchInfo(patchVersions), u \in CurrentPatchInfo(new) :
           t # NoPatch => u # NoPatch /\ ~PatchLt(u, t)
      /\ \A p \in Patches : Surpassed(patchVersions, p) => Surpassed(new, p)
      /\ \A p \in DOMAIN new :
           \/ RowsOf(rawMatches, p) = {} /\ p \in DOMAIN patchVersions /\ new[p] = patchVersions[p]
           \/ RowsOf(rawMatches, p) # {} /\ new[p].count = Cardinality(RowsOf(rawMatches, p))
  BY <1>1, <1>2, Recounting DEF StoreInv
<1>4. StoreInv'
  <2>1. ASSUME pc' = "prune", NEW u \in CurrentPatchInfo(new)
        PROVE  u # NoPatch /\ ~PatchLt(u, target)
    <3>1. target # NoPatch /\ Crawling
      BY <1>1, <2>1 DEF Crawling
    <3>2. PICK t \in Served : TRUE
      BY <1>2, ServedIs DEF Served, TableOK
    <3>3. t # NoPatch /\ ~PatchLt(t, target)
      BY <3>1 DEF StoreInv
    <3>4. u # NoPatch /\ ~PatchLt(u, t)
      BY <1>3, <3>3 DEF Served
    <3>5. u \in Patches /\ t \in Patches /\ target \in Patches
      <4>1. u \in Patches /\ t \in Patches
        BY <1>2, <1>3, <3>3, <3>4, ServedIs DEF Served, TableOK
      <4> QED
        BY <3>1, <4>1 DEF TypeInv, SchedulerType
    <3>6. ~PatchLt(u, target)
      BY <3>3, <3>4, <3>5, PatchOrder
    <3> QED
      BY <3>4, <3>6
  <2> QED
    BY <1>1, <1>3, <2>1 DEF StoreInv, Crawling, Served, new, TableOK
<1>5. CountInv'
  <2> SUFFICES ASSUME NEW t \in CurrentPatchInfo(new), t # NoPatch
               PROVE  new[t].count = Cardinality(RowsOf(rawMatches, t))
    BY <1>1 DEF CountInv, Served, Rows, new
  <2>1. t \in DOMAIN new /\ MinPatchMatches <= Cardinality(RowsOf(rawMatches, t))
    BY <1>2, <1>3, ServedIs, ServedBacked DEF TableOK
  <2>2. RowsOf(rawMatches, t) # {}
    BY <2>1, FS_EmptySet, PatchAssumption
  <2> QED
    BY <1>3, <2>1, <2>2
<1>6. BasisInv'
  <2>1. ASSUME NEW k \in QuizKeys, ~Surpassed(new, k[1]) PROVE ~Surpassed(patchVersions, k[1])
    <3>1. k[1] \in Patches
      BY DEF QuizKeys
    <3> QED
      BY <1>3, <2>1, <3>1
  <2> QED
    BY <1>1, <2>1 DEF BasisInv, Rows, new
<1>7. ~aggOk'
  BY <1>1 DEF FlagInv, Crawling
<1> QED
  BY <1>1, <1>4, <1>5, <1>6, <1>7, EarlyKeeps

(* A pruned patch is older than the one being served, *)
LEMMA PrunedIsSurpassed ==
  ASSUME NewerPlayedLater, PInv, NEW p \in Patches, CrawlPrunes(p)
  PROVE  Surpassed(patchVersions, p)
<1> USE DEF PInv
<1>1. TableOK(patchVersions)
  BY TableIsOK
<1>2. PICK t \in Served : TRUE
  BY <1>1, ServedIs DEF Served, TableOK
<1>3. pc = "prune" /\ target # NoPatch /\ PatchLt(p, target)
  BY DEF CrawlPrunes, OlderPatches, StoreInv
<1>4. t # NoPatch /\ ~PatchLt(t, target)
  BY <1>3 DEF StoreInv, Crawling
<1>5. t \in Patches /\ target \in Patches
  <2>1. t \in Patches
    BY <1>1, <1>4, ServedIs DEF Served, TableOK
  <2> QED
    BY <1>3, <2>1 DEF TypeInv, SchedulerType
<1>6. PatchLt(p, t)
  BY <1>3, <1>4, <1>5, PatchOrder
<1> QED
  BY <1>4, <1>6 DEF Surpassed, Served

(* so the matches of the others stay. *)
LEMMA PrunesKeeps ==
  ASSUME NewerPlayedLater, PInv, NEW p \in Patches, CrawlPrunes(p), TypeInv'
  PROVE  PInv'
<1> USE DEF PInv
<1>1. /\ pc = "prune" /\ pc' = pc /\ target' = target /\ aggOk' = aggOk
      /\ rawMatches' = rawMatches \ RowsOf(rawMatches, p)
      /\ patchVersions' = patchVersions /\ quizzes' = quizzes
  BY DEF CrawlPrunes, sched, child
<1>2. TableOK(patchVersions) /\ rawMatches \in SUBSET Match
  BY TableIsOK
<1>3. /\ Backed(patchVersions, rawMatches')
      /\ \A q : ~Surpassed(patchVersions, q) => RowsOf(rawMatches', q) = RowsOf(rawMatches, q)
  <2>1. Surpassed(patchVersions, p) /\ Backed(patchVersions, rawMatches)
    BY PrunedIsSurpassed DEF StoreInv
  <2> QED
    BY <1>1, <1>2, <2>1, BackedPruned
<1>4. StoreInv'
  BY <1>1, <1>3 DEF StoreInv, Crawling, Served
<1>5. CountInv'
  <2> SUFFICES ASSUME NEW t \in Served, t # NoPatch
               PROVE  patchVersions[t].count = Cardinality(RowsOf(rawMatches', t))
    BY <1>1 DEF CountInv, Served, Rows
  <2>1. ~Surpassed(patchVersions, t)
    BY <1>2, ServedBacked DEF Served, StoreInv
  <2> QED
    BY <1>1, <1>3, <2>1 DEF CountInv, Rows
<1>6. BasisInv'
  BY <1>1, <1>3 DEF BasisInv, Rows
<1>7. ~aggOk'
  BY <1>1 DEF FlagInv, Crawling
<1> QED
  BY <1>1, <1>4, <1>5, <1>6, <1>7, EarlyKeeps

----------------------------------------------------------------------------
(* The aggregation's steps *)

(* From one stage of the aggregation to another, or to its end. *)
LEMMA AggregationKeeps ==
  ASSUME PInv, UNCHANGED <<store, quizzes>>, pc \in {"combos", "comboRows", "carryRows"},
         pc' \in {"comboRows", "carryRows", "special"}
  PROVE  StoreInv' /\ CountInv' /\ QuizInv' /\ BasisInv' /\ Served' = Served /\ ~aggOk
<1> USE DEF PInv
<1>1. Served' = Served
  BY DEF Served, store
<1>2. ~aggOk
  BY DEF FlagInv, Crawling, Aggregating
<1> QED
  BY <1>1, <1>2, StoreKept, CountKept, QuizKept, BasisKept

LEMMA NothingKeeps ==
  ASSUME NewerPlayedLater, PInv, NothingToAggregate, TypeInv'
  PROVE  PInv'
<1> USE DEF PInv
<1>1. /\ pc = "combos" /\ pc' = "special" /\ UNCHANGED <<store, combos, quizzes>>
      /\ NoPatch \in Served
  BY DEF NothingToAggregate, At, Exit, Served
<1>2. StoreInv' /\ CountInv' /\ QuizInv' /\ BasisInv' /\ Served' = Served
  BY <1>1, AggregationKeeps
<1>3. Served = {NoPatch}
  BY <1>1, TableIsOK, ServedIs DEF Served, TableOK
<1>4. FlagInv'
  BY <1>1, <1>2, <1>3 DEF FlagInv, Crawling, Aggregating, Making, NothingToAggregate
<1>5. LoadedInv' /\ ComboRowsInv' /\ CarryRowsInv'
  BY <1>1, RowsKept
<1> QED
  BY <1>2, <1>4, <1>5

LEMMA LoadKeeps ==
  ASSUME NewerPlayedLater, PInv, LoadMatches, TypeInv'
  PROVE  PInv'
<1> USE DEF PInv
<1>1. /\ pc = "combos" /\ pc' = "comboRows" /\ aggOk' = aggOk /\ UNCHANGED <<store, quizzes>>
      /\ target' \in Served \ {NoPatch} /\ loaded' = Rows(target')
      /\ comboStats' = [comboStats EXCEPT ![target'] = NoPickRows]
      /\ todo' = UNION {Built[m] : m \in loaded'}
  BY DEF LoadMatches, At, sched, Served, Rows, Cleared
<1>2. StoreInv' /\ CountInv' /\ QuizInv' /\ BasisInv' /\ Served' = Served /\ ~aggOk
  BY <1>1, AggregationKeeps
<1>3. LoadedInv'
  BY <1>1, <1>2 DEF LoadedInv, Rows, store
<1>4. ComboRowsInv'
  <2> SUFFICES ASSUME NEW c \in Carry, NEW o \in Combo
               PROVE  comboStats'[target'][c][o]
                        = IF <<c, o>> \in todo' THEN 0 ELSE Picks(c, loaded')[o]
    BY DEF ComboRowsInv
  <2>1. target' \in Patches
    BY <1>1, TableIsOK, ServedIs DEF Served, TableOK
  <2>2. comboStats'[target'][c][o] = 0
    BY <1>1, <2>1 DEF NoPickRows, NoPicks, TypeInv, TablesType
  <2>3. loaded' \in SUBSET Match
    BY DEF TypeInv, SchedulerType
  <2>4. <<c, o>> \notin todo' => Picks(c, loaded')[o] = 0
    BY <1>1, <2>3, NothingPicked
  <2> QED
    BY <2>2, <2>4
<1>5. CarryRowsInv' /\ FlagInv'
  BY <1>1, <1>2 DEF CarryRowsInv, FlagInv, Making
<1> QED
  BY <1>2, <1>3, <1>4, <1>5

LEMMA ComboRowKeeps ==
  ASSUME NewerPlayedLater, PInv, NEW c \in Carry, NEW o \in Combo, InsertComboRow(c, o), TypeInv'
  PROVE  PInv'
<1> USE DEF PInv
<1>1. /\ pc = "comboRows" /\ pc' = pc /\ aggOk' = aggOk /\ UNCHANGED <<store, quizzes>>
      /\ target' = target /\ loaded' = loaded /\ todo' = todo \ {<<c, o>>} /\ <<c, o>> \in todo
      /\ comboStats' = [comboStats EXCEPT ![target][c][o] = @ + Picks(c, loaded)[o]]
  BY DEF InsertComboRow, sched
<1>2. StoreInv' /\ CountInv' /\ QuizInv' /\ BasisInv' /\ Served' = Served /\ ~aggOk
  BY <1>1, AggregationKeeps
<1>3. LoadedInv'
  BY <1>1, <1>2 DEF LoadedInv, Rows, store, Aggregating
<1>4. ComboRowsInv'
  <2> SUFFICES ASSUME NEW d \in Carry, NEW q \in Combo
               PROVE  comboStats'[target'][d][q]
                        = IF <<d, q>> \in todo' THEN 0 ELSE Picks(d, loaded')[q]
    BY DEF ComboRowsInv
  <2>1. target \in Patches
    BY <1>1, TableIsOK, ServedIs DEF LoadedInv, Aggregating, Served, TableOK
  <2>2. comboStats[target] \in [Carry -> [Combo -> Nat]] /\ comboStats[target][d] \in [Combo -> Nat]
    BY <2>1 DEF TypeInv, TablesType
  <2>3. \A e \in Carry : \A r \in Combo :
          comboStats[target][e][r] = IF <<e, r>> \in todo THEN 0 ELSE Picks(e, loaded)[r]
    BY <1>1 DEF ComboRowsInv
  <2>4. CASE d = c /\ q = o
    <3>1. comboStats'[target][d][q] = 0 + Picks(c, loaded)[o]
      BY <1>1, <2>1, <2>2, <2>3, <2>4 DEF TypeInv, TablesType
    <3>2. Picks(c, loaded)[o] \in Nat
      BY PicksType DEF TypeInv, SchedulerType
    <3> QED
      BY <1>1, <2>4, <3>1, <3>2
  <2>5. CASE ~(d = c /\ q = o)
    <3>1. comboStats'[target][d][q] = comboStats[target][d][q]
      BY <1>1, <2>1, <2>2, <2>5 DEF TypeInv, TablesType
    <3>2. <<d, q>> \in todo' <=> <<d, q>> \in todo
      BY <1>1, <2>5
    <3>3. target' = target /\ loaded' = loaded
      BY <1>1
    <3> QED
      BY <2>3, <3>1, <3>2, <3>3
  <2> QED
    BY <2>4, <2>5
<1>5. CarryRowsInv' /\ FlagInv'
  BY <1>1, <1>2 DEF CarryRowsInv, FlagInv, Making
<1> QED
  BY <1>2, <1>3, <1>4, <1>5

LEMMA ClearKeeps ==
  ASSUME NewerPlayedLater, PInv, ClearCarryRows, TypeInv'
  PROVE  PInv'
<1> USE DEF PInv
<1>1. /\ pc = "comboRows" /\ pc' = "carryRows" /\ aggOk' = aggOk /\ UNCHANGED <<store, quizzes>>
      /\ target' = target /\ loaded' = loaded /\ todo = {} /\ comboStats' = comboStats
      /\ carryStats' = [carryStats EXCEPT ![target] = NoCarryRows]
      /\ todo' = {c \in Carry : CarryRow(c, loaded).total > 0}
  BY DEF ClearCarryRows, sched, Cleared
<1>2. StoreInv' /\ CountInv' /\ QuizInv' /\ BasisInv' /\ Served' = Served /\ ~aggOk
  BY <1>1, AggregationKeeps
<1>3. LoadedInv'
  BY <1>1, <1>2 DEF LoadedInv, Rows, store, Aggregating
<1>4. CarryRowsInv'
  <2> SUFFICES ASSUME NEW c \in Carry
               PROVE  /\ comboStats[target][c] = Picks(c, loaded)
                      /\ carryStats'[target][c] = IF c \in todo' THEN NoRow ELSE CarryRow(c, loaded)
    BY <1>1 DEF CarryRowsInv
  <2>1. target \in Patches /\ loaded \in SUBSET Match
    BY <1>1, TableIsOK, ServedIs DEF LoadedInv, Aggregating, Served, TableOK, TypeInv, SchedulerType
  <2>2. comboStats[target][c] = Picks(c, loaded)
    <3>1. comboStats[target][c] \in [Combo -> Nat]
      BY <2>1 DEF TypeInv, TablesType
    <3>2. Picks(c, loaded) \in [Combo -> Nat]
      BY <2>1, PicksType
    <3>3. \A o \in Combo : comboStats[target][c][o] = Picks(c, loaded)[o]
      BY <1>1 DEF ComboRowsInv
    <3> QED
      BY <3>1, <3>2, <3>3
  <2>3. carryStats'[target][c] = NoRow
    BY <1>1, <2>1 DEF NoCarryRows, TypeInv, TablesType
  <2>4. c \notin todo' => CarryRow(c, loaded) = NoRow
    BY <1>1, <2>1, NothingPicked
  <2> QED
    BY <2>2, <2>3, <2>4
<1>5. ComboRowsInv' /\ FlagInv'
  BY <1>1, <1>2 DEF ComboRowsInv, FlagInv, Making
<1> QED
  BY <1>2, <1>3, <1>4, <1>5

LEMMA CarryRowKeeps ==
  ASSUME NewerPlayedLater, PInv, NEW c \in Carry, InsertCarryRow(c), TypeInv'
  PROVE  PInv'
<1> USE DEF PInv
<1>1. /\ pc = "carryRows" /\ pc' = pc /\ aggOk' = aggOk /\ UNCHANGED <<store, quizzes>>
      /\ target' = target /\ loaded' = loaded /\ todo' = todo \ {c} /\ comboStats' = comboStats
      /\ carryStats' = [carryStats EXCEPT ![target][c] = CarryRow(c, loaded)]
  BY DEF InsertCarryRow, sched
<1>2. StoreInv' /\ CountInv' /\ QuizInv' /\ BasisInv' /\ Served' = Served /\ ~aggOk
  BY <1>1, AggregationKeeps
<1>3. LoadedInv'
  BY <1>1, <1>2 DEF LoadedInv, Rows, store, Aggregating
<1>4. CarryRowsInv'
  <2> SUFFICES ASSUME NEW d \in Carry
               PROVE  /\ comboStats[target][d] = Picks(d, loaded)
                      /\ carryStats'[target][d] = IF d \in todo' THEN NoRow ELSE CarryRow(d, loaded)
    BY <1>1 DEF CarryRowsInv
  <2>1. target \in Patches
    BY <1>1, TableIsOK, ServedIs DEF LoadedInv, Aggregating, Served, TableOK
  <2>2. /\ comboStats[target][d] = Picks(d, loaded)
        /\ carryStats[target][d] = IF d \in todo THEN NoRow ELSE CarryRow(d, loaded)
    BY <1>1 DEF CarryRowsInv
  <2>3. carryStats'[target][d] = IF d = c THEN CarryRow(c, loaded) ELSE carryStats[target][d]
    BY <1>1, <2>1 DEF TypeInv, TablesType
  <2> QED
    BY <1>1, <2>2, <2>3
<1>5. ComboRowsInv' /\ FlagInv'
  BY <1>1, <1>2 DEF ComboRowsInv, FlagInv, Making
<1> QED
  BY <1>2, <1>3, <1>4, <1>5

(* The scheduler learns of the success when the rows are complete. *)
LEMMA AggregateEndsKeeps ==
  ASSUME NewerPlayedLater, PInv, AggregateEnds, TypeInv'
  PROVE  PInv'
<1> USE DEF PInv
<1>1. /\ pc = "carryRows" /\ pc' = "special" /\ UNCHANGED <<store, combos, quizzes>> /\ todo = {}
  BY DEF AggregateEnds, Exit
<1>2. StoreInv' /\ CountInv' /\ QuizInv' /\ BasisInv' /\ Served' = Served
  BY <1>1, AggregationKeeps
<1>3. target \in Served /\ loaded = Rows(target)
  BY <1>1 DEF LoadedInv, Aggregating
<1>4. Exact(target)
  BY <1>1, <1>3 DEF CarryRowsInv, Exact
<1>5. \A t \in Served : t = target
  BY <1>3, TableIsOK, OneServed DEF Served
<1>6. \A t \in Served' : Exact(t)'
  BY <1>1, <1>2, <1>4, <1>5, ExactKept
<1>7. FlagInv'
  BY <1>1, <1>6 DEF FlagInv, Crawling, Aggregating, Making
<1>8. LoadedInv' /\ ComboRowsInv' /\ CarryRowsInv'
  BY <1>1, RowsKept
<1> QED
  BY <1>2, <1>7, <1>8

----------------------------------------------------------------------------
(* The steps of the regeneration *)

(* While quizzes are made the statistics of the patch are exact, and the    *)
(* matches are enough.                                                      *)
LEMMA MadeOfExact ==
  ASSUME NewerPlayedLater, PInv, Making
  PROVE  /\ target \in Served /\ target # NoPatch /\ target \in Patches /\ aggOk
         /\ Exact(target)
         /\ Cardinality(Rows(target)) >= MinRegen
         /\ ~Surpassed(patchVersions, target)
<1> USE DEF PInv
<1>1. TableOK(patchVersions) /\ rawMatches \in SUBSET Match /\ Backed(patchVersions, rawMatches)
  BY TableIsOK DEF StoreInv
<1>2. target \in Served /\ target # NoPatch /\ aggOk
  BY DEF QuizInv, FlagInv
<1>3. target \in Patches /\ ~Surpassed(patchVersions, target)
  BY <1>1, <1>2, ServedIs, ServedBacked DEF Served, TableOK
<1>4. Exact(target)
  BY <1>2 DEF FlagInv
<1>5. PICK count \in CurrentPatchMatchCount(patchVersions) : TRUE
  BY DEF CurrentPatchMatchCount, Answers
<1>6. count >= MinRegen
  BY DEF QuizInv
<1>7. patchVersions[target].count = count
  BY <1>1, <1>2, <1>6, EnoughIsServed DEF Served
<1>8. patchVersions[target].count = Cardinality(Rows(target))
  BY <1>2 DEF CountInv, Making
<1> QED
  BY <1>2, <1>3, <1>4, <1>6, <1>7, <1>8

(* From one stage of the regeneration to another. *)
LEMMA RegenerationKeeps ==
  ASSUME PInv, UNCHANGED <<store, combos>>, pc \in {"gate", "quizzes", "carries", "variant"},
         pc' \in {"sleep", "quizzes", "carries", "variant", "decks"}, aggOk' = aggOk
  PROVE  StoreInv' /\ CountInv' /\ LoadedInv' /\ ComboRowsInv' /\ CarryRowsInv' /\ FlagInv'
<1> USE DEF PInv
<1>1. aggOk
  BY DEF FlagInv, Making
<1>2. aggOk' => \A t \in Served' : t # NoPatch => Exact(t)'
  BY FlagKept
<1>3. FlagInv'
  BY <1>1, <1>2 DEF FlagInv, Crawling, Aggregating
<1> QED
  BY <1>3, StoreKept, CountKept, RowsKept

LEMMA GateKeeps ==
  ASSUME NewerPlayedLater, PInv, Gate, TypeInv'
  PROVE  PInv'
<1> USE DEF PInv
<1>1. /\ pc = "gate" /\ pc' \in {"quizzes", "sleep"} /\ aggOk' = aggOk
      /\ UNCHANGED <<store, combos, quizzes>>
  BY DEF Gate, sched
<1>2. CASE pc' = "quizzes"
  <2>1. PICK count \in CurrentPatchMatchCount(patchVersions) : count >= MinRegen
    BY <1>2 DEF Gate, Enough
  <2>2. \A other \in CurrentPatchMatchCount(patchVersions) : other >= MinRegen
    BY <2>1, TableIsOK, EnoughIsServed
  <2>3. QuizInv'
    BY <1>1, <1>2, <2>2 DEF QuizInv, Making, store
  <2> QED
    BY <1>1, <2>3, RegenerationKeeps, BasisKept
<1>3. CASE pc' = "sleep"
  BY <1>1, <1>3, RegenerationKeeps, BasisKept, QuizKept
<1> QED
  BY <1>1, <1>2, <1>3

LEMMA StartQuizzesKeeps ==
  ASSUME NewerPlayedLater, PInv, StartQuizzes, TypeInv'
  PROVE  PInv'
<1> USE DEF PInv
<1>1. PICK t \in Served, count \in CurrentPatchMatchCount(patchVersions) :
        IF t = NoPatch THEN Exit("decks")
        ELSE /\ target' = t
             /\ todo' = {c \in Carry : IsCandidate(carryStats[t][c], count)}
             /\ pc' = "carries"
             /\ UNCHANGED <<loaded, cur, picks>>
  BY DEF StartQuizzes, Served
<1>2. pc = "quizzes" /\ aggOk' = aggOk /\ UNCHANGED <<store, combos, quizzes>>
  BY DEF StartQuizzes, At, sched
<1>3. count >= MinRegen /\ aggOk
  BY <1>2 DEF QuizInv, FlagInv
<1>4. t # NoPatch /\ patchVersions[t].count = count
  BY <1>3, TableIsOK, EnoughIsServed DEF Served
<1>5. target' = t /\ pc' = "carries" /\ todo' = {c \in Carry : IsCandidate(carryStats[t][c], count)}
  BY <1>1, <1>4
<1>6. count = Cardinality(Rows(t)) /\ Exact(t)
  BY <1>2, <1>3, <1>4 DEF CountInv, FlagInv
<1>7. QuizInv'
  <2>1. \A c \in todo' : c \in Carry /\ IsCandidate(CarryRow(c, Rows(t)), Cardinality(Rows(t)))
    BY <1>5, <1>6 DEF Exact
  <2>2. Rows(t)' = Rows(t) /\ Served' = Served
    BY <1>2 DEF Rows, Served, store
  <2>3. \A other \in CurrentPatchMatchCount(patchVersions)' : other >= MinRegen
    BY <1>2 DEF QuizInv, store
  <2> QED
    BY <1>4, <1>5, <2>1, <2>2, <2>3 DEF QuizInv, Making, Rows
<1> QED
  BY <1>2, <1>5, <1>7, RegenerationKeeps, BasisKept

LEMMA SkipKeeps ==
  ASSUME NewerPlayedLater, PInv, NEW c \in Carry, SkipCarry(c), TypeInv'
  PROVE  PInv'
<1> USE DEF PInv
<1>1. /\ pc = "carries" /\ pc' = pc /\ aggOk' = aggOk /\ UNCHANGED <<store, combos, quizzes>>
      /\ target' = target /\ todo' = todo \ {c}
  BY DEF SkipCarry, sched
<1>2. QuizInv'
  BY <1>1 DEF QuizInv, Making, Served, Rows, store
<1> QED
  BY <1>1, <1>2, RegenerationKeeps, BasisKept

(* A quiz that is written is made of all the matches of its patch. *)
LEMMA BasisMade ==
  ASSUME PInv, UNCHANGED store, target \in Patches, NEW c \in Carry, NEW v \in Variants,
         quizzes' = [quizzes EXCEPT ![<<target, c, v>>] = Listed(Picks(c, Rows(target)))]
  PROVE  BasisInv'
<1> USE DEF PInv
<1> SUFFICES ASSUME NEW k \in QuizKeys, ~Surpassed(patchVersions, k[1]), NEW o \in Combo
             PROVE  quizzes'[k][o] <= Listed(Picks(k[2], Rows(k[1])))[o]
  BY DEF BasisInv, Rows, store
<1>1. CASE k = <<target, c, v>>
  <2>1. Listed(Picks(c, Rows(target))) \in [Combo -> Nat]
    BY PicksType, ListedType DEF Rows, RowsOf, TypeInv, TablesType
  <2>2. quizzes'[k] = Listed(Picks(c, Rows(target)))
    BY <1>1 DEF TypeInv, TablesType
  <2>3. k[1] = target /\ k[2] = c
    BY <1>1
  <2> QED
    BY <2>1, <2>2, <2>3
<1>2. CASE k # <<target, c, v>>
  BY <1>2 DEF BasisInv, TypeInv, TablesType
<1> QED
  BY <1>1, <1>2

LEMMA MainKeeps ==
  ASSUME NewerPlayedLater, PInv, NEW c \in Carry, MakeMain(c), TypeInv'
  PROVE  /\ PInv'
         /\ quizzes' = [quizzes EXCEPT ![<<target, c, "main">>] = Listed(Picks(c, Rows(target)))]
         /\ HasQuiz(c, Rows(target))
<1> USE DEF PInv
<1>1. /\ pc = "carries" /\ pc' = "variant" /\ aggOk' = aggOk /\ UNCHANGED <<store, combos>>
      /\ picks' = Listed(comboStats[target][c]) /\ EnoughCombos(picks')
      /\ quizzes' = [quizzes EXCEPT ![<<target, c, "main">>] = picks']
      /\ c \in todo /\ todo' = todo \ {c} /\ cur' = c /\ target' = target
  BY DEF MakeMain, IsNext, sched
<1>2. target \in Patches /\ Exact(target)
  BY <1>1, MadeOfExact DEF Making
<1>3. picks' = Listed(Picks(c, Rows(target)))
  BY <1>1, <1>2 DEF Exact
<1>4. HasQuiz(c, Rows(target))
  BY <1>1, <1>3 DEF HasQuiz, QuizInv, Making
<1>5. QuizInv'
  BY <1>1, <1>3, <1>4 DEF QuizInv, Making, Served, Rows, store
<1>6. BasisInv'
  BY <1>1, <1>2, <1>3, BasisMade DEF Variants
<1> QED
  BY <1>1, <1>3, <1>4, <1>5, <1>6, RegenerationKeeps

LEMMA VariantKeeps ==
  ASSUME NewerPlayedLater, PInv, MakeVariant, TypeInv'
  PROVE  /\ PInv'
         /\ cur \in Carry
         /\ quizzes' = [quizzes EXCEPT ![<<target, cur, "variant">>] = Listed(Picks(cur, Rows(target)))]
         /\ HasQuiz(cur, Rows(target))
<1> USE DEF PInv
<1>1. /\ pc = "variant" /\ pc' = "carries" /\ aggOk' = aggOk /\ UNCHANGED <<store, combos>>
      /\ quizzes' = [quizzes EXCEPT ![<<target, cur, "variant">>] = picks]
      /\ todo' = todo /\ target' = target
  BY DEF MakeVariant, sched
<1>2. target \in Patches
  BY <1>1, MadeOfExact DEF Making
<1>3. cur \in Carry /\ HasQuiz(cur, Rows(target)) /\ picks = Listed(Picks(cur, Rows(target)))
  BY <1>1 DEF QuizInv
<1>4. QuizInv'
  BY <1>1 DEF QuizInv, Making, Served, Rows, store
<1>5. BasisInv'
  BY <1>1, <1>2, <1>3, BasisMade DEF Variants
<1> QED
  BY <1>1, <1>3, <1>4, <1>5, RegenerationKeeps

----------------------------------------------------------------------------
(* The invariant holds *)

LEMMA PInit == Init => PInv
<1> SUFFICES ASSUME Init PROVE PInv
  OBVIOUS
<1>1. TypeInv
  BY InitType, TypeParts DEF Init, MakingType
<1>2. DOMAIN patchVersions = {} /\ pc = "sleep" /\ aggOk = FALSE
  BY DEF Init
<1>3. StoreInv
  BY <1>2 DEF StoreInv, RowsPlayed, Backed, Crawling
<1>4. BasisInv
  <2> SUFFICES ASSUME NEW k \in QuizKeys, NEW o \in Combo
               PROVE  quizzes[k][o] <= Listed(Picks(k[2], Rows(k[1])))[o]
    BY DEF BasisInv
  <2>1. quizzes[k][o] = 0
    BY DEF Init, NoPicks
  <2>2. Listed(Picks(k[2], Rows(k[1]))) \in [Combo -> Nat]
    BY <1>1, PicksType, ListedType DEF Rows, RowsOf, TypeInv, TablesType
  <2> QED
    BY <2>1, <2>2
<1>5. CountInv /\ LoadedInv /\ ComboRowsInv /\ CarryRowsInv /\ FlagInv /\ QuizInv
  BY <1>2 DEF CountInv, LoadedInv, ComboRowsInv, CarryRowsInv, FlagInv, QuizInv, Crawling,
              Aggregating, Making
<1> QED
  BY <1>1, <1>3, <1>4, <1>5 DEF PInv

LEMMA PStep == ASSUME NewerPlayedLater, PInv, [Next]_vars PROVE PInv'
<1>1. TypeInv /\ TypeInv'
  BY TablesStep, ChildStep, MakingStep DEF PInv, TypeInv
<1> QED
  BY <1>1, QuietSteps, QuietKeeps, StartKeeps, StoresKeeps, RecountsKeeps, PrunesKeeps,
     NothingKeeps, LoadKeeps, ComboRowKeeps, ClearKeeps, CarryRowKeeps, AggregateEndsKeeps,
     GateKeeps, StartQuizzesKeeps, SkipKeeps, MainKeeps, VariantKeeps

----------------------------------------------------------------------------
(* QuizPublication *)

(* What a step does to the quizzes. *)
LEMMA QuizzesStep ==
  ASSUME NewerPlayedLater, PInv, [Next]_vars
  PROVE  \/ UNCHANGED quizzes
         \/ \E k \in QuizKeys :
              /\ k[1] \in Served /\ ~Surpassed(patchVersions, k[1])
              /\ Cardinality(Rows(k[1])) >= MinRegen
              /\ HasQuiz(k[2], Rows(k[1]))
              /\ quizzes' = [quizzes EXCEPT ![k] = Listed(Picks(k[2], Rows(k[1])))]
              /\ UNCHANGED store
<1>1. TypeInv /\ TypeInv'
  BY TablesStep, ChildStep, MakingStep DEF PInv, TypeInv
<1>2. ASSUME NEW c \in Carry, NEW v \in Variants, Making, HasQuiz(c, Rows(target)), UNCHANGED store,
             quizzes' = [quizzes EXCEPT ![<<target, c, v>>] = Listed(Picks(c, Rows(target)))]
      PROVE  \E k \in QuizKeys :
               /\ k[1] \in Served /\ ~Surpassed(patchVersions, k[1])
               /\ Cardinality(Rows(k[1])) >= MinRegen
               /\ HasQuiz(k[2], Rows(k[1]))
               /\ quizzes' = [quizzes EXCEPT ![k] = Listed(Picks(k[2], Rows(k[1])))]
               /\ UNCHANGED store
  <2> DEFINE k == <<target, c, v>>
  <2>1. /\ target \in Served /\ target \in Patches /\ ~Surpassed(patchVersions, target)
        /\ Cardinality(Rows(target)) >= MinRegen
    BY <1>2, MadeOfExact
  <2>2. k \in QuizKeys /\ k[1] = target /\ k[2] = c
    BY <2>1 DEF QuizKeys
  <2> QED
    BY <1>2, <2>1, <2>2
<1>3. ASSUME NEW c \in Carry, MakeMain(c)
      PROVE  /\ Making /\ HasQuiz(c, Rows(target)) /\ UNCHANGED store
             /\ quizzes' = [quizzes EXCEPT ![<<target, c, "main">>] = Listed(Picks(c, Rows(target)))]
  <2>1. Making /\ UNCHANGED store
    BY <1>3 DEF MakeMain, Making
  <2> QED
    BY <1>1, <1>3, <2>1, MainKeeps
<1>4. ASSUME MakeVariant
      PROVE  /\ Making /\ cur \in Carry /\ HasQuiz(cur, Rows(target)) /\ UNCHANGED store
             /\ quizzes' = [quizzes EXCEPT ![<<target, cur, "variant">>] = Listed(Picks(cur, Rows(target)))]
  <2>1. Making /\ UNCHANGED store
    BY <1>4 DEF MakeVariant, Making
  <2> QED
    BY <1>1, <1>4, <2>1, VariantKeeps
<1>5. "main" \in Variants /\ "variant" \in Variants
  BY DEF Variants
<1>6. \/ UNCHANGED quizzes \/ MakeVariant \/ \E c \in Carry : MakeMain(c)
  BY <1>1, QuietSteps
  DEF Quiet, StartCycle, CrawlStores, CrawlRecounts, CrawlPrunes, NothingToAggregate, LoadMatches,
      ClearCarryRows, AggregateEnds, InsertCarryRow, InsertComboRow, Gate, StartQuizzes, SkipCarry
<1> QED
  BY <1>2, <1>3, <1>4, <1>5, <1>6

(* For any patches, carries, thresholds, failures and restarts: a quiz is   *)
(* never made again from fewer picks, because the matches behind the quizzes *)
(* of a patch are there as long as it is the one being served.              *)
THEOREM BasisKeepsGrowing == NewerPlayedLater /\ Spec => QuizBasisGrows
<1> DEFINE Grow == \A k \in QuizKeys, o \in Combo : quizzes[k][o] <= quizzes'[k][o]
<1> SUFFICES ASSUME NewerPlayedLater PROVE Spec => [][Grow]_vars
  BY DEF QuizBasisGrows
<1>1. ASSUME PInv, [Next]_vars PROVE Grow
  <2> SUFFICES ASSUME NEW k \in QuizKeys, NEW o \in Combo PROVE quizzes[k][o] <= quizzes'[k][o]
    OBVIOUS
  <2>1. quizzes \in [QuizKeys -> [Combo -> Nat]]
    BY <1>1 DEF PInv, TypeInv, TablesType
  <2>2. CASE UNCHANGED quizzes
    BY <2>1, <2>2
  <2>3. ASSUME NEW n \in QuizKeys, ~Surpassed(patchVersions, n[1]),
               quizzes' = [quizzes EXCEPT ![n] = Listed(Picks(n[2], Rows(n[1])))]
        PROVE  quizzes[k][o] <= quizzes'[k][o]
    <3>1. CASE k = n
      BY <1>1, <2>1, <2>3, <3>1 DEF PInv, BasisInv
    <3>2. CASE k # n
      BY <2>1, <2>3, <3>2
    <3> QED
      BY <3>1, <3>2
  <2> QED
    BY <1>1, <2>2, <2>3, QuizzesStep
<1>2. PInv /\ [Next]_vars => PInv'
  BY PStep
<1>3. PInv /\ [Next]_vars => [Grow]_vars
  BY <1>1
<1> QED
  BY <1>2, <1>3, PInit, PTL DEF Spec

(* What a step does to the match store.                                     *)
LEMMA MatchesStep ==
  ASSUME NewerPlayedLater, PInv, [Next]_vars
  PROVE  \/ UNCHANGED store
         \/ /\ \/ (\E m \in Match : rawMatches' = rawMatches \cup {m}) /\ UNCHANGED patchVersions
               \/ patchVersions' = Reconciled(patchVersions, rawMatches) /\ UNCHANGED rawMatches
               \/ \E p \in Patches :
                    /\ Surpassed(patchVersions, p)
                    /\ rawMatches' = rawMatches \ Rows(p)
                    /\ UNCHANGED patchVersions
            /\ UNCHANGED quizzes
<1>1. ASSUME NEW m \in Match, CrawlStores(m)
      PROVE  rawMatches' = rawMatches \cup {m} /\ UNCHANGED <<patchVersions, quizzes>>
  BY <1>1 DEF CrawlStores
<1>2. ASSUME CrawlRecounts
      PROVE  /\ patchVersions' = Reconciled(patchVersions, rawMatches)
             /\ UNCHANGED <<rawMatches, quizzes>>
  BY <1>2 DEF CrawlRecounts
<1>3. ASSUME NEW p \in Patches, CrawlPrunes(p)
      PROVE  /\ Surpassed(patchVersions, p) /\ rawMatches' = rawMatches \ Rows(p)
             /\ UNCHANGED <<patchVersions, quizzes>>
  BY <1>3, PrunedIsSurpassed DEF CrawlPrunes, Rows
<1>4. \/ UNCHANGED store \/ CrawlRecounts
      \/ (\E m \in Match : CrawlStores(m)) \/ (\E p \in Patches : CrawlPrunes(p))
  BY QuietSteps
  DEF PInv, Quiet, StartCycle, NothingToAggregate, LoadMatches, ClearCarryRows, AggregateEnds,
      InsertCarryRow, InsertComboRow, Gate, StartQuizzes, SkipCarry, MakeMain, MakeVariant
<1> QED
  BY <1>1, <1>2, <1>3, <1>4

(* The operators of QuizPublication and of its match store are those of     *)
(* this module.                                                             *)
LEMMA SameOperators ==
  /\ Publication!QuizKeys = QuizKeys /\ Publication!NoPicks = NoPicks
  /\ \A p : Publication!RowsOf(rawMatches, p) = Rows(p)
  /\ Publication!CurrentPatchInfo(patchVersions) = Served
  /\ \A c, rows : /\ (Publication!HasQuiz(c, rows) <=> HasQuiz(c, rows))
                  /\ Publication!Listed(Publication!Picks(c, rows)) = Listed(Picks(c, rows))
  /\ Publication!Store!Patches = Patches /\ Publication!Store!NoPatch = NoPatch
  /\ \A p : Publication!Store!RowsOf(rawMatches, p) = Rows(p)
  /\ Publication!Store!CurrentPatchInfo(patchVersions) = Served
  /\ Publication!Store!Reconciled(patchVersions, rawMatches) = Reconciled(patchVersions, rawMatches)
  /\ \A p, q : (Publication!Store!PatchLt(p, q) <=> PatchLt(p, q))
<1>1. Publication!QuizKeys = QuizKeys
  BY DEF Publication!QuizKeys, Publication!Patches, Publication!PatchOf, Publication!NoVersion,
         Publication!Variants, QuizKeys, Patches, PatchOf, NoVersion, Variants
<1>2. Publication!Store!Patches = Patches
  BY DEF Publication!Store!Patches, Publication!Store!PatchOf, Publication!Store!NoVersion,
         Patches, PatchOf, NoVersion
<1>3. Publication!NoPicks = NoPicks /\ Publication!Store!NoPatch = NoPatch
  BY DEF Publication!NoPicks, NoPicks, Publication!Store!NoPatch, NoPatch
<1>4. /\ \A p : Publication!RowsOf(rawMatches, p) = Rows(p)
      /\ \A p : Publication!Store!RowsOf(rawMatches, p) = Rows(p)
  BY DEF Publication!RowsOf, Publication!PatchOf, Publication!NoVersion,
         Publication!Store!RowsOf, Publication!Store!PatchOf, Publication!Store!NoVersion,
         Rows, RowsOf, PatchOf, NoVersion
<1>5. /\ Publication!CurrentPatchInfo(patchVersions) = Served
      /\ Publication!Store!CurrentPatchInfo(patchVersions) = Served
  BY DEF Publication!CurrentPatchInfo, Publication!Answers, Publication!Newest, Publication!NoPatch,
         Publication!Store!CurrentPatchInfo, Publication!Store!Answers, Publication!Store!Newest,
         Publication!Store!NoPatch, Served, CurrentPatchInfo, Answers, Newest, NoPatch
<1>6. \A c, rows : Publication!Picks(c, rows) = Picks(c, rows)
  BY DEF Publication!Picks, Picks, Cardinality, Publication!Cardinality
<1>7. \A counts : Publication!Listed(counts) = Listed(counts)
  BY DEF Publication!Listed, Listed
<1>8. \A c, rows : (Publication!HasQuiz(c, rows) <=> HasQuiz(c, rows))
  <2>1. \A set : Publication!Cardinality(set) = Cardinality(set)
    BY DEF Publication!Cardinality, Cardinality
  <2>2. \A c, rows : Publication!CarryRow(c, rows) = CarryRow(c, rows)
    BY <2>1 DEF Publication!CarryRow, CarryRow
  <2>3. \A row, count : (Publication!IsCandidate(row, count) <=> IsCandidate(row, count))
    BY DEF Publication!IsCandidate, Publication!MinAppearances, IsCandidate, MinAppearances
  <2>4. \A listed : (Publication!EnoughCombos(listed) <=> EnoughCombos(listed))
    BY <2>1 DEF Publication!EnoughCombos, EnoughCombos
  <2> TAKE c, rows
  <2>5. /\ Publication!HasQuiz(c, rows)
             <=> /\ Publication!IsCandidate(Publication!CarryRow(c, rows), Publication!Cardinality(rows))
                 /\ Publication!EnoughCombos(Publication!Listed(Publication!Picks(c, rows)))
        /\ HasQuiz(c, rows)
             <=> /\ IsCandidate(CarryRow(c, rows), Cardinality(rows))
                 /\ EnoughCombos(Listed(Picks(c, rows)))
    BY DEF Publication!HasQuiz, HasQuiz
  <2>6. /\ Publication!Cardinality(rows) = Cardinality(rows)
        /\ Publication!CarryRow(c, rows) = CarryRow(c, rows)
        /\ Publication!Listed(Publication!Picks(c, rows)) = Listed(Picks(c, rows))
    BY <1>6, <1>7, <2>1, <2>2
  <2> QED
    BY <2>3, <2>4, <2>5, <2>6
<1>9. Publication!Store!Reconciled(patchVersions, rawMatches) = Reconciled(patchVersions, rawMatches)
  BY DEF Publication!Store!Reconciled, Publication!Store!RowsOf, Publication!Store!EarliestIn,
         Publication!Store!PatchOf, Publication!Store!NoVersion, Publication!Store!Min,
         Publication!Store!Cardinality,
         Reconciled, RowsOf, EarliestIn, PatchOf, NoVersion, Min, Cardinality
<1>10. \A p, q : (Publication!Store!PatchLt(p, q) <=> PatchLt(p, q))
  BY DEF Publication!Store!PatchLt, PatchLt
<1> QED
  BY <1>1, <1>2, <1>3, <1>4, <1>5, <1>6, <1>7, <1>8, <1>9, <1>10

LEMMA PublicationStep ==
  ASSUME NewerPlayedLater, PInv, [Next]_vars
  PROVE  [Publication!Next]_(Publication!vars)
<1> USE SameOperators
<1>1. CASE UNCHANGED store /\ UNCHANGED quizzes
  BY <1>1 DEF store, Publication!vars
<1>2. CASE UNCHANGED quizzes /\ ~UNCHANGED store
  <2>1. ASSUME NEW m \in Match, rawMatches' = rawMatches \cup {m}, UNCHANGED patchVersions
        PROVE  Publication!Store!Next
    BY <2>1 DEF Publication!Store!Next, Publication!Store!StoreMatch
  <2>2. ASSUME patchVersions' = Reconciled(patchVersions, rawMatches), UNCHANGED rawMatches
        PROVE  Publication!Store!Next
    BY <2>2 DEF Publication!Store!Next, Publication!Store!Recount
  <2>3. ASSUME NEW p \in Patches, Surpassed(patchVersions, p), rawMatches' = rawMatches \ Rows(p),
               UNCHANGED patchVersions
        PROVE  Publication!Store!Next
    BY <2>3 DEF Publication!Store!Next, Publication!Store!DropPatch, Surpassed, Served
  <2>4. Publication!Store!Next
    BY <1>2, <2>1, <2>2, <2>3, MatchesStep
  <2> QED
    BY <1>2, <2>4 DEF Publication!Next, Publication!Collect
<1>3. CASE ~UNCHANGED quizzes
  <2>1. PICK k \in QuizKeys :
          /\ k[1] \in Served /\ Cardinality(Rows(k[1])) >= MinRegen /\ HasQuiz(k[2], Rows(k[1]))
          /\ quizzes' = [quizzes EXCEPT ![k] = Listed(Picks(k[2], Rows(k[1])))]
          /\ UNCHANGED store
    BY <1>3, QuizzesStep
  <2>2. Publication!Cardinality(Rows(k[1])) = Cardinality(Rows(k[1]))
    BY DEF Publication!Cardinality, Cardinality
  <2>3. Publication!Publish(k)
    BY <2>1, <2>2 DEF Publication!Publish, store
  <2> QED
    BY <2>1, <2>3 DEF Publication!Next
<1> QED
  BY <1>1, <1>2, <1>3

(* For any patches, carries, thresholds, failures and restarts: though      *)
(* statistics are deleted and rewritten row by row and any program may stop *)
(* half-way, a quiz is only ever made for the patch being served, from      *)
(* exact statistics of all its matches, and when these are enough.          *)
THEOREM PublicationImplemented == NewerPlayedLater /\ Spec => ImplementsPublication
<1> SUFFICES ASSUME NewerPlayedLater PROVE Spec => ImplementsPublication
  OBVIOUS
<1>1. Init => Publication!Init
  BY SameOperators DEF Init, Publication!Init, Publication!Store!Init
<1>2. PInv /\ [Next]_vars => PInv'
  BY PStep
<1>3. PInv /\ [Next]_vars => [Publication!Next]_(Publication!vars)
  BY PublicationStep
<1>4. Spec => Publication!Spec
  BY <1>1, <1>2, <1>3, PInit, PTL DEF Spec, Publication!Spec
<1> QED
  BY <1>4 DEF ImplementsPublication
=============================================================================
