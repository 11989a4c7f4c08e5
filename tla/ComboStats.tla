----------------------------- MODULE ComboStats -----------------------------
(***************************************************************************)
(* aggregate_combos (src/bin/aggregate_combos.rs) for one patch: the       *)
(* scheduler's full aggregation, which deletes and fills item_combo_stats  *)
(* and carry_stats, and the incremental one for the matches fetched after  *)
(* an instant, which adds to them.  Runs may overlap, for nothing keeps a  *)
(* second one from being started by hand, and may fail between any two     *)
(* statements.  The quizzes that combo_quiz_gen would make of the rows as  *)
(* they are, at any moment, are operators on them.                         *)
(*                                                                         *)
(* The sums of unit tiers and the label of the deck a combination is most  *)
(* played in are left out: they are kept beside the counts and as these    *)
(* are.                                                                    *)
(***************************************************************************)
EXTENDS Integers, FiniteSets, FiniteSetsExt, Functions, SequencesExt

CONSTANTS
  Carry, Combo,   \* units; combinations of three craftable items
  Board,          \* the units on the boards, each [match, carry, combo, place]
  LastMatch,           \* matches are numbered 1 .. LastMatch as they are fetched
  Tanky,          \* the combinations with MIN_TANK_ITEMS tank items
  CarryPercent,   \* MIN_CARRY_RATE (20)
  Batch,          \* rows of one INSERT into item_combo_stats (3000)
  MinPicks,       \* MIN_COMBO_PICKS (50)
  MinCombos,      \* MIN_COMBOS_NEEDED (6)
  PerQuiz,        \* options of a quiz (4)
  Shrink,         \* SHRINK_C (25)
  Run,            \* processes that aggregate
  MaxRuns, MaxFaults   \* bounds

NoCombo == "none"    \* fewer than three items, or one that cannot be crafted

Match == 1 .. LastMatch

ASSUME BoardAssumption ==
  /\ {LastMatch, CarryPercent, Shrink, MaxRuns, MaxFaults} \subseteq Nat
  /\ {Batch, MinPicks, PerQuiz, MinCombos} \subseteq Nat \ {0} /\ MinCombos >= PerQuiz
  /\ IsFiniteSet(Carry) /\ IsFiniteSet(Combo) /\ IsFiniteSet(Board) /\ IsFiniteSet(Run)
  /\ NoCombo \notin Combo /\ Tanky \subseteq Combo
  /\ Board \subseteq [match : Match, carry : Carry, combo : Combo \cup {NoCombo}, place : 1 .. 8]

VARIABLES
  stored,       \* matches 1 .. stored are in raw_matches
  comboStats, carryStats,
  runs,
  \* history: how often each match was counted into the rows, whether that is
  \* known, the matches of the full run that cleared last, and its process
  counted, clean, base, owner,
  started, faults

tables == <<comboStats, carryStats>>
hist   == <<counted, clean, base, owner>>
vars   == <<stored, comboStats, carryStats, runs, counted, clean, base, owner, started, faults>>

----------------------------------------------------------------------------
(* What a set of matches says *)

BuiltIn(c, o, ms) == {b \in Board : b.match \in ms /\ b.carry = c /\ b.combo = o}
UnitsIn(c, ms) == {b \in Board : b.match \in ms /\ b.carry = c}
CombosIn(ms) == {<<b.carry, b.combo>> : b \in {d \in Board : d.match \in ms /\ d.combo # NoCombo}}
CarriesIn(ms) == {b.carry : b \in {d \in Board : d.match \in ms}}

Places == [b \in Board |-> b.place]

ComboRows ==
  [c \in Carry |-> [o \in Combo |-> [ms \in SUBSET Match |->
     [picks |-> Cardinality(BuiltIn(c, o, ms)),
      sum   |-> SumFunctionOnSet(Places, BuiltIn(c, o, ms))]]]]

ComboRow(c, o, ms) == ComboRows[c][o][ms]

(* Faulty variant: the matches with the unit.                               *)
TotalMatches(c, ms) == Cardinality({b.match : b \in UnitsIn(c, ms)})

Total(c, ms) == Cardinality(UnitsIn(c, ms))
Three(c, ms) == Cardinality({b \in UnitsIn(c, ms) : b.combo # NoCombo})

NoComboRow == [picks |-> 0, sum |-> 0]
NoCarryRow == [total |-> 0, three |-> 0, isCarry |-> FALSE, isTank |-> FALSE]

NoComboRows == [c \in Carry |-> [o \in Combo |-> NoComboRow]]
NoCarryRows == [c \in Carry |-> NoCarryRow]

(* Whether the most picked combination, any of those that tie, is a tank's. *)
TankAnswers(picks) ==
  LET top == {o \in Combo : picks[o] > 0 /\ \A q \in Combo : picks[q] <= picks[o]}
  IN  IF top = {} THEN {FALSE} ELSE {t \in BOOLEAN : \E o \in top : t = (o \in Tanky)}

(* Faulty variant: the batch replaces the counts of a row.                  *)
Replaced(old, new) == new

(* ON CONFLICT DO UPDATE. *)
Added(old, new) == [picks |-> old.picks + new.picks, sum |-> old.sum + new.sum]

(* Faulty variant: the flag of the batch, always false, stays.              *)
FlagKept(row) == [row EXCEPT !.isCarry = FALSE]

(* The second statement of upsert_carry_stats.  The bound is the 32-bit     *)
(* 0.2, a little above a fifth, and the quotient is a 64-bit one: a row at  *)
(* exactly CarryPercent is a carry to the full aggregation only.            *)
Flagged(row) == [row EXCEPT !.isCarry = row.three * 100 > row.total * CarryPercent]

----------------------------------------------------------------------------
Idle == [pc |-> "idle", full |-> FALSE, loaded |-> {}, todo |-> {}, alone |-> FALSE]

Active == {r \in Run : runs[r].pc # "idle"}

Init ==
  /\ stored = 0
  /\ comboStats = NoComboRows /\ carryStats = NoCarryRows
  /\ runs = [r \in Run |-> Idle]
  /\ counted = [m \in Match |-> 0] /\ clean = TRUE /\ base = {} /\ owner = {}
  /\ started = 0 /\ faults = 0

(* The crawler stores the next match. *)
Fetch ==
  /\ stored < LastMatch
  /\ stored' = stored + 1
  /\ UNCHANGED <<tables, runs, hist, started, faults>>

(* A run overlaps the full runs there are, and a full run all of them. *)
Start(r, full, ms) ==
  /\ runs[r].pc = "idle" /\ started < MaxRuns
  /\ LET disturbs(q) == full \/ runs[q].full
     IN  runs' = [q \in Run |->
           IF q = r
           THEN [pc |-> IF full THEN "clear" ELSE "combos", full |-> full, loaded |-> ms,
                 todo |-> CombosIn(ms), alone |-> \A a \in Active : ~disturbs(a)]
           ELSE [runs[q] EXCEPT !.alone = @ /\ ~disturbs(q)]]
  /\ started' = started + 1
  /\ UNCHANGED <<stored, tables, hist, faults>>

(* load_matches *)
StartFull(r) == Start(r, TRUE, 1 .. stored)

(* load_matches_after, the instant lying after k matches *)
StartAfter(r, k) == Start(r, FALSE, (k + 1) .. stored)

(* Faulty variant: what is there is added to.                               *)
ClearedNever(table, none) == table

(* DELETE of the rows of the patch. *)
Cleared(table, none) == none

(* save_combo_stats: the DELETE ... *)
ClearCombos(r) ==
  /\ runs[r].pc = "clear"
  /\ comboStats' = Cleared(comboStats, NoComboRows)
  /\ runs' = [runs EXCEPT ![r].pc = "combos"]
  /\ base' = runs[r].loaded /\ owner' = {r}
  /\ UNCHANGED <<stored, carryStats, counted, clean, started, faults>>

(* ... and, in upsert_combo_stats too, the batches, in no particular order. *)
InsertCombos(r) ==
  /\ runs[r].pc = "combos"
  /\ runs[r].todo # {}
  /\ \E rows \in kSubset(Min({Batch, Cardinality(runs[r].todo)}), runs[r].todo) :
       /\ comboStats' = [c \in Carry |-> [o \in Combo |->
            IF <<c, o>> \in rows
            THEN Added(comboStats[c][o], ComboRow(c, o, runs[r].loaded))
            ELSE comboStats[c][o]]]
       /\ runs' = [runs EXCEPT ![r].todo = @ \ rows]
  /\ UNCHANGED <<stored, carryStats, hist, started, faults>>

(* save_carry_stats: the DELETE ... *)
ClearCarries(r) ==
  /\ runs[r].full /\ runs[r].pc = "combos" /\ runs[r].todo = {}
  /\ carryStats' = Cleared(carryStats, NoCarryRows)
  /\ runs' = [runs EXCEPT ![r].pc = "carries", ![r].todo = CarriesIn(runs[r].loaded)]
  /\ UNCHANGED <<stored, comboStats, hist, started, faults>>

(* ... and a row for every unit, which no other run may have written.       *)
InsertCarry(r, c) ==
  /\ runs[r].pc = "carries" /\ c \in runs[r].todo
  /\ carryStats[c].total = 0
  /\ LET ms == runs[r].loaded
     IN  \E tank \in TankAnswers([o \in Combo |-> ComboRow(c, o, ms).picks]) :
           carryStats' = [carryStats EXCEPT ![c] =
             [total |-> Total(c, ms), three |-> Three(c, ms),
              isCarry |-> Three(c, ms) * 100 >= Total(c, ms) * CarryPercent, isTank |-> tank]]
  /\ runs' = [runs EXCEPT ![r].todo = @ \ {c}]
  /\ UNCHANGED <<stored, comboStats, hist, started, faults>>

(* What the tables say is known again after a full run that nothing         *)
(* disturbed, and still known after such an incremental one.                *)
Succeeds(r) ==
  /\ runs' = [runs EXCEPT ![r] = Idle]
  /\ clean' = (runs[r].alone /\ (runs[r].full \/ clean))
  /\ counted' = [m \in Match |->
                   (IF runs[r].full THEN 0 ELSE counted[m]) + (IF m \in runs[r].loaded THEN 1 ELSE 0)]
  /\ owner' = owner \ {r}
  /\ UNCHANGED base

FullEnds(r) ==
  /\ runs[r].pc = "carries" /\ runs[r].todo = {}
  /\ Succeeds(r)
  /\ UNCHANGED <<stored, tables, started, faults>>

(* upsert_carry_stats, one transaction: the counts are added, then is_carry *)
(* and is_tank are computed anew for every row.                             *)
UpsertCarries(r) ==
  /\ ~runs[r].full /\ runs[r].pc = "combos" /\ runs[r].todo = {}
  /\ LET ms == runs[r].loaded
         summed(c) == [carryStats[c] EXCEPT !.total = @ + Total(c, ms), !.three = @ + Three(c, ms)]
     IN  \E tank \in [Carry -> BOOLEAN] :
           /\ \A c \in Carry : tank[c] \in IF summed(c).total = 0 THEN {FALSE}
                  ELSE TankAnswers([o \in Combo |-> comboStats[c][o].picks])
           /\ carryStats' = [c \in Carry |->
                IF summed(c).total = 0 THEN NoCarryRow
                ELSE [Flagged(summed(c)) EXCEPT !.isTank = tank[c]]]
  /\ Succeeds(r)
  /\ UNCHANGED <<stored, comboStats, started, faults>>

(* A statement fails or the process is killed; or the row it inserts into   *)
(* carry_stats is there.  A run that has written nothing does no harm.      *)
Fails(r) ==
  /\ runs[r].pc # "idle"
  /\ \/ faults < MaxFaults /\ faults' = faults + 1
     \/ /\ runs[r].pc = "carries" /\ \E c \in runs[r].todo : carryStats[c].total > 0
        /\ UNCHANGED faults
  /\ runs' = [runs EXCEPT ![r] = Idle]
  /\ clean' = (clean /\ (runs[r].pc = "clear" \/
                         (~runs[r].full /\ runs[r].todo = CombosIn(runs[r].loaded) /\ runs[r].todo # {})))
  /\ base' = IF r \in owner THEN {} ELSE base
  /\ owner' = owner \ {r}
  /\ UNCHANGED <<stored, tables, counted, started>>

----------------------------------------------------------------------------
Next ==
  \/ Fetch
  \/ \E r \in Run :
       \/ StartFull(r) \/ \E k \in 0 .. stored : StartAfter(r, k)
       \/ ClearCombos(r) \/ InsertCombos(r) \/ ClearCarries(r)
       \/ \E c \in Carry : InsertCarry(r, c)
       \/ FullEnds(r) \/ UpsertCarries(r) \/ Fails(r)

Spec == Init /\ [][Next]_vars

----------------------------------------------------------------------------
(* combo_quiz_gen, from the rows of one read *)

Listed(c) == {o \in Combo : comboStats[c][o].picks >= MinPicks}

Orders == SetToSeqs(Combo)

(* ORDER BY pick_count DESC: any order of those that tie. *)
Rankings(c) ==
  LET picks  == [o \in Combo |-> comboStats[c][o].picks]
      sorted == {s \in Orders : \A i \in 1 .. Len(s) - 1 : picks[s[i]] >= picks[s[i + 1]]}
      among  == Cardinality(Listed(c))
  IN  {SubSeq(s, 1, among) : s \in sorted}

(* The quiz takes the first PerQuiz ranks, its variant the last of the      *)
(* first MinCombos.                                                         *)
MainOptions(ranked) == SubSeq(ranked, 1, PerQuiz)
VariantOptions(ranked) == SubSeq(ranked, MinCombos - PerQuiz + 1, MinCombos)

(* carry_prior: the mean of all listed combinations, as <<sum, picks>>. *)
PriorOf(c, options) ==
  <<SumFunctionOnSet([o \in Combo |-> comboStats[c][o].sum], options),
    SumFunctionOnSet([o \in Combo |-> comboStats[c][o].picks], options)>>

Prior(c) == PriorOf(c, Listed(c))

(* Faulty variant: picks and shrinkage swapped.                             *)
AtMostSwapped(c, o, q, prior) ==
  LET left(x, y) ==
        (comboStats[c][x].sum * Shrink * prior[2] + prior[1] * comboStats[c][x].picks ^ 2)
          * comboStats[c][y].picks * (comboStats[c][y].picks + Shrink)
  IN  left(o, q) <= left(q, o)

(* adjusted(o) <= adjusted(q), in whole numbers. *)
AtMost(c, o, q, prior) ==
  LET left(x, y) == (comboStats[c][x].sum * prior[2] + prior[1] * Shrink)
                      * (comboStats[c][y].picks + Shrink)
  IN  left(o, q) <= left(q, o)

(* Faulty variant: the prior of the options only.                           *)
AnswerByOptions(c, prior, options) ==
  LET own == PriorOf(c, ToSet(options))
  IN  options[CHOOSE i \in DOMAIN options :
                /\ \A j \in 1 .. i - 1 : ~AtMost(c, options[j], options[i], own)
                /\ \A j \in i + 1 .. Len(options) : AtMost(c, options[i], options[j], own)]

(* The first of the options with the least adjusted mean place. *)
Answer(c, prior, options) ==
  options[CHOOSE i \in DOMAIN options :
            /\ \A j \in 1 .. i - 1 : ~AtMost(c, options[j], options[i], prior)
            /\ \A j \in i + 1 .. Len(options) : AtMost(c, options[i], options[j], prior)]

----------------------------------------------------------------------------
(* Properties *)

TypeOK ==
  /\ stored \in 0 .. LastMatch
  /\ comboStats \in [Carry -> [Combo -> [picks : Nat, sum : Nat]]]
  /\ carryStats \in [Carry -> [total : Nat, three : Nat, isCarry : BOOLEAN, isTank : BOOLEAN]]
  /\ runs \in [Run -> [pc : {"idle", "clear", "combos", "carries"}, full : BOOLEAN,
                       loaded : SUBSET (1 .. stored), todo : SUBSET (Carry \cup Carry \X Combo),
                       alone : BOOLEAN]]
  /\ \A r \in Run :
       runs[r].todo \subseteq IF runs[r].pc = "carries" THEN Carry ELSE Carry \X Combo
  /\ \A c \in Carry : carryStats[c].three <= carryStats[c].total
  /\ counted \in [Match -> Nat] /\ clean \in BOOLEAN /\ base \subseteq Match /\ owner \subseteq Active
  /\ started \in 0 .. MaxRuns /\ faults \in 0 .. MaxFaults

(* Full and incremental runs amount to the same: when no run is under way   *)
(* and none since was cut short or met a full run, every row counts every   *)
(* match as often as runs have counted it, whatever their order and however *)
(* incremental runs overlap, and the next full run heals what is not so     *)
(* (aggregate_combos.rs:157-205, 254-340).                                  *)
TimesCounted(in) == SumFunctionOnSet([m \in Match |-> counted[m] * in[{m}]], Match)

PicksIn(c, o) == [ms \in SUBSET Match |-> ComboRow(c, o, ms).picks]
PlacesIn(c, o) == [ms \in SUBSET Match |-> ComboRow(c, o, ms).sum]
TotalIn(c) == [ms \in SUBSET Match |-> Total(c, ms)]
ThreeIn(c) == [ms \in SUBSET Match |-> Three(c, ms)]

TablesAreExact ==
  clean /\ Active = {} =>
    \A c \in Carry :
      /\ \A o \in Combo :
           /\ comboStats[c][o].picks = TimesCounted(PicksIn(c, o))
           /\ comboStats[c][o].sum = TimesCounted(PlacesIn(c, o))
      /\ carryStats[c].total = TimesCounted(TotalIn(c))
      /\ carryStats[c].three = TimesCounted(ThreeIn(c))
      /\ carryStats[c].isTank \in TankAnswers([o \in Combo |-> comboStats[c][o].picks])

(* Two full runs at once may count a match twice but never lose one: the    *)
(* matches of the run that cleared last are all in the rows it has written. *)
LastClearStands ==
  \A c \in Carry, o \in Combo :
    (\A r \in owner : <<c, o>> \notin runs[r].todo /\ runs[r].pc # "idle")
      => comboStats[c][o].picks >= ComboRow(c, o, base).picks

(* is_carry follows the counts in both ways of computing it, but for a row  *)
(* at the very bound.                                                       *)
FlagsFollowCounts ==
  \A c \in Carry :
    LET row == carryStats[c]
    IN  /\ row.three * 100 > row.total * CarryPercent => row.isCarry
        /\ row.isCarry => row.three * 100 >= row.total * CarryPercent

(* The two quizzes of a carry share options: what one calls the best is not *)
(* beaten in the other by an option both have (combo_quiz_gen.rs:171-213).  *)
QuizzesAgree ==
  \A c \in Carry : Cardinality(Listed(c)) >= MinCombos =>
    LET prior == Prior(c)
    IN  \A ranked \in Rankings(c) :
      LET main    == MainOptions(ranked)
          variant == VariantOptions(ranked)
          best    == Answer(c, prior, main)
          other   == Answer(c, prior, variant)
      IN  {best, other} \subseteq ToSet(main) \cap ToSet(variant) => best = other

(* Shrinking towards the prior does not turn the order: no option with a    *)
(* better mean place and as many picks as the answer, unless every option   *)
(* is worse than the prior (combo_quiz_gen.rs:17-31).                       *)
AnswerNotDominated ==
  \A c \in Carry : Cardinality(Listed(c)) >= MinCombos =>
    LET prior == Prior(c)
    IN  \A ranked \in Rankings(c) : \A options \in {MainOptions(ranked), VariantOptions(ranked)} :
      LET a == comboStats[c][Answer(c, prior, options)]
      IN  (\E o \in ToSet(options) : comboStats[c][o].sum * prior[2] <= prior[1] * comboStats[c][o].picks)
          => \A o \in ToSet(options) :
               LET row == comboStats[c][o]
               IN  ~(row.sum * a.picks < a.sum * row.picks /\ row.picks >= a.picks)
=============================================================================
