----------------------------- MODULE QuizPolicy -----------------------------
(***************************************************************************)
(* What the matches say of a carry, and which carries get item quizzes:    *)
(* the counts aggregate_combos takes and the thresholds combo_quiz_gen     *)
(* applies to them.  A match has at most one board of a carry.             *)
(***************************************************************************)
EXTENDS PatchTracking

CONSTANTS
  Carry,          \* the units that may be carries
  Units,          \* Units[m]: the carries on the boards of match m
  Combo,          \* the combinations of three craftable items
  Built,          \* Built[m]: <<carry, combination>> of the boards that have one
  CarryPercent,   \* MIN_CARRY_RATE (20)
  AppearPercent,  \* MIN_APPEAR_RATE (33)
  MinPicks,       \* MIN_COMBO_PICKS (50)
  MinCombos,      \* MIN_COMBOS_NEEDED (6)
  MinRegen        \* matches a regeneration needs (15000)

ASSUME CarryAssumption ==
  /\ Units \in [Match -> SUBSET Carry]
  /\ Built \in [Match -> SUBSET (Carry \X Combo)]
  /\ \A m \in Match : \A b, d \in Built[m] : b[1] \in Units[m] /\ (b[1] = d[1] => b = d)

ASSUME PolicyAssumption ==
  /\ {CarryPercent, AppearPercent, MinCombos} \subseteq Nat
  /\ MinPicks \in Nat \ {0}
  /\ MinRegen \in Nat /\ MinRegen >= MinPatchMatches

Variants == {"main", "variant"}

(* The key of an item quiz, as in the unique index its upsert relies on.    *)
QuizKeys == Patches \X Carry \X Variants

(* How often each combination of a carry was picked. *)
Picks(c, rows) == [o \in Combo |-> Cardinality({m \in rows : <<c, o>> \in Built[m]})]

CarryRow(c, rows) ==
  [total |-> Cardinality({m \in rows : c \in Units[m]}),
   three |-> Cardinality({m \in rows : \E o \in Combo : <<c, o>> \in Built[m]})]

NoPicks == [o \in Combo |-> 0]
NoRow == [total |-> 0, three |-> 0]

MinAppearances(count) == (count * AppearPercent) \div 100

(* carry_list_for_combo: is_carry and often enough seen. *)
IsCandidate(row, count) ==
  /\ row.total > 0
  /\ row.three * 100 >= row.total * CarryPercent
  /\ row.total >= MinAppearances(count)

(* combo_stats_for_carry: rare combinations are left out. *)
Listed(counts) == [o \in Combo |-> IF counts[o] >= MinPicks THEN counts[o] ELSE 0]

EnoughCombos(listed) == Cardinality({o \in Combo : listed[o] > 0}) >= MinCombos

(* The carries that the matches of a patch give a quiz. *)
HasQuiz(c, rows) ==
  IsCandidate(CarryRow(c, rows), Cardinality(rows)) /\ EnoughCombos(Listed(Picks(c, rows)))
=============================================================================
