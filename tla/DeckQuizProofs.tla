--------------------------- MODULE DeckQuizProofs ---------------------------
(* Proofs about the deck quizzes: what a user is shown can be judged, its    *)
(* deck has its statistics, and the unit asked for is rare.                  *)
EXTENDS DeckQuiz, FiniteSetTheorems, FunctionTheorems, TLAPS

(***************************************************************************)
(* The inductive invariant.                                                *)
(***************************************************************************)

Quizzes == DOMAIN puzzles

(* The upsert key of a quiz holds its answer, and so a rewritten row asks   *)
(* for the same unit as before.                                             *)
KeyInv ==
  \A k \in Quizzes :
    /\ k \in Patch \X (SUBSET Unit) \X Unit
    /\ puzzles[k].answer = k[3]
    /\ puzzles[k].basis \subseteq {m \in Match : PatchOf(m) = k[1]}

(* What was counted for the patch being served is still there: only the     *)
(* matches of the patch before are pruned.                                  *)
BasisInv ==
  \A k \in Quizzes :
    /\ k[1] = current => puzzles[k].basis \subseteq raw
    /\ current = "old" => k[1] = "old"

ScreenInv ==
  screen # NoScreen =>
    /\ screen[1] \in Quizzes /\ screen[3] = screen[1][3] /\ screen[3] \in screen[2]

(* A run works on what it read, which nobody changes while it runs, and     *)
(* what it has not to write any more is written.                            *)
RunInv ==
  pc # "idle" =>
    /\ read = raw /\ patch = current
    /\ deckTodo \subseteq TierDecks(read, patch) /\ quizTodo \subseteq QuizRows(read, patch)
    /\ \A deck \in TierDecks(read, patch) \ deckTodo :
         <<patch, deck>> \in DOMAIN deckStats /\ deckStats[<<patch, deck>>] = Basis
    /\ pc = "stats" => quizTodo = QuizRows(read, patch)
    /\ pc = "puzzles" =>
         /\ deckTodo = {}
         /\ \A r \in QuizRows(read, patch) \ quizTodo :
              /\ Key(patch, r[1], r[2]) \in Quizzes
              /\ puzzles[Key(patch, r[1], r[2])].basis = Basis

IInv == /\ TypeOK /\ KeyInv /\ BasisInv /\ ScreenInv /\ RunInv
        /\ QuizNeverAheadOfStats /\ AnswerIsRare

----------------------------------------------------------------------------
(* What the definitions say *)

(* A unit appears at least as often as there are boards it stands on.       *)
LEMMA AppearsBound ==
  ASSUME NEW ms, NEW u
  PROVE  LET on == {b \in Board : b.match \in ms /\ u \in Units(b)}
         IN  /\ IsFiniteSet(on) /\ Cardinality(on) \in Nat /\ Appears(ms, u) \in Nat
             /\ Cardinality(on) <= Appears(ms, u)
<1> DEFINE on == {b \in Board : b.match \in ms /\ u \in Units(b)}
           times(b) == {b} \X (1 .. b.copies[u])
           all == {times(b) : b \in on}
<1>1. IsFiniteSet(on)
  BY DeckAssumption, FS_Subset
<1>2. \A b \in on : b.copies[u] \in Nat \ {0}
  BY DeckAssumption DEF Units
<1>3. \A b \in on : IsFiniteSet(times(b))
  <2> SUFFICES ASSUME NEW b \in on PROVE IsFiniteSet(times(b))
    OBVIOUS
  <2> DEFINE n == b.copies[u]
  <2>1. n \in Int
    BY <1>2
  <2> HIDE DEF n
  <2>2. 1 \in Int
    OBVIOUS
  <2>3. IsFiniteSet(1 .. n)
    BY <2>1, <2>2, FS_Interval
  <2>4. IsFiniteSet({b})
    BY FS_Singleton
  <2>5. IsFiniteSet({b} \X (1 .. n))
    BY <2>3, <2>4, FS_Product
  <2> QED
    BY <2>5 DEF n
<1>4. IsFiniteSet(all)
  <2> DEFINE g == [b \in on |-> times(b)]
  <2>1. g \in [on -> all] /\ \A t \in all : \E b \in on : g[b] = t
    OBVIOUS
  <2> HIDE DEF g
  <2>2. g \in Surjection(on, all)
    BY <2>1, Fun_IsSurj
  <2> QED
    BY <1>1, <2>2, FS_Surjection
<1>5. IsFiniteSet(UNION all)
  BY <1>3, <1>4, FS_UNION
<1> DEFINE f == [b \in on |-> <<b, 1>>]
<1>6. f \in [on -> UNION all]
  <2> SUFFICES ASSUME NEW b \in on PROVE <<b, 1>> \in UNION all
    OBVIOUS
  <2>1. 1 \in 1 .. b.copies[u]
    BY <1>2
  <2>2. <<b, 1>> \in times(b)
    BY <2>1
  <2> QED
    BY <2>2
<1>7. f \in Injection(on, UNION all)
  <2>1. \A a, b \in on : f[a] = f[b] => a = b
    OBVIOUS
  <2> HIDE DEF f
  <2> QED
    BY <1>6, <2>1, Fun_IsInj
<1> HIDE DEF f, all, on
<1>8. Cardinality(on) <= Cardinality(UNION all)
  BY <1>5, <1>7, FS_Injection
<1>9. Appears(ms, u) = Cardinality(UNION all)
  BY DEF Appears, all, on
<1> QED
  BY <1>1, <1>5, <1>8, <1>9, FS_CardinalityType DEF on

(* So a unit whose share, counted over all patches, is small is on few      *)
(* boards of the patch.                                                     *)
LEMMA AskedIsRare ==
  ASSUME NEW ms, NEW p, NEW deck, NEW u \in Asked(ms, p, deck)
  PROVE  LET boards == BoardsOf({m \in ms : PatchOf(m) = p}, p)
         IN  Cardinality({b \in boards : u \in Units(b)}) * 100
               <= AppearPercent * Cardinality(boards)
<1> DEFINE boards == BoardsOf({m \in ms : PatchOf(m) = p}, p)
           on == {b \in Board : b.match \in ms /\ u \in Units(b)}
           few == {b \in boards : u \in Units(b)}
<1>1. boards = BoardsOf(ms, p)
  BY DEF BoardsOf
<1>2. few \subseteq on
  BY DEF BoardsOf
<1>3. IsFiniteSet(on) /\ Cardinality(on) \in Nat /\ Appears(ms, u) \in Nat
      /\ Cardinality(on) <= Appears(ms, u)
  BY AppearsBound
<1>4. IsFiniteSet(few) /\ Cardinality(few) <= Cardinality(on)
  BY <1>2, <1>3, FS_Subset
<1>5. Cardinality(few) \in Nat
  BY <1>4, FS_CardinalityType
<1>6. Appears(ms, u) * 100 <= AppearPercent * Cardinality(boards)
  BY <1>1 DEF Asked, TotalBoards
<1>7. IsFiniteSet(boards)
  BY DeckAssumption, FS_Subset DEF BoardsOf
<1>8. Cardinality(boards) \in Nat /\ AppearPercent \in Nat
  BY <1>7, FS_CardinalityType, DeckAssumption
<1> DEFINE limit == AppearPercent * Cardinality(boards)
<1>9. limit \in Int /\ Appears(ms, u) * 100 <= limit
  BY <1>6, <1>8
<1> HIDE DEF limit, few, on
<1>10. Cardinality(few) * 100 <= limit
  BY <1>3, <1>4, <1>5, <1>9
<1> QED
  BY <1>10 DEF limit, few

LEMMA TierDeckType ==
  ASSUME NEW ms, NEW p, NEW deck \in TierDecks(ms, p)
  PROVE  deck \subseteq Unit /\ Cardinality(deck) = DeckSize
BY DeckAssumption DEF TierDecks, Decks, BoardsOf, Units

(* The options of a quiz are as many as asked for, and only the answer is   *)
(* of the deck.                                                             *)
LEMMA OptionsType ==
  ASSUME NEW ms, NEW p, NEW deck \in TierDecks(ms, p), NEW u \in deck,
         NEW wrong \in Distractors(ms, p, deck, u)
  PROVE  Cardinality(wrong \cup {u}) = NOptions /\ (wrong \cup {u}) \cap deck = {u}
<1>1. wrong \subseteq Pool(ms, p, deck) /\ Cardinality(wrong) = NOptions - 1
  BY DEF Distractors, kSubset
<1>2. Pool(ms, p, deck) \subseteq Unit /\ Pool(ms, p, deck) \cap deck = {}
  BY TierDeckType DEF Pool
<1>3. IsFiniteSet(wrong) /\ u \notin wrong
  BY <1>1, <1>2, FS_Subset, DeckAssumption
<1>4. Cardinality(wrong \cup {u}) = Cardinality(wrong) + 1
  BY <1>3, FS_AddElement
<1>5. Cardinality(wrong \cup {u}) = NOptions
  BY <1>1, <1>4, DeckAssumption
<1> QED
  BY <1>1, <1>2, <1>5

(* What a batch of upserts leaves in puzzles.                               *)
QuizWritten(r, wrong) ==
  puzzles'[Key(patch, r[1], r[2])]
    = [options |-> wrong \cup {r[2]}, answer |-> r[2], basis |-> Basis]

LEMMA MadeRow ==
  ASSUME NEW rows \in SUBSET QuizRows(read, patch), NEW wrong, NEW r \in rows
  PROVE  LET k == Key(patch, r[1], r[2])
         IN  /\ k \in DOMAIN Made(rows, wrong)
             /\ Made(rows, wrong)[k]
                  = [options |-> wrong[r] \cup {r[2]}, answer |-> r[2], basis |-> Basis]
<1>1. \A q \in rows : q = <<q[1], q[2]>>
  BY DEF QuizRows
<1>2. \A q \in rows : Key(patch, q[1], q[2]) = Key(patch, r[1], r[2]) => q = r
  BY <1>1 DEF Key
<1>3. (CHOOSE q \in rows : Key(patch, q[1], q[2]) = Key(patch, r[1], r[2])) = r
  BY <1>2
<1> QED
  BY <1>3 DEF Made

LEMMA Upserted ==
  ASSUME WritePuzzles, quizTodo \subseteq QuizRows(read, patch)
  PROVE  \E rows \in SUBSET quizTodo :
           LET keys == {Key(patch, r[1], r[2]) : r \in rows}
           IN  /\ quizTodo' = quizTodo \ rows
               /\ Quizzes' = keys \cup Quizzes
               /\ \A k \in Quizzes \ keys : puzzles'[k] = puzzles[k]
               /\ \A r \in rows :
                    \E wrong \in Distractors(read, patch, r[1], r[2]) : QuizWritten(r, wrong)
<1>1. PICK rows \in OneBatch(quizTodo) :
        /\ quizTodo' = quizTodo \ rows
        /\ \E wrong : /\ \A r \in rows : wrong[r] \in Distractors(read, patch, r[1], r[2])
                      /\ puzzles' = Upsert(Made(rows, wrong), puzzles)
  BY DEF WritePuzzles
<1>2. PICK wrong : /\ \A r \in rows : wrong[r] \in Distractors(read, patch, r[1], r[2])
                   /\ puzzles' = Upsert(Made(rows, wrong), puzzles)
  BY <1>1
<1> DEFINE keys == {Key(patch, r[1], r[2]) : r \in rows}
<1>3. rows \subseteq quizTodo
  BY <1>1 DEF OneBatch, kSubset
<1>4. DOMAIN Made(rows, wrong) = keys
  BY DEF Made
<1>5. /\ Quizzes' = keys \cup Quizzes
      /\ \A k \in keys : puzzles'[k] = Made(rows, wrong)[k]
      /\ \A k \in Quizzes \ keys : puzzles'[k] = puzzles[k]
  BY <1>2, <1>4 DEF Upsert, Quizzes
<1>6. ASSUME NEW r \in rows PROVE QuizWritten(r, wrong[r])
  <2>1. rows \in SUBSET QuizRows(read, patch)
    BY <1>3
  <2>2. Made(rows, wrong)[Key(patch, r[1], r[2])]
          = [options |-> wrong[r] \cup {r[2]}, answer |-> r[2], basis |-> Basis]
    BY <2>1, MadeRow
  <2> QED
    BY <1>5, <2>2 DEF QuizWritten
<1>7. \A r \in rows : \E w \in Distractors(read, patch, r[1], r[2]) : QuizWritten(r, w)
  BY <1>2, <1>6
<1> HIDE DEF keys
<1> QED
  BY <1>1, <1>3, <1>5, <1>7 DEF keys

----------------------------------------------------------------------------
(* The invariant is inductive *)

LEMMA InvInit == Init => IInv
<1> SUFFICES ASSUME Init PROVE IInv
  OBVIOUS
<1>1. DOMAIN puzzles = {} /\ DOMAIN deckStats = {}
  BY DEF Init
<1>2. TypeOK
  BY <1>1, DeckAssumption DEF Init, TypeOK, Patch
<1> QED
  BY <1>1, <1>2
  DEF Init, IInv, KeyInv, BasisInv, ScreenInv, RunInv, Quizzes, QuizNeverAheadOfStats, AnswerIsRare

(* Between runs: what the crawler and the change of patch do to raw_matches. *)
LEMMA InvStore ==
  ASSUME IInv, Store \/ PatchChanges \/ Prune
  PROVE  IInv'
<1> USE DEF IInv
<1>1. /\ pc = "idle" /\ UNCHANGED <<pc, patch, read, deckTodo, quizTodo, deckStats, puzzles, screen, faults>>
      /\ raw' \subseteq Match /\ current' \in Patch
  BY DEF Store, PatchChanges, Prune, generator, TypeOK, Patch
<1>2. TypeOK'
  BY <1>1 DEF TypeOK
<1>3. KeyInv' /\ ScreenInv' /\ RunInv' /\ QuizNeverAheadOfStats' /\ AnswerIsRare'
  BY <1>1 DEF KeyInv, ScreenInv, RunInv, Quizzes, QuizNeverAheadOfStats, AnswerIsRare
<1>4. BasisInv'
  <2> SUFFICES ASSUME NEW k \in Quizzes
               PROVE  /\ k[1] = current' => puzzles[k].basis \subseteq raw'
                      /\ current' = "old" => k[1] = "old"
    BY <1>1 DEF BasisInv, Quizzes
  <2>1. /\ k[1] = current => puzzles[k].basis \subseteq raw
        /\ current = "old" => k[1] = "old"
    BY DEF BasisInv
  <2>2. CASE Store
    BY <2>1, <2>2 DEF Store
  <2>3. CASE PatchChanges
    BY <2>1, <2>3 DEF PatchChanges
  <2>4. CASE Prune
    <3>1. current' = "new" /\ current = "new" /\ raw' = {m \in raw : PatchOf(m) = "new"}
      BY <2>4 DEF Prune
    <3>2. k[1] = "new" => \A m \in puzzles[k].basis : PatchOf(m) = "new"
      BY DEF KeyInv
    <3> QED
      BY <2>1, <3>1, <3>2
  <2> QED
    BY <2>2, <2>3, <2>4
<1> QED
  BY <1>2, <1>3, <1>4

LEMMA InvGenerate ==
  ASSUME IInv, Generate
  PROVE  IInv'
<1> USE DEF IInv
<1>1. /\ pc' = "stats" /\ patch' = current /\ read' = raw
      /\ deckTodo' = TierDecks(raw, current) /\ quizTodo' = QuizRows(raw, current)
      /\ UNCHANGED <<raw, current, deckStats, puzzles, screen, faults>>
  BY DEF Generate
<1>2. TypeOK'
  <2>1. \A d \in deckTodo' : d \subseteq Unit /\ Cardinality(d) = DeckSize
    BY <1>1, TierDeckType
  <2> QED
    BY <1>1, <2>1 DEF TypeOK
<1>3. KeyInv' /\ BasisInv' /\ ScreenInv' /\ QuizNeverAheadOfStats' /\ AnswerIsRare'
  BY <1>1 DEF KeyInv, BasisInv, ScreenInv, Quizzes, QuizNeverAheadOfStats, AnswerIsRare
<1>4. RunInv'
  BY <1>1 DEF RunInv
<1> QED
  BY <1>2, <1>3, <1>4

(* The statistics of a deck are written anew from matches that include those *)
(* its quizzes were made of.                                                 *)
LEMMA InvDeckStats ==
  ASSUME IInv, WriteDeckStats
  PROVE  IInv'
<1> USE DEF IInv
<1>1. PICK decks \in OneBatch(deckTodo) :
        /\ deckTodo' = deckTodo \ decks
        /\ deckStats' = Upsert([k \in {<<patch, d>> : d \in decks} |-> Basis], deckStats)
  BY DEF WriteDeckStats
<1>2. /\ pc = "stats" /\ read = raw /\ patch = current /\ patch \in Patch
      /\ UNCHANGED <<raw, current, pc, patch, read, quizTodo, puzzles, screen, faults>>
      /\ deckTodo \subseteq TierDecks(read, patch) /\ decks \subseteq deckTodo
      /\ Basis \subseteq Match
  BY <1>1 DEF WriteDeckStats, RunInv, OneBatch, kSubset, Basis, TypeOK
<1> DEFINE keys == {<<patch, d>> : d \in decks}
<1>3. /\ DOMAIN deckStats' = keys \cup DOMAIN deckStats
      /\ \A k \in keys : deckStats'[k] = Basis
      /\ \A k \in DOMAIN deckStats \ keys : deckStats'[k] = deckStats[k]
  BY <1>1 DEF Upsert
<1>4. Basis' = Basis
  BY <1>2 DEF Basis
<1>5. TypeOK'
  <2>1. \A k \in DOMAIN deckStats' : k[1] \in Patch /\ deckStats'[k] \subseteq Match
    BY <1>2, <1>3 DEF TypeOK
  <2>2. \A d \in deckTodo' : d \subseteq Unit /\ Cardinality(d) = DeckSize
    BY <1>1 DEF TypeOK
  <2> QED
    BY <1>2, <2>1, <2>2 DEF TypeOK
<1>6. KeyInv' /\ BasisInv' /\ ScreenInv' /\ AnswerIsRare'
  BY <1>2 DEF KeyInv, BasisInv, ScreenInv, Quizzes, AnswerIsRare
<1>7. QuizNeverAheadOfStats'
  <2> SUFFICES ASSUME NEW k \in Quizzes
               PROVE  /\ <<k[1], k[2]>> \in DOMAIN deckStats'
                      /\ puzzles[k].basis \subseteq deckStats'[<<k[1], k[2]>>]
    BY <1>2 DEF QuizNeverAheadOfStats, Quizzes
  <2>1. /\ <<k[1], k[2]>> \in DOMAIN deckStats
        /\ puzzles[k].basis \subseteq deckStats[<<k[1], k[2]>>]
    BY DEF QuizNeverAheadOfStats, Quizzes
  <2>2. CASE <<k[1], k[2]>> \in keys
    <3>1. k[1] = current
      BY <1>2, <2>2
    <3>2. puzzles[k].basis \subseteq Basis
      BY <1>2, <3>1 DEF BasisInv, KeyInv, Basis
    <3> QED
      BY <1>3, <2>2, <3>2
  <2>3. CASE <<k[1], k[2]>> \notin keys
    BY <1>3, <2>1, <2>3
  <2> QED
    BY <2>2, <2>3
<1>8. RunInv'
  <2>1. \A deck \in TierDecks(read, patch) \ deckTodo' :
          <<patch, deck>> \in DOMAIN deckStats' /\ deckStats'[<<patch, deck>>] = Basis
    BY <1>1, <1>2, <1>3 DEF RunInv
  <2> QED
    BY <1>1, <1>2, <1>4, <2>1 DEF RunInv
<1> QED
  BY <1>5, <1>6, <1>7, <1>8

LEMMA InvThenPuzzles ==
  ASSUME IInv, ThenPuzzles
  PROVE  IInv'
<1> USE DEF IInv
<1>1. /\ pc = "stats" /\ deckTodo = {} /\ pc' = "puzzles" /\ deckTodo' = {}
      /\ UNCHANGED <<raw, current, patch, read, quizTodo, deckStats, puzzles, screen, faults>>
  BY DEF ThenPuzzles, StatsWritten
<1>2. quizTodo = QuizRows(read, patch)
  BY <1>1 DEF RunInv
<1> QED
  BY <1>1, <1>2
  DEF TypeOK, KeyInv, BasisInv, ScreenInv, RunInv, Quizzes, QuizNeverAheadOfStats, AnswerIsRare, Basis

(* A quiz is written after the statistics of its deck, from the same        *)
(* matches; rewritten, it keeps its answer.                                 *)
LEMMA InvPuzzles ==
  ASSUME IInv, WritePuzzles
  PROVE  IInv'
<1> USE DEF IInv
<1>1. /\ pc = "puzzles" /\ read = raw /\ patch = current /\ patch \in Patch
      /\ deckTodo = {} /\ quizTodo \subseteq QuizRows(read, patch)
      /\ UNCHANGED <<raw, current, pc, patch, read, deckTodo, deckStats, screen, faults>>
      /\ \A deck \in TierDecks(read, patch) :
           <<patch, deck>> \in DOMAIN deckStats /\ deckStats[<<patch, deck>>] = Basis
  BY DEF WritePuzzles, RunInv, TypeOK
<1>2. PICK rows \in SUBSET quizTodo :
        LET keys == {Key(patch, r[1], r[2]) : r \in rows}
        IN  /\ quizTodo' = quizTodo \ rows
            /\ Quizzes' = keys \cup Quizzes
            /\ \A k \in Quizzes \ keys : puzzles'[k] = puzzles[k]
            /\ \A r \in rows :
                 \E wrong \in Distractors(read, patch, r[1], r[2]) : QuizWritten(r, wrong)
  BY <1>1, Upserted
<1> DEFINE keys == {Key(patch, r[1], r[2]) : r \in rows}
<1>3. /\ quizTodo' = quizTodo \ rows
      /\ Quizzes' = keys \cup Quizzes
      /\ \A k \in Quizzes \ keys : puzzles'[k] = puzzles[k]
  BY <1>2
<1>4. Basis' = Basis /\ Basis \subseteq raw /\ Basis \subseteq {m \in Match : PatchOf(m) = patch}
  BY <1>1 DEF Basis, TypeOK
(* A row that is written, in the terms of the invariant. *)
<1>5. ASSUME NEW k \in keys
      PROVE  /\ k \in Patch \X (SUBSET Unit) \X Unit
             /\ k[1] = patch /\ k[2] \in TierDecks(read, patch) /\ k[3] \in Asked(read, patch, k[2])
             /\ LET q == puzzles'[k]
                IN  /\ q.answer = k[3] /\ q.basis = Basis
                    /\ k[3] \in q.options /\ Cardinality(q.options) = NOptions
                    /\ q.options \cap k[2] = {k[3]}
  <2>1. PICK r \in rows : k = Key(patch, r[1], r[2])
    OBVIOUS
  <2>2. r[1] \in TierDecks(read, patch) /\ r[2] \in Unit /\ r[2] \in Asked(read, patch, r[1])
    BY <1>1, <2>1 DEF QuizRows
  <2>3. r[1] \subseteq Unit /\ r[2] \in r[1]
    BY <2>2, TierDeckType DEF Asked
  <2>4. PICK wrong \in Distractors(read, patch, r[1], r[2]) : QuizWritten(r, wrong)
    BY <1>2
  <2>5. puzzles'[k] = [options |-> wrong \cup {r[2]}, answer |-> r[2], basis |-> Basis]
    BY <2>1, <2>4 DEF QuizWritten
  <2>6. Cardinality(wrong \cup {r[2]}) = NOptions /\ (wrong \cup {r[2]}) \cap r[1] = {r[2]}
    BY <2>2, <2>3, <2>4, OptionsType
  <2>7. k = <<patch, r[1], r[2]>>
    BY <2>1 DEF Key
  <2> QED
    BY <1>1, <2>2, <2>3, <2>5, <2>6, <2>7
<1> HIDE DEF keys
<1>6. TypeOK'
  <2> SUFFICES ASSUME NEW k \in Quizzes'
               PROVE  /\ puzzles'[k].answer \in puzzles'[k].options
                      /\ Cardinality(puzzles'[k].options) = NOptions
                      /\ puzzles'[k].options \cap k[2] = {puzzles'[k].answer}
    BY <1>1 DEF TypeOK, Quizzes
  <2>1. CASE k \in keys
    BY <1>5, <2>1
  <2>2. CASE k \notin keys
    <3>1. k \in DOMAIN puzzles /\ puzzles'[k] = puzzles[k]
      BY <1>3, <2>2 DEF Quizzes
    <3> QED
      BY <3>1 DEF TypeOK
  <2> QED
    BY <2>1, <2>2
<1>7. KeyInv'
  BY <1>1, <1>3, <1>4, <1>5 DEF KeyInv
<1>8. BasisInv'
  BY <1>1, <1>3, <1>4, <1>5 DEF BasisInv
<1>9. ScreenInv'
  BY <1>1, <1>3 DEF ScreenInv
<1>10. RunInv'
  <2>1. ASSUME NEW r \in QuizRows(read, patch) \ quizTodo'
        PROVE  /\ Key(patch, r[1], r[2]) \in Quizzes'
               /\ puzzles'[Key(patch, r[1], r[2])].basis = Basis
    <3>1. CASE Key(patch, r[1], r[2]) \in keys
      BY <1>3, <1>5, <3>1
    <3>2. CASE Key(patch, r[1], r[2]) \notin keys
      <4>1. r \notin rows
        BY <3>2 DEF keys
      <4>2. r \in QuizRows(read, patch) \ quizTodo
        BY <1>3, <4>1
      <4> QED
        BY <1>1, <1>3, <3>2, <4>2 DEF RunInv
    <3> QED
      BY <3>1, <3>2
  <2> QED
    BY <1>1, <1>3, <1>4, <2>1 DEF RunInv, Key
<1>11. QuizNeverAheadOfStats'
  <2> SUFFICES ASSUME NEW k \in Quizzes'
               PROVE  /\ <<k[1], k[2]>> \in DOMAIN deckStats
                      /\ puzzles'[k].basis \subseteq deckStats[<<k[1], k[2]>>]
    BY <1>1 DEF QuizNeverAheadOfStats, Quizzes
  <2>1. CASE k \in keys
    BY <1>1, <1>5, <2>1
  <2>2. CASE k \notin keys
    BY <1>3, <2>2 DEF QuizNeverAheadOfStats, Quizzes
  <2> QED
    BY <2>1, <2>2
<1>12. AnswerIsRare'
  <2> DEFINE Rare(k, q) == LET boards == BoardsOf(q.basis, k[1])
                           IN  Cardinality({b \in boards : q.answer \in Units(b)}) * 100
                                 <= AppearPercent * Cardinality(boards)
  <2>1. ASSUME NEW k \in keys PROVE Rare(k, puzzles'[k])
    <3>1. k[3] \in Asked(read, patch, k[2])
      BY <1>5
    <3>2. LET boards == BoardsOf({m \in read : PatchOf(m) = patch}, patch)
          IN  Cardinality({b \in boards : k[3] \in Units(b)}) * 100
                <= AppearPercent * Cardinality(boards)
      BY <3>1, AskedIsRare
    <3>3. k[1] = patch /\ puzzles'[k].answer = k[3]
          /\ puzzles'[k].basis = {m \in read : PatchOf(m) = patch}
      BY <1>5 DEF Basis
    <3> QED
      BY <3>2, <3>3
  <2>2. ASSUME NEW k \in Quizzes \ keys PROVE Rare(k, puzzles'[k])
    BY <1>3 DEF AnswerIsRare, Quizzes
  <2>3. \A k \in Quizzes' : Rare(k, puzzles'[k])
    BY <1>3, <2>1, <2>2
  <2> QED
    BY <2>3 DEF AnswerIsRare, Quizzes
<1> QED
  BY <1>6, <1>7, <1>8, <1>9, <1>10, <1>11, <1>12

(* The run is over, at its end or before.                                   *)
LEMMA InvEnds ==
  ASSUME IInv, GeneratorEnds \/ Fails
  PROVE  IInv'
<1>1. /\ Ends /\ UNCHANGED <<raw, current, deckStats, puzzles, screen>>
      /\ faults' \in 0 .. MaxFaults
  BY DeckAssumption DEF GeneratorEnds, Fails, IInv, TypeOK
<1>2. TypeOK'
  BY <1>1 DEF IInv, Ends, TypeOK, Patch
<1> QED
  BY <1>1, <1>2
  DEF IInv, Ends, KeyInv, BasisInv, ScreenInv, RunInv, Quizzes,
      QuizNeverAheadOfStats, AnswerIsRare

(* The user. *)
LEMMA InvScreen ==
  ASSUME IInv, Show \/ Submit
  PROVE  IInv'
<1> USE DEF IInv
<1>1. UNCHANGED <<raw, current, pc, patch, read, deckTodo, quizTodo, deckStats, puzzles, faults>>
  BY DEF Show, Submit, generator
<1>2. ScreenInv'
  <2>1. CASE Show
    BY <2>1 DEF Show, ScreenInv, KeyInv, TypeOK, Quizzes
  <2>2. CASE Submit
    BY <2>2 DEF Submit, ScreenInv
  <2> QED
    BY <2>1, <2>2
<1> QED
  BY <1>1, <1>2
  DEF TypeOK, KeyInv, BasisInv, RunInv, Quizzes, QuizNeverAheadOfStats, AnswerIsRare, Basis

LEMMA InvStep == IInv /\ [Next]_vars => IInv'
<1> SUFFICES ASSUME IInv, [Next]_vars PROVE IInv'
  OBVIOUS
<1>1. CASE Store \/ PatchChanges \/ Prune
  BY <1>1, InvStore
<1>2. CASE Generate
  BY <1>2, InvGenerate
<1>3. CASE WriteDeckStats
  BY <1>3, InvDeckStats
<1>4. CASE ThenPuzzles
  BY <1>4, InvThenPuzzles
<1>5. CASE WritePuzzles
  BY <1>5, InvPuzzles
<1>6. CASE GeneratorEnds \/ Fails
  BY <1>6, InvEnds
<1>7. CASE Show \/ Submit
  BY <1>7, InvScreen
<1>8. CASE UNCHANGED vars
  BY <1>8
  DEF vars, generator, IInv, TypeOK, KeyInv, BasisInv, ScreenInv, RunInv, Quizzes,
      QuizNeverAheadOfStats, AnswerIsRare, Basis
<1> QED
  BY <1>1, <1>2, <1>3, <1>4, <1>5, <1>6, <1>7, <1>8 DEF Next

LEMMA InvHolds == Spec => []IInv
<1> QED
  BY InvInit, InvStep, PTL DEF Spec

----------------------------------------------------------------------------
(* The theorems *)

(* The tables keep their types; in particular every quiz has NOptions       *)
(* options of which only the answer is of the deck.                         *)
THEOREM TypeCorrect == Spec => []TypeOK
<1>1. IInv => TypeOK
  BY DEF IInv
<1> QED
  BY <1>1, InvHolds, PTL

(* Wherever a run fails and however runs, the crawler and the change of     *)
(* patch follow each other, a quiz has the statistics of its deck, from all *)
(* the matches it was made of.                                              *)
THEOREM StatsFirst == Spec => []QuizNeverAheadOfStats
<1>1. IInv => QuizNeverAheadOfStats
  BY DEF IInv
<1> QED
  BY <1>1, InvHolds, PTL

(* For any boards: the unit asked for is on few boards of the quiz's patch, *)
(* whatever the counts over all patches add to it.                          *)
THEOREM RareAnswers == Spec => []AnswerIsRare
<1>1. IInv => AnswerIsRare
  BY DEF IInv
<1> QED
  BY <1>1, InvHolds, PTL

(* A choice is judged by the answer that was among the options shown.       *)
THEOREM FairlyJudged == Spec => []JudgedAsShown
<1>1. IInv => JudgedAsShown
  BY DEF IInv, JudgedAsShown, ScreenInv, KeyInv
<1> QED
  BY <1>1, InvHolds, PTL

(* A run that ends by itself has written all it had to.                     *)
THEOREM RunsComplete == Spec => CompleteRunIsComplete
<1> DEFINE Complete ==
      pc = "puzzles" /\ pc' = "idle" /\ faults' = faults =>
        /\ \A deck \in TierDecks(raw, patch) :
             <<patch, deck>> \in DOMAIN deckStats /\ deckStats[<<patch, deck>>] = Basis
        /\ \A r \in QuizRows(raw, patch) :
             /\ Key(patch, r[1], r[2]) \in DOMAIN puzzles
             /\ puzzles[Key(patch, r[1], r[2])].basis = Basis
<1>1. IInv /\ [Next]_vars => [Complete]_vars
  <2> SUFFICES ASSUME IInv, Next, pc = "puzzles", pc' = "idle", faults' = faults
               PROVE  Complete
    OBVIOUS
  <2>1. GeneratorEnds
    <3>1. ~Fails
      BY DEF Fails, IInv, TypeOK
    <3>2. ~(Store \/ PatchChanges \/ Prune \/ Generate \/ WriteDeckStats \/ ThenPuzzles)
      BY DEF Store, PatchChanges, Prune, Generate, WriteDeckStats, ThenPuzzles
    <3>3. ~(WritePuzzles \/ Show \/ Submit)
      BY DEF WritePuzzles, Show, Submit, generator
    <3> QED
      BY <3>1, <3>2, <3>3 DEF Next
  <2> QED
    BY <2>1 DEF GeneratorEnds, IInv, RunInv, Quizzes
<1>2. CompleteRunIsComplete <=> [][Complete]_vars
  BY DEF CompleteRunIsComplete
<1> HIDE DEF Complete
<1> QED
  BY <1>1, <1>2, InvHolds, PTL DEF Spec
=============================================================================
