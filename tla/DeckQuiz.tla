------------------------------ MODULE DeckQuiz ------------------------------
(***************************************************************************)
(* deck_quiz_gen (src/bin/deck_quiz_gen.rs): the decks of the current      *)
(* patch that place well are written to deck_stats, and for every unit of  *)
(* such a deck that few boards have, a quiz that asks for it.  The reads   *)
(* come first, then the rows, batch by batch, and any statement may fail.  *)
(* A user may have a quiz on the screen while it is made anew.             *)
(*                                                                         *)
(* The scheduler runs one program after another, so raw_matches changes    *)
(* only between runs.  A row is known by the matches it was computed from. *)
(***************************************************************************)
EXTENDS Integers, FiniteSets, FiniteSetsExt

CONSTANTS
  Unit, Cost,     \* the champions, and what each costs
  Board,          \* the boards: [match, place, copies], copies being a
                  \* function from the units on it to how often they are there
  LastMatch, LastOfOldPatch,   \* matches as fetched; the patch changes once
  DeckSize,       \* different units of a deck (8)
  MinGames,       \* RAW_MIN_GAMES (100)
  AppearPercent,  \* MAX_APPEAR_RATE (30)
  NOptions,       \* N_OPTIONS (4)
  Head,           \* candidates for a wrong option (10)
  Batch,          \* rows of one INSERT (500)
  MaxFaults       \* bound

Match == 1 .. LastMatch
Patch == {"old", "new"}
PatchOf(m) == IF m <= LastOfOldPatch THEN "old" ELSE "new"

ASSUME DeckAssumption ==
  /\ {LastMatch, LastOfOldPatch, AppearPercent, MaxFaults} \subseteq Nat
  /\ {DeckSize, MinGames, NOptions, Batch} \subseteq Nat \ {0} /\ Head >= NOptions - 1
  /\ IsFiniteSet(Unit) /\ IsFiniteSet(Board)
  /\ Cost \in [Unit -> 1 .. 5]
  /\ \A b \in Board : /\ b.match \in Match /\ b.place \in 1 .. 8
                      /\ DOMAIN b.copies \subseteq Unit
                      /\ \A u \in DOMAIN b.copies : b.copies[u] \in Nat \ {0}

VARIABLES
  raw, current,           \* raw_matches, and the patch it makes the current one
  pc, patch, read, deckTodo, quizTodo,   \* the run: what it read and has to write
  deckStats, puzzles,     \* the tables, as functions on their keys
  screen,                 \* the quiz a user looks at
  faults

generator == <<pc, patch, read, deckTodo, quizTodo>>
vars == <<raw, current, generator, deckStats, puzzles, screen, faults>>

NoScreen == <<>>

----------------------------------------------------------------------------
(* What the matches say *)

Units(b) == DOMAIN b.copies
BoardsOf(ms, p) == {b \in Board : b.match \in ms /\ PatchOf(b.match) = p}

(* raw_decks: the boards of DeckSize different units, by their units. *)
Decks(ms, p) == {Units(b) : b \in {d \in BoardsOf(ms, p) : Cardinality(Units(d)) = DeckSize}}
Games(ms, p, deck) == {b \in BoardsOf(ms, p) : Units(b) = deck}

(* Often enough played, and the mean place rounds to 5.00 or less. *)
IsTier(ms, p, deck) ==
  LET games == Games(ms, p, deck)
  IN  /\ Cardinality(games) >= MinGames
      /\ MapThenSumSet(LAMBDA b : b.place, games) * 1000 < 5005 * Cardinality(games)

TierDecks(ms, p) == {deck \in Decks(ms, p) : IsTier(ms, p, deck)}

(* unit_appearance_rates: how often a unit stands on a board of any patch,  *)
(* copies counted, ...                                                      *)
Appears(ms, u) ==
  Cardinality(UNION {{b} \X (1 .. b.copies[u]) :
                       b \in {d \in Board : d.match \in ms /\ u \in Units(d)}})

(* Faulty variant: the boards of all patches.                               *)
AllBoards(ms, p) == Cardinality({b \in Board : b.match \in ms})

(* ... and the boards of the patch. *)
TotalBoards(ms, p) == Cardinality(BoardsOf(ms, p))

(* signature_core *)
Asked(ms, p, deck) == {u \in deck : Appears(ms, u) * 100 <= AppearPercent * TotalBoards(ms, p)}

(* Faulty variant: the deck's own units among them.                         *)
MetaPool(ms, p, deck) == UNION TierDecks(ms, p)

(* The units of other tier decks. *)
Pool(ms, p, deck) == (UNION TierDecks(ms, p)) \ deck

QuizRows(ms, p) ==
  {r \in TierDecks(ms, p) \X Unit :
     r[2] \in Asked(ms, p, r[1]) /\ Cardinality(Pool(ms, p, r[1])) >= NOptions - 1}

Away(u, v) == IF Cost[u] >= Cost[v] THEN Cost[u] - Cost[v] ELSE Cost[v] - Cost[u]

(* The wrong options: any of the Head units nearest in cost. *)
Distractors(ms, p, deck, u) ==
  LET pool == Pool(ms, p, deck)
      nearest == {near \in kSubset(Min({Head, Cardinality(pool)}), pool) :
                    \A v \in near, w \in pool \ near : Away(v, u) <= Away(w, u)}
  IN  UNION {kSubset(NOptions - 1, near) : near \in nearest}

(* Faulty variant: one quiz per deck.                                       *)
KeyByDeck(p, deck, u) == <<p, deck, "main">>

(* The unique index the upsert relies on: patch, carry_id, variant. *)
Key(p, deck, u) == <<p, deck, u>>

----------------------------------------------------------------------------
Init ==
  /\ raw = {} /\ current = "old"
  /\ pc = "idle" /\ patch = "old" /\ read = {} /\ deckTodo = {} /\ quizTodo = {}
  /\ deckStats = <<>> /\ puzzles = <<>>
  /\ screen = NoScreen /\ faults = 0

(* Between runs: the crawler stores matches, the newer patch takes over, and *)
(* some time later the matches of the older one are deleted.                 *)
Store ==
  /\ pc = "idle"
  /\ \E m \in Match \ raw : /\ PatchOf(m) = "new" \/ current = "old"
                           /\ raw' = raw \cup {m}
  /\ UNCHANGED <<current, generator, deckStats, puzzles, screen, faults>>

PatchChanges ==
  /\ pc = "idle" /\ current = "old"
  /\ \E m \in raw : PatchOf(m) = "new"
  /\ current' = "new"
  /\ UNCHANGED <<raw, generator, deckStats, puzzles, screen, faults>>

Prune ==
  /\ pc = "idle" /\ current = "new" /\ \E m \in raw : PatchOf(m) = "old"
  /\ raw' = {m \in raw : PatchOf(m) = "new"}
  /\ UNCHANGED <<current, generator, deckStats, puzzles, screen, faults>>

(* The queries, and the rows made of their answers. *)
Generate ==
  /\ pc = "idle"
  /\ patch' = current /\ read' = raw
  /\ deckTodo' = TierDecks(raw, current) /\ quizTodo' = QuizRows(raw, current)
  /\ pc' = "stats"
  /\ UNCHANGED <<raw, current, deckStats, puzzles, screen, faults>>

Basis == {m \in read : PatchOf(m) = patch}

(* Faulty variant: ON CONFLICT DO NOTHING.                                  *)
UpsertNew(rows, table) ==
  [k \in DOMAIN rows \cup DOMAIN table |-> IF k \in DOMAIN table THEN table[k] ELSE rows[k]]

(* ON CONFLICT DO UPDATE. *)
Upsert(rows, table) ==
  [k \in DOMAIN rows \cup DOMAIN table |-> IF k \in DOMAIN rows THEN rows[k] ELSE table[k]]

OneBatch(todo) == kSubset(Min({Batch, Cardinality(todo)}), todo)

(* upsert_deck_stats_batch, one batch *)
WriteDeckStats ==
  /\ pc = "stats" /\ deckTodo # {}
  /\ \E decks \in OneBatch(deckTodo) :
       /\ deckTodo' = deckTodo \ decks
       /\ deckStats' = Upsert([k \in {<<patch, d>> : d \in decks} |-> Basis], deckStats)
  /\ UNCHANGED <<raw, current, pc, patch, read, quizTodo, puzzles, screen, faults>>

(* Faulty variant: the last rows do not fill a batch.                       *)
StatsWrittenShort == Cardinality(deckTodo) < Batch

StatsWritten == deckTodo = {}

ThenPuzzles ==
  /\ pc = "stats" /\ StatsWritten
  /\ pc' = "puzzles" /\ deckTodo' = {}
  /\ UNCHANGED <<raw, current, patch, read, quizTodo, deckStats, puzzles, screen, faults>>

(* The rows of puzzles, with these wrong options. *)
Made(rows, wrong) ==
  [k \in {Key(patch, r[1], r[2]) : r \in rows} |->
     LET r == CHOOSE r \in rows : Key(patch, r[1], r[2]) = k
     IN  [options |-> wrong[r] \cup {r[2]}, answer |-> r[2], basis |-> Basis]]

(* insert_deck_puzzles_batch, one batch.  A row that is there gets new      *)
(* options and a new answer.                                                *)
WritePuzzles ==
  /\ pc = "puzzles" /\ quizTodo # {}
  /\ \E rows \in OneBatch(quizTodo) :
       /\ quizTodo' = quizTodo \ rows
       /\ LET may == [r \in rows |-> Distractors(read, patch, r[1], r[2])]
          IN  \E wrong \in {f \in [rows -> UNION {may[r] : r \in rows}] :
                               \A r \in rows : f[r] \in may[r]} :
               puzzles' = Upsert(Made(rows, wrong), puzzles)
  /\ UNCHANGED <<raw, current, pc, patch, read, deckTodo, deckStats, screen, faults>>

Ends == pc' = "idle" /\ patch' = "old" /\ read' = {} /\ deckTodo' = {} /\ quizTodo' = {}

GeneratorEnds ==
  /\ pc = "puzzles" /\ quizTodo = {}
  /\ Ends
  /\ UNCHANGED <<raw, current, deckStats, puzzles, screen, faults>>

Fails ==
  /\ pc # "idle" /\ faults < MaxFaults
  /\ faults' = faults + 1
  /\ Ends
  /\ UNCHANGED <<raw, current, deckStats, puzzles, screen>>

(* The server shows a quiz and later judges the choice by the row. *)
Show ==
  /\ screen = NoScreen
  /\ \E k \in DOMAIN puzzles : screen' = <<k, puzzles[k].options, puzzles[k].answer>>
  /\ UNCHANGED <<raw, current, generator, deckStats, puzzles, faults>>

Submit ==
  /\ screen # NoScreen
  /\ screen' = NoScreen
  /\ UNCHANGED <<raw, current, generator, deckStats, puzzles, faults>>

----------------------------------------------------------------------------
Next ==
  \/ Store \/ PatchChanges \/ Prune
  \/ Generate \/ WriteDeckStats \/ ThenPuzzles \/ WritePuzzles \/ GeneratorEnds \/ Fails
  \/ Show \/ Submit

Spec == Init /\ [][Next]_vars

----------------------------------------------------------------------------
(* Properties *)

TypeOK ==
  /\ raw \subseteq Match /\ current \in Patch
  /\ pc \in {"idle", "stats", "puzzles"} /\ patch \in Patch /\ read \subseteq Match
  /\ \A d \in deckTodo : d \subseteq Unit /\ Cardinality(d) = DeckSize
  /\ \A k \in DOMAIN deckStats : k[1] \in Patch /\ deckStats[k] \subseteq Match
  /\ \A k \in DOMAIN puzzles :
       LET q == puzzles[k]
       IN  /\ q.answer \in q.options /\ Cardinality(q.options) = NOptions
           /\ q.options \cap k[2] = {q.answer}
  /\ pc = "idle" => deckTodo = {} /\ quizTodo = {}
  /\ faults \in 0 .. MaxFaults

(* Wherever a run is cut short, a quiz of a deck has the deck in deck_stats, *)
(* computed from as many matches (deck_quiz_gen.rs:284-288).                 *)
QuizNeverAheadOfStats ==
  \A k \in DOMAIN puzzles :
    LET deck == <<k[1], k[2]>>
    IN  deck \in DOMAIN deckStats /\ puzzles[k].basis \subseteq deckStats[deck]

(* The unit asked for was on few of the patch's boards: though its copies    *)
(* are counted over all patches and held against the boards of one           *)
(* (db.rs:914-937), the error is on one side.                                *)
AnswerIsRare ==
  \A k \in DOMAIN puzzles :
    LET boards == BoardsOf(puzzles[k].basis, k[1])
    IN  Cardinality({b \in boards : puzzles[k].answer \in Units(b)}) * 100
          <= AppearPercent * Cardinality(boards)

(* A quiz made anew may get other options while a user looks at it, but the  *)
(* choice is judged by the answer that was among those shown                 *)
(* (server.rs:223-243, db.rs:1682-1690).                                     *)
JudgedAsShown ==
  screen # NoScreen =>
    LET row == puzzles[screen[1]]
    IN  row.answer = screen[3] /\ row.answer \in screen[2]

(* A run that ends by itself leaves nothing of the patch behind.             *)
CompleteRunIsComplete ==
  [][pc = "puzzles" /\ pc' = "idle" /\ faults' = faults =>
       /\ \A deck \in TierDecks(raw, patch) :
            <<patch, deck>> \in DOMAIN deckStats /\ deckStats[<<patch, deck>>] = Basis
       /\ \A r \in QuizRows(raw, patch) :
            /\ Key(patch, r[1], r[2]) \in DOMAIN puzzles
            /\ puzzles[Key(patch, r[1], r[2])].basis = Basis]_vars
=============================================================================
