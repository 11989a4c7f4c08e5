----------------------------- MODULE QuizServer -----------------------------
(***************************************************************************)
(* The quiz endpoints of the server (src/bin/server.rs) and their queries  *)
(* (src/db.rs).  Requests of different browser tabs run concurrently, a    *)
(* handler is a few statements without a transaction, and the pipeline     *)
(* publishes quizzes and moves to new patches in between (module           *)
(* QuizPublication), or back to an earlier one when a recount is written   *)
(* late (module TwoCrawlers).  Any statement may fail and any answer may   *)
(* get lost.                                                               *)
(*                                                                         *)
(* A quiz is its row in puzzles.  A regeneration rewrites a row in place,  *)
(* so that attempts go on referring to it: whether a choice is right is    *)
(* left open.                                                              *)
(***************************************************************************)
EXTENDS Naturals, Sequences, FiniteSets, Functions

CONSTANTS
  Tab, User,
  UserOf,        \* UserOf[t]: the X-User-Id of a tab; tabs without share "anon"
  Puuid,         \* Puuid[t]: the user a tab is logged in as, or NoUser
  NoUser,
  Puzzle, NoPuzzle,
  TypeOf, IssuedFor, \* of each puzzle its type and patch,
  Group,         \* and its deck or carry; trait quizzes have NoGroup
  LastPatch,     \* bound of the patches, in order 1 .. LastPatch; 0 is none
  MaxAttempts,   \* bound of the rows of puzzle_attempts
  MaxFaults      \* bound of the failures

Types == {"item_combine", "deck_complete", "trait_quiz"}
Modes == {"normal", "review", "daily"}
Patches == 1 .. LastPatch
NoGroup == "none"
Groups == {Group[q] : q \in Puzzle} \cup {NoGroup}

ASSUME UserAssumption ==
  /\ IsFiniteSet(Tab)
  /\ UserOf \in [Tab -> User] /\ Puuid \in [Tab -> User \cup {NoUser}] /\ NoUser \notin User

ASSUME PuzzleAssumption ==
  /\ TypeOf \in [Puzzle -> Types] /\ IssuedFor \in [Puzzle -> Patches]
  /\ NoPuzzle \notin Puzzle

ASSUME ServerAssumption == {LastPatch, MaxAttempts, MaxFaults} \subseteq Nat

VARIABLES
  patch,         \* what current_patch_info answers
  followedBy,    \* history: of each patch that was served, those served since,
                 \* itself included; of the others nothing
  puzzles,       \* the rows there are
  attempts,      \* puzzle_attempts, of a user at a puzzle by created_at; how
                 \* the puzzle was served is history
  pc, asked,     \* the request of each tab: its parameters, the patch it read
  screen,        \* the quiz on the screen of each tab and how it was served
  faults

vars == <<patch, followedBy, puzzles, attempts, pc, asked, screen, faults>>

----------------------------------------------------------------------------
(* Queries *)

Wrong(a) == \E i \in DOMAIN a : ~a[i].correct

(* Still wrong at the latest attempt. *)
StillWrong(a) == a # <<>> /\ ~a[Len(a)].correct

(* Faulty variant: until it is answered right. *)
UnsolvedUntilRight(u, type, p) ==
  {q \in puzzles : /\ TypeOf[q] = type
                   /\ type = "trait_quiz" \/ IssuedFor[q] = p
                   /\ \A i \in DOMAIN attempts[u][q] : ~attempts[u][q][i].correct}

(* Faulty variant: without p.patch = $3. *)
UnsolvedOfAnyPatch(u, type, p) ==
  {q \in puzzles : TypeOf[q] = type /\ attempts[u][q] = <<>>}

(* unsolved_puzzle_by_type: trait quizzes outlive their patch. *)
Unsolved(u, type, p) ==
  {q \in puzzles : /\ TypeOf[q] = type
                   /\ type = "trait_quiz" \/ IssuedFor[q] = p
                   /\ attempts[u][q] = <<>>}

(* Faulty variant: of any patch. *)
ReviewOfAnyPatch(u, p) == {q \in puzzles : Wrong(attempts[u][q])}

(* Faulty variant: the first attempt decides. *)
ReviewOfFirst(u, p) ==
  {q \in puzzles : IssuedFor[q] = p /\ attempts[u][q] # <<>> /\ ~attempts[u][q][1].correct}

(* review_puzzle: of any type. *)
Review(u, p) == {q \in puzzles : IssuedFor[q] = p /\ Wrong(attempts[u][q])}

(* ORDER BY whether it is the group that was asked for, DESC, random().      *)
(* Quizzes that have no group compare as NULL, which DESC puts first.       *)
FirstOf(set, group) ==
  LET In(g) == {q \in set : Group[q] = g}
  IN CASE group # NoGroup /\ In(NoGroup) # {} -> In(NoGroup)
       [] group # NoGroup /\ In(NoGroup) = {} /\ In(group) # {} -> In(group)
       [] OTHER -> set

Found(t) ==
  LET a == asked[t]
  IN CASE a.mode = "normal" -> Unsolved(UserOf[t], a.type, a.patch)
       [] a.mode = "review" -> FirstOf(Review(UserOf[t], a.patch), a.group)

(* answer_quiz records for X-User-Id, submit_attempt for the login, if any. *)
RecordFor(t) == IF screen[t].mode = "daily" THEN Puuid[t] ELSE UserOf[t]

(* What the frontend may ask of next_unsolved: the parameters the queries   *)
(* read; the type of a review is not among them.                            *)
Requests ==
  [mode : {"normal"}, type : {TypeOf[q] : q \in Puzzle}, group : {NoGroup}]
    \cup [mode : {"review"}, type : {"item_combine"}, group : Groups]

NoRequest == [mode |-> "normal", type |-> "item_combine", group |-> NoGroup, patch |-> 0]
NoAttempts == [q \in Puzzle |-> <<>>]
Rows == SumFunction([r \in User \X Puzzle |-> Len(attempts[r[1]][r[2]])])

Fault == faults < MaxFaults /\ faults' = faults + 1

Init ==
  /\ patch = 0 /\ followedBy = [p \in Patches |-> {}] /\ puzzles = {}
  /\ attempts = [u \in User |-> NoAttempts]
  /\ pc = [t \in Tab |-> "idle"] /\ asked = [t \in Tab |-> NoRequest]
  /\ screen = [t \in Tab |-> [puzzle |-> NoPuzzle, mode |-> "normal"]]
  /\ faults = 0

----------------------------------------------------------------------------
(* The pipeline *)

WasServed(p) == p \in followedBy[p]

(* Another row of patch_versions qualifies: of a newer patch, of an older   *)
(* one again, or none.                                                      *)
NewPatch(p) ==
  /\ p # patch
  /\ patch' = p
  /\ followedBy' = [r \in Patches |->
       IF p # 0 /\ (r = p \/ WasServed(r)) THEN followedBy[r] \cup {p} ELSE followedBy[r]]
  /\ UNCHANGED <<puzzles, attempts, pc, asked, screen, faults>>

(* Faulty variant: the rows of other patches are deleted. *)
PublishAlone(q) ==
  /\ q \notin puzzles /\ WasServed(IssuedFor[q])
  /\ puzzles' = {q} \cup {r \in puzzles : IssuedFor[r] = IssuedFor[q]}
  /\ UNCHANGED <<patch, followedBy, attempts, pc, asked, screen, faults>>

(* Quizzes are made for the patch being served when their run began. *)
Publish(q) ==
  /\ q \notin puzzles /\ WasServed(IssuedFor[q])
  /\ puzzles' = puzzles \cup {q}
  /\ UNCHANGED <<patch, followedBy, attempts, pc, asked, screen, faults>>

----------------------------------------------------------------------------
(* The handlers *)

Ready(t) == pc[t] \in {"idle", "shown", "solved"}

(* The request of t is over. *)
Finish(t, next) ==
  pc' = [pc EXCEPT ![t] = next] /\ asked' = [asked EXCEPT ![t] = NoRequest]

(* How a quiz was served matters as long as it can be answered. *)
LeaveScreen(t) == screen' = [screen EXCEPT ![t].mode = "normal"]

(* next_unsolved reads the current patch.  Without one there is nothing to  *)
(* solve.                                                                   *)
Ask(t, r) ==
  /\ Ready(t)
  /\ LeaveScreen(t)
  /\ IF patch = 0 THEN Finish(t, "solved")
     ELSE /\ pc' = [pc EXCEPT ![t] = "query"]
          /\ asked' = [asked EXCEPT ![t] =
               [mode |-> r.mode, type |-> r.type, group |-> r.group, patch |-> patch]]
  /\ UNCHANGED <<patch, followedBy, puzzles, attempts, faults>>

(* daily_puzzle is a single statement over all patches. *)
DailyPuzzle(t, q) ==
  /\ Ready(t) /\ q \in puzzles
  /\ screen' = [screen EXCEPT ![t] = [puzzle |-> q, mode |-> "daily"]]
  /\ pc' = [pc EXCEPT ![t] = "shown"]
  /\ UNCHANGED <<patch, followedBy, puzzles, attempts, asked, faults>>

Serve(t, q) ==
  /\ pc[t] = "query" /\ q \in Found(t)
  /\ screen' = [screen EXCEPT ![t] = [puzzle |-> q, mode |-> asked[t].mode]]
  /\ Finish(t, "shown")
  /\ UNCHANGED <<patch, followedBy, puzzles, attempts, faults>>

ServeNone(t) ==
  /\ pc[t] = "query" /\ Found(t) = {}
  /\ Finish(t, "solved")
  /\ UNCHANGED <<patch, followedBy, puzzles, attempts, screen, faults>>

(* The choice is judged by the row as it is now. *)
Submit(t, correct) ==
  /\ pc[t] = "shown"
  /\ pc' = [pc EXCEPT ![t] = IF correct THEN "right" ELSE "wrong"]
  /\ UNCHANGED <<patch, followedBy, puzzles, attempts, asked, screen, faults>>

(* record_attempt *)
Insert(t) ==
  LET u == RecordFor(t)
      attempt == [correct |-> pc[t] = "right", mode |-> screen[t].mode]
  IN IF u = NoUser THEN UNCHANGED attempts
     ELSE /\ Rows < MaxAttempts
          /\ attempts' = [attempts EXCEPT ![u][screen[t].puzzle] = Append(@, attempt)]

Judged(t) == pc[t] \in {"right", "wrong"}

Record(t) ==
  /\ Judged(t) /\ Insert(t)
  /\ pc' = [pc EXCEPT ![t] = "idle"]
  /\ LeaveScreen(t)
  /\ UNCHANGED <<patch, followedBy, puzzles, asked, faults>>

(* The attempt is recorded, but the answer does not get through: the quiz   *)
(* stays on the screen and may be submitted again.                          *)
RecordLost(t) ==
  /\ Judged(t) /\ Insert(t) /\ Fault
  /\ pc' = [pc EXCEPT ![t] = "shown"]
  /\ UNCHANGED <<patch, followedBy, puzzles, asked, screen>>

(* A statement fails and the request with it. *)
QueryFails(t) ==
  /\ pc[t] = "query" /\ Fault
  /\ Finish(t, "idle")
  /\ UNCHANGED <<patch, followedBy, puzzles, attempts, screen>>

RecordFails(t) ==
  /\ Judged(t) /\ Fault
  /\ pc' = [pc EXCEPT ![t] = "shown"]
  /\ UNCHANGED <<patch, followedBy, puzzles, attempts, asked, screen>>

(* reset_handler *)
Reset(t) ==
  /\ Ready(t)
  /\ attempts' = [attempts EXCEPT ![UserOf[t]] = NoAttempts]
  /\ UNCHANGED <<patch, followedBy, puzzles, pc, asked, screen, faults>>

----------------------------------------------------------------------------
Next ==
  \/ \E p \in 0 .. LastPatch : NewPatch(p)
  \/ \E q \in Puzzle : Publish(q)
  \/ \E t \in Tab :
       \/ \E r \in Requests : Ask(t, r)
       \/ \E q \in Puzzle : Serve(t, q) \/ DailyPuzzle(t, q)
       \/ ServeNone(t)
       \/ \E correct \in BOOLEAN : Submit(t, correct)
       \/ Record(t) \/ RecordLost(t) \/ QueryFails(t) \/ RecordFails(t)
       \/ Reset(t)

Spec == Init /\ [][Next]_vars

----------------------------------------------------------------------------
(* Properties *)

(* The state has its types; a quiz on a screen, and so a judged choice, has  *)
(* its row as long as it can be answered (db.rs:293-303).                   *)
TypeOK ==
  /\ patch \in 0 .. LastPatch /\ followedBy \in [Patches -> SUBSET Patches]
  /\ puzzles \subseteq Puzzle
  /\ attempts \in [User -> [Puzzle -> Seq([correct : BOOLEAN, mode : Modes])]]
  /\ pc \in [Tab -> {"idle", "query", "shown", "solved", "right", "wrong"}]
  /\ asked \in [Tab -> [mode : {"normal", "review"}, type : Types, group : Groups, patch : 0 .. LastPatch]]
  /\ screen \in [Tab -> [puzzle : puzzles \cup {NoPuzzle}, mode : Modes]]
  /\ \A t \in Tab : Judged(t) => screen[t].puzzle # NoPuzzle
  /\ faults \in 0 .. MaxFaults

NormalAttempts(u, q) ==
  {i \in DOMAIN attempts[u][q] : attempts[u][q][i].mode = "normal"}

(* A quiz served as unsolved is counted once in the statistics, but for     *)
(* other tabs of the user that were shown it at the same time and for       *)
(* answers that got lost after they were recorded (server.rs:223-243).      *)
CountedOnce ==
  \A u \in User, q \in Puzzle :
    Cardinality(NormalAttempts(u, q)) <= Cardinality({t \in Tab : UserOf[t] = u}) + faults

Served(t) == pc[t] = "query" /\ pc'[t] = "shown"

(* The server adds no reordering of its own to what the pipeline serves: a  *)
(* tab that was shown a quiz, by whatever endpoint, is served next only     *)
(* quizzes of a patch that was current after that quiz's patch was.  While  *)
(* patches only move on, that is none of an older patch; it gets one only   *)
(* after a late recount went back to it.  Review or not, however requests,  *)
(* changes of patch between the two statements of one (server.rs:273-285)   *)
(* and late publications interleave; trait quizzes outlive their patch.     *)
ServedInOrder ==
  [][\A t \in Tab :
       /\ Served(t)
       /\ screen[t].puzzle # NoPuzzle
       /\ TypeOf[screen'[t].puzzle] # "trait_quiz" \/ asked[t].mode = "review"
       => IssuedFor[screen'[t].puzzle] \in followedBy[IssuedFor[screen[t].puzzle]]]_vars

Pending(u, p) == {q \in puzzles : IssuedFor[q] = p /\ StillWrong(attempts[u][q])}

(* A review that finds nothing leaves nothing to review: every quiz of the  *)
(* patch the user still has wrong is found (db.rs:1103-1104).               *)
ReviewMissesNothing ==
  [][\A t \in Tab :
       pc[t] = "query" /\ asked[t].mode = "review" /\ pc'[t] = "solved"
         => Pending(UserOf[t], asked[t].patch) = {}]_vars

(* A review serves quizzes the user has not got right since (db.rs:1103-    *)
(* 1104).                                                                   *)
ReviewServesPending ==
  [][\A t \in Tab :
       Served(t) /\ asked[t].mode = "review"
         => screen'[t].puzzle \in Pending(UserOf[t], asked[t].patch)]_vars
=============================================================================
