-------------------------- MODULE QuizServerProofs --------------------------
(* Proofs about the quiz server: what its handlers, a few statements each   *)
(* and run concurrently, still promise to a user.                           *)
EXTENDS QuizServer, FiniteSetTheorems, TLAPS

(***************************************************************************)
(* The inductive invariant.                                                *)
(***************************************************************************)

Answerable(t) == pc[t] \in {"shown", "right", "wrong"}

ShownInv == \A t \in Tab : Answerable(t) => screen[t].puzzle # NoPuzzle

(* The patch of a quiz was served, the one served now follows all that      *)
(* were, and what is on a screen while a request is under way was there     *)
(* when the request read the patch.                                         *)
PatchInv ==
  /\ \A q \in puzzles : WasServed(IssuedFor[q])
  /\ patch # 0 => \A p \in Patches : WasServed(p) => patch \in followedBy[p]
  /\ \A t \in Tab :
       pc[t] = "query" /\ screen[t].puzzle # NoPuzzle
         => asked[t].patch \in followedBy[IssuedFor[screen[t].puzzle]]

Tabs(u) == {t \in Tab : UserOf[t] = u}

(* The tabs that may still add an attempt to those counted: a quiz is       *)
(* served as unsolved only while there is none.                             *)
Open(u, q) ==
  {t \in Tabs(u) : Answerable(t) /\ screen[t].puzzle = q /\ screen[t].mode = "normal"}

CountInv ==
  \A u \in User, q \in Puzzle :
    Cardinality(NormalAttempts(u, q)) + Cardinality(Open(u, q)) <= Cardinality(Tabs(u)) + faults

IInv == TypeOK /\ ShownInv /\ PatchInv /\ CountInv

----------------------------------------------------------------------------
(* Attempts and tabs, counted *)

Attempt == [correct : BOOLEAN, mode : Modes]

Normal(a) == {i \in DOMAIN a : a[i].mode = "normal"}

LEMMA NormalFinite ==
  ASSUME NEW a \in Seq(Attempt)
  PROVE  IsFiniteSet(Normal(a)) /\ Cardinality(Normal(a)) \in Nat
<1>1. IsFiniteSet(1 .. Len(a))
  <2>1. 1 \in Int /\ Len(a) \in Int
    OBVIOUS
  <2> QED
    BY <2>1, FS_Interval
<1>2. Normal(a) \subseteq 1 .. Len(a)
  BY DEF Normal
<1>3. IsFiniteSet(Normal(a))
  BY <1>1, <1>2, FS_Subset
<1> QED
  BY <1>3, FS_CardinalityType

LEMMA NormalAppended ==
  ASSUME NEW a \in Seq(Attempt), NEW x \in Attempt
  PROVE  /\ Cardinality(Normal(Append(a, x))) \in Nat
         /\ Cardinality(Normal(Append(a, x))) <= Cardinality(Normal(a)) + 1
         /\ x.mode # "normal" => Normal(Append(a, x)) = Normal(a)
<1> DEFINE b == Append(a, x)
           n == Len(a) + 1
<1>1. /\ b \in Seq(Attempt) /\ DOMAIN b = DOMAIN a \cup {n} /\ n \notin DOMAIN a
      /\ \A i \in DOMAIN a : b[i] = a[i]
      /\ b[n] = x
  OBVIOUS
<1> HIDE DEF b, n
<1>2. Normal(b) \ {n} = Normal(a)
  BY <1>1 DEF Normal
<1>3. IsFiniteSet(Normal(a)) /\ Cardinality(Normal(a)) \in Nat
      /\ IsFiniteSet(Normal(b)) /\ Cardinality(Normal(b)) \in Nat
  BY <1>1, NormalFinite
<1>4. Cardinality(Normal(b)) <= Cardinality(Normal(a)) + 1
  <2>1. CASE n \in Normal(b)
    <3>1. Cardinality(Normal(b) \ {n}) = Cardinality(Normal(b)) - 1
      BY <1>3, <2>1, FS_RemoveElement
    <3>2. Cardinality(Normal(a)) = Cardinality(Normal(b)) - 1
      BY <1>2, <3>1
    <3> QED
      BY <1>3, <3>2
  <2>2. CASE n \notin Normal(b)
    <3>1. Normal(b) = Normal(a)
      BY <1>2, <2>2
    <3> QED
      BY <1>3, <3>1
  <2> QED
    BY <2>1, <2>2
<1>5. x.mode # "normal" => Normal(b) = Normal(a)
  BY <1>1, <1>2 DEF Normal
<1> QED
  BY <1>3, <1>4, <1>5 DEF b

LEMMA SomeTabs ==
  ASSUME NEW u, NEW some \in SUBSET Tabs(u), NEW fewer \in SUBSET some
  PROVE  /\ IsFiniteSet(some) /\ Cardinality(some) \in Nat
         /\ Cardinality(Tabs(u)) \in Nat
         /\ Cardinality(some) <= Cardinality(Tabs(u))
         /\ Cardinality(fewer) \in Nat
         /\ Cardinality(fewer) <= Cardinality(some)
<1>1. IsFiniteSet(Tabs(u))
  BY UserAssumption, FS_Subset DEF Tabs
<1>2. IsFiniteSet(some) /\ Cardinality(some) <= Cardinality(Tabs(u))
  BY <1>1, FS_Subset
<1>3. IsFiniteSet(fewer) /\ Cardinality(fewer) <= Cardinality(some)
  BY <1>2, FS_Subset
<1> QED
  BY <1>1, <1>2, <1>3, FS_CardinalityType

LEMMA AttemptsType ==
  ASSUME TypeOK, NEW u \in User, NEW q \in Puzzle
  PROVE  attempts[u][q] \in Seq(Attempt) /\ NormalAttempts(u, q) = Normal(attempts[u][q])
<1>1. attempts \in [User -> [Puzzle -> Seq(Attempt)]]
  BY DEF TypeOK, Attempt
<1>2. attempts[u][q] \in Seq(Attempt)
  BY <1>1
<1> QED
  BY <1>2 DEF NormalAttempts, Normal

(* A step that adds no attempt and opens no quiz keeps the count.           *)
LEMMA CountKept ==
  ASSUME TypeOK, CountInv, faults' \in Nat, faults' >= faults,
         NEW u \in User, NEW q \in Puzzle,
         NormalAttempts(u, q)' = NormalAttempts(u, q), Open(u, q)' \subseteq Open(u, q)
  PROVE  Cardinality(NormalAttempts(u, q)') + Cardinality(Open(u, q)')
           <= Cardinality(Tabs(u)) + faults'
<1> DEFINE now == Open(u, q)
           then == Open(u, q)'
           n == Cardinality(NormalAttempts(u, q))
<1>1. n + Cardinality(now) <= Cardinality(Tabs(u)) + faults
  BY DEF CountInv
<1>2. n \in Nat
  BY AttemptsType, NormalFinite
<1>3. now \in SUBSET Tabs(u) /\ then \in SUBSET now
  BY DEF Open
<1>4. faults \in Nat
  BY ServerAssumption DEF TypeOK
<1> HIDE DEF now, then, n
<1>5. /\ Cardinality(Tabs(u)) \in Nat /\ Cardinality(now) \in Nat /\ Cardinality(then) \in Nat
      /\ Cardinality(then) <= Cardinality(now)
  BY <1>3, SomeTabs
<1>6. n + Cardinality(then) <= Cardinality(Tabs(u)) + faults'
  BY <1>1, <1>2, <1>4, <1>5
<1> QED
  BY <1>6 DEF now, then, n

(* So does one after which there is no attempt.                             *)
LEMMA CountFresh ==
  ASSUME faults' \in Nat,
         NEW u \in User, NEW q \in Puzzle, NormalAttempts(u, q)' = {}, Open(u, q)' \subseteq Tabs(u)
  PROVE  Cardinality(NormalAttempts(u, q)') + Cardinality(Open(u, q)')
           <= Cardinality(Tabs(u)) + faults'
<1> DEFINE then == Open(u, q)'
<1>1. then \in SUBSET Tabs(u)
  OBVIOUS
<1>2. Cardinality(NormalAttempts(u, q)') = 0
  BY FS_EmptySet
<1> HIDE DEF then
<1>3. /\ Cardinality(Tabs(u)) \in Nat /\ Cardinality(then) \in Nat
      /\ Cardinality(then) <= Cardinality(Tabs(u))
  BY <1>1, SomeTabs
<1>4. 0 + Cardinality(then) <= Cardinality(Tabs(u)) + faults'
  BY <1>3
<1> QED
  BY <1>2, <1>4 DEF then

----------------------------------------------------------------------------
(* The queries *)

LEMMA FirstOfSome ==
  ASSUME NEW set, NEW group
  PROVE  FirstOf(set, group) \subseteq set /\ (FirstOf(set, group) = {} => set = {})
BY DEF FirstOf

LEMMA FoundIs ==
  ASSUME TypeOK, NEW t \in Tab
  PROVE  LET u == UserOf[t]
             p == asked[t].patch
         IN  /\ asked[t].mode \in {"normal", "review"}
             /\ asked[t].mode = "normal" => Found(t) = Unsolved(u, asked[t].type, p)
             /\ asked[t].mode = "review" =>
                  /\ Found(t) \subseteq Review(u, p)
                  /\ Found(t) = {} => Review(u, p) = {}
             /\ Found(t) \subseteq puzzles
<1>1. asked[t].mode \in {"normal", "review"}
  BY DEF TypeOK
<1>2. asked[t].mode = "normal" => Found(t) = Unsolved(UserOf[t], asked[t].type, asked[t].patch)
  BY DEF Found
<1>3. asked[t].mode = "review"
        => Found(t) = FirstOf(Review(UserOf[t], asked[t].patch), asked[t].group)
  BY DEF Found
<1>4. asked[t].mode = "review" =>
        /\ Found(t) \subseteq Review(UserOf[t], asked[t].patch)
        /\ Found(t) = {} => Review(UserOf[t], asked[t].patch) = {}
  BY <1>3, FirstOfSome
<1>5. Unsolved(UserOf[t], asked[t].type, asked[t].patch) \subseteq puzzles
      /\ Review(UserOf[t], asked[t].patch) \subseteq puzzles
  BY DEF Unsolved, Review
<1> QED
  BY <1>1, <1>2, <1>4, <1>5

----------------------------------------------------------------------------
(* The invariant is inductive *)

LEMMA NoAttemptCounted ==
  ASSUME NEW u, NEW q, attempts[u][q] = <<>>
  PROVE  NormalAttempts(u, q) = {}
BY DEF NormalAttempts

LEMMA InvInit == Init => IInv
<1> SUFFICES ASSUME Init PROVE IInv
  OBVIOUS
<1>1. TypeOK
  <2>1. attempts \in [User -> [Puzzle -> Seq([correct : BOOLEAN, mode : Modes])]]
    BY DEF Init, NoAttempts
  <2>2. asked \in [Tab -> [mode : {"normal", "review"}, type : Types, group : Groups,
                           patch : 0 .. LastPatch]]
    BY ServerAssumption DEF Init, NoRequest, Types, Groups
  <2>3. screen \in [Tab -> [puzzle : puzzles \cup {NoPuzzle}, mode : Modes]]
    BY DEF Init, Modes
  <2>4. /\ patch \in 0 .. LastPatch /\ followedBy \in [Patches -> SUBSET Patches]
        /\ faults \in 0 .. MaxFaults
    BY ServerAssumption DEF Init
  <2> QED
    BY <2>1, <2>2, <2>3, <2>4 DEF Init, TypeOK, Judged
<1>2. ShownInv /\ PatchInv
  BY DEF Init, ShownInv, PatchInv, Answerable
<1>3. CountInv
  <2> SUFFICES ASSUME NEW u \in User, NEW q \in Puzzle
               PROVE  Cardinality(NormalAttempts(u, q)) + Cardinality(Open(u, q))
                        <= Cardinality(Tabs(u)) + faults
    BY DEF CountInv
  <2>1. NormalAttempts(u, q) = {} /\ Open(u, q) = {} /\ faults = 0
    BY DEF Init, NormalAttempts, NoAttempts, Open, Answerable, Tabs
  <2>2. {} \in SUBSET Tabs(u)
    OBVIOUS
  <2>3. Cardinality(Tabs(u)) \in Nat /\ Cardinality({}) = 0
    BY <2>2, SomeTabs, FS_EmptySet
  <2> QED
    BY <2>1, <2>3
<1> QED
  BY <1>1, <1>2, <1>3 DEF IInv

(* The pipeline changes neither attempts nor screens.                       *)
LEMMA InvPipeline ==
  ASSUME IInv, (\E p \in 0 .. LastPatch : NewPatch(p)) \/ (\E q \in Puzzle : Publish(q))
  PROVE  IInv'
<1> USE DEF IInv
<1>1. /\ UNCHANGED <<attempts, pc, asked, screen, faults>>
      /\ patch' \in 0 .. LastPatch /\ followedBy' \in [Patches -> SUBSET Patches]
      /\ puzzles \subseteq puzzles' /\ puzzles' \subseteq Puzzle
      /\ \A p \in Patches : followedBy[p] \subseteq followedBy'[p]
      /\ patch' # 0 => \A p \in Patches : p \in followedBy'[p] => patch' \in followedBy'[p]
      /\ \A q \in puzzles' : q \in puzzles \/ WasServed(IssuedFor[q])
  <2>1. ASSUME NEW p \in 0 .. LastPatch, NewPatch(p) PROVE <1>1
    <3>1. p # 0 => p \in Patches
      BY ServerAssumption DEF Patches
    <3>2. /\ UNCHANGED <<puzzles, attempts, pc, asked, screen, faults>> /\ patch' = p
          /\ followedBy' = [r \in Patches |->
               IF p # 0 /\ (r = p \/ WasServed(r)) THEN followedBy[r] \cup {p} ELSE followedBy[r]]
      BY <2>1 DEF NewPatch
    <3>3. followedBy \in [Patches -> SUBSET Patches]
      BY DEF TypeOK
    <3>4. /\ followedBy' \in [Patches -> SUBSET Patches]
          /\ \A r \in Patches : followedBy[r] \subseteq followedBy'[r]
      BY <3>1, <3>2, <3>3
    <3>5. ASSUME p # 0, NEW r \in Patches, r \in followedBy'[r] PROVE p \in followedBy'[r]
      BY <3>2, <3>5 DEF WasServed
    <3> QED
      BY <2>1, <3>2, <3>4, <3>5 DEF TypeOK
  <2>2. ASSUME NEW q \in Puzzle, Publish(q) PROVE <1>1
    BY <2>2 DEF Publish, TypeOK, PatchInv, WasServed
  <2> QED
    BY <2>1, <2>2
<1>2. TypeOK'
  <2>1. screen' \in [Tab -> [puzzle : puzzles' \cup {NoPuzzle}, mode : Modes]]
    BY <1>1 DEF TypeOK
  <2> QED
    BY <1>1, <2>1 DEF TypeOK, Judged
<1>3. ShownInv'
  BY <1>1 DEF ShownInv, Answerable
<1>4. PatchInv'
  <2>1. \A q \in Puzzle : IssuedFor[q] \in Patches
    BY PuzzleAssumption
  <2>2. \A q \in puzzles' : IssuedFor[q] \in followedBy'[IssuedFor[q]]
    BY <1>1, <2>1 DEF PatchInv, WasServed
  <2>3. ASSUME NEW t \in Tab, pc[t] = "query", screen[t].puzzle # NoPuzzle
        PROVE  asked[t].patch \in followedBy'[IssuedFor[screen[t].puzzle]]
    <3>1. screen[t].puzzle \in Puzzle
      BY <2>3 DEF TypeOK
    <3> QED
      BY <1>1, <2>1, <2>3, <3>1 DEF PatchInv
  <2> QED
    BY <1>1, <2>2, <2>3 DEF PatchInv, WasServed
<1>5. CountInv'
  BY <1>1 DEF CountInv, NormalAttempts, Open, Answerable
<1> QED
  BY <1>2, <1>3, <1>4, <1>5

(* What a request for a quiz does to its tab: a quiz that is opened as       *)
(* unsolved is one the user has not attempted.                              *)
Request == [mode : {"normal", "review"}, type : Types, group : Groups, patch : 0 .. LastPatch]
Shown == [puzzle : puzzles \cup {NoPuzzle}, mode : Modes]

Turns(t, next, request, on) ==
  /\ next \in {"idle", "query", "shown", "solved"}
  /\ request \in Request /\ on \in Shown
  /\ pc' = [pc EXCEPT ![t] = next]
  /\ asked' = [asked EXCEPT ![t] = request]
  /\ screen' = [screen EXCEPT ![t] = on]
  /\ \/ /\ next = "shown" /\ on.puzzle \in puzzles
        /\ on.mode = "normal" => attempts[UserOf[t]][on.puzzle] = <<>>
     \/ /\ next = "query" /\ on.puzzle = screen[t].puzzle /\ request.patch = patch /\ patch # 0
     \/ /\ next \in {"idle", "solved"} /\ on.puzzle = screen[t].puzzle

LEMMA RequestTurns ==
  ASSUME TypeOK, NEW t \in Tab,
         \/ \E r \in Requests : Ask(t, r)
         \/ \E q \in Puzzle : Serve(t, q) \/ DailyPuzzle(t, q)
         \/ ServeNone(t) \/ QueryFails(t)
  PROVE  \E next, request, on : Turns(t, next, request, on)
<1>1. patch \in 0 .. LastPatch /\ 0 \in 0 .. LastPatch
  BY ServerAssumption DEF TypeOK
<1>2. asked \in [Tab -> Request] /\ screen \in [Tab -> Shown]
  BY DEF TypeOK, Request, Shown
<1>3. NoRequest \in Request /\ asked[t] \in Request /\ screen[t] \in Shown
  BY <1>1, <1>2 DEF Request, NoRequest, Types, Groups
<1>4. screen = [screen EXCEPT ![t] = screen[t]] /\ asked = [asked EXCEPT ![t] = asked[t]]
  BY <1>2
<1> DEFINE left == [screen[t] EXCEPT !.mode = "normal"]
<1>5. /\ left \in Shown /\ left.puzzle = screen[t].puzzle
      /\ LeaveScreen(t) => screen' = [screen EXCEPT ![t] = left]
  BY <1>2, <1>3 DEF LeaveScreen, Shown, Modes
<1> HIDE DEF left
<1>6. ASSUME NEW r \in Requests, Ask(t, r), patch = 0
      PROVE  Turns(t, "solved", NoRequest, left)
  BY <1>3, <1>5, <1>6 DEF Ask, Finish, Turns
<1>7. ASSUME NEW r \in Requests, Ask(t, r), patch # 0
      PROVE  Turns(t, "query", asked'[t], left)
  <2> DEFINE request == [mode |-> r.mode, type |-> r.type, group |-> r.group, patch |-> patch]
  <2>1. r.mode \in {"normal", "review"} /\ r.type \in Types /\ r.group \in Groups
    BY PuzzleAssumption DEF Requests, Types, Groups
  <2>2. request \in Request /\ request.patch = patch
    BY <1>1, <2>1 DEF Request
  <2>3. /\ pc' = [pc EXCEPT ![t] = "query"]
        /\ asked' = [asked EXCEPT ![t] = request]
        /\ screen' = [screen EXCEPT ![t] = left]
    BY <1>7, <1>5 DEF Ask
  <2> HIDE DEF request
  <2>4. asked'[t] = request
    BY <1>2, <2>3
  <2> QED
    BY <1>5, <1>7, <2>2, <2>3, <2>4 DEF Turns
<1>8. ASSUME NEW q \in Puzzle, Serve(t, q)
      PROVE  Turns(t, "shown", NoRequest, [puzzle |-> q, mode |-> asked[t].mode])
  <2> DEFINE on == [puzzle |-> q, mode |-> asked[t].mode]
  <2>1. q \in Found(t) /\ q \in puzzles /\ asked[t].mode \in {"normal", "review"}
    BY <1>8, FoundIs DEF Serve
  <2>2. on \in Shown /\ on.puzzle \in puzzles
    BY <2>1 DEF Modes, Shown
  <2>3. on.mode = "normal" => attempts[UserOf[t]][on.puzzle] = <<>>
    BY <2>1, FoundIs DEF Unsolved
  <2>4. /\ pc' = [pc EXCEPT ![t] = "shown"]
        /\ asked' = [asked EXCEPT ![t] = NoRequest]
        /\ screen' = [screen EXCEPT ![t] = on]
    BY <1>8 DEF Serve, Finish
  <2> HIDE DEF on
  <2>5. Turns(t, "shown", NoRequest, on)
    BY <1>3, <2>2, <2>3, <2>4 DEF Turns
  <2> QED
    BY <2>5 DEF on
<1>9. ASSUME NEW q \in Puzzle, DailyPuzzle(t, q)
      PROVE  Turns(t, "shown", asked[t], [puzzle |-> q, mode |-> "daily"])
  <2> DEFINE on == [puzzle |-> q, mode |-> "daily"]
  <2>1. on \in Shown /\ on.puzzle \in puzzles /\ on.mode # "normal"
    BY <1>9 DEF DailyPuzzle, Modes, Shown
  <2>2. /\ pc' = [pc EXCEPT ![t] = "shown"] /\ UNCHANGED asked
        /\ screen' = [screen EXCEPT ![t] = on]
    BY <1>9 DEF DailyPuzzle
  <2> HIDE DEF on
  <2>3. Turns(t, "shown", asked[t], on)
    BY <1>3, <1>4, <2>1, <2>2 DEF Turns
  <2> QED
    BY <2>3 DEF on
<1>10. ASSUME ServeNone(t) PROVE Turns(t, "solved", NoRequest, screen[t])
  BY <1>3, <1>4, <1>10 DEF ServeNone, Finish, Turns
<1>11. ASSUME QueryFails(t) PROVE Turns(t, "idle", NoRequest, screen[t])
  BY <1>3, <1>4, <1>11 DEF QueryFails, Finish, Turns
<1> QED
  BY <1>6, <1>7, <1>8, <1>9, <1>10, <1>11

LEMMA InvRequest ==
  ASSUME IInv, NEW t \in Tab,
         \/ \E r \in Requests : Ask(t, r)
         \/ \E q \in Puzzle : Serve(t, q) \/ DailyPuzzle(t, q)
         \/ ServeNone(t) \/ QueryFails(t)
  PROVE  IInv'
<1> USE DEF IInv
<1>1. /\ UNCHANGED <<patch, followedBy, puzzles, attempts>>
      /\ faults' = faults \/ Fault
  BY DEF Ask, Serve, DailyPuzzle, ServeNone, QueryFails
<1>2. faults \in Nat /\ faults' \in 0 .. MaxFaults /\ faults' \in Nat /\ faults' >= faults
  BY <1>1, ServerAssumption DEF TypeOK, Fault
<1>3. asked \in [Tab -> Request] /\ screen \in [Tab -> Shown]
      /\ pc \in [Tab -> {"idle", "query", "shown", "solved", "right", "wrong"}]
  BY DEF TypeOK, Request, Shown
<1>4. PICK next, request, on : Turns(t, next, request, on)
  BY RequestTurns
<1>5. /\ next \in {"idle", "query", "shown", "solved"}
      /\ request \in Request /\ on \in Shown
      /\ \/ /\ next = "shown" /\ on.puzzle \in puzzles
            /\ on.mode = "normal" => attempts[UserOf[t]][on.puzzle] = <<>>
         \/ /\ next = "query" /\ on.puzzle = screen[t].puzzle /\ request.patch = patch /\ patch # 0
         \/ /\ next \in {"idle", "solved"} /\ on.puzzle = screen[t].puzzle
  BY <1>4 DEF Turns
<1>6. \A s \in Tab \ {t} : pc'[s] = pc[s] /\ asked'[s] = asked[s] /\ screen'[s] = screen[s]
  BY <1>3, <1>4 DEF Turns
<1>7. pc'[t] = next /\ asked'[t] = request /\ screen'[t] = on
  BY <1>3, <1>4 DEF Turns
<1>8. TypeOK'
  <2>1. asked' \in [Tab -> Request] /\ screen' \in [Tab -> Shown]
        /\ pc' \in [Tab -> {"idle", "query", "shown", "solved", "right", "wrong"}]
    BY <1>3, <1>4 DEF Turns
  <2>2. \A s \in Tab : Judged(s)' => screen'[s].puzzle # NoPuzzle
    BY <1>5, <1>6, <1>7 DEF Judged, TypeOK
  <2> QED
    BY <1>1, <1>2, <2>1, <2>2 DEF TypeOK, Request, Shown
<1>9. ShownInv'
  <2> SUFFICES ASSUME NEW s \in Tab, Answerable(s)' PROVE screen'[s].puzzle # NoPuzzle
    BY DEF ShownInv
  <2>1. CASE s = t
    <3>1. on.puzzle \in Puzzle
      BY <1>5, <1>7, <2>1 DEF Answerable, TypeOK
    <3> QED
      BY <1>7, <2>1, <3>1, PuzzleAssumption
  <2>2. CASE s # t
    BY <1>6, <2>2 DEF ShownInv, Answerable
  <2> QED
    BY <2>1, <2>2
<1>10. PatchInv'
  <2> SUFFICES ASSUME NEW s \in Tab, pc'[s] = "query", screen'[s].puzzle # NoPuzzle
               PROVE  asked'[s].patch \in followedBy'[IssuedFor[screen'[s].puzzle]]
    BY <1>1 DEF PatchInv, WasServed
  <2>1. CASE s = t
    <3>1. asked'[t].patch = patch /\ patch # 0 /\ screen'[t].puzzle \in puzzles
      BY <1>3, <1>5, <1>7, <2>1 DEF Shown
    <3>2. IssuedFor[screen'[t].puzzle] \in Patches
      BY <3>1, PuzzleAssumption DEF TypeOK
    <3> QED
      BY <1>1, <2>1, <3>1, <3>2 DEF PatchInv
  <2>2. CASE s # t
    BY <1>1, <1>6, <2>2 DEF PatchInv
  <2> QED
    BY <2>1, <2>2
<1>11. CountInv'
  <2> SUFFICES ASSUME NEW u \in User, NEW q \in Puzzle
               PROVE  Cardinality(NormalAttempts(u, q)') + Cardinality(Open(u, q)')
                        <= Cardinality(Tabs(u)) + faults'
    BY DEF CountInv, Tabs
  <2>1. NormalAttempts(u, q)' = NormalAttempts(u, q)
    BY <1>1 DEF NormalAttempts
  <2>2. Open(u, q)' \subseteq Tabs(u)
    BY DEF Open, Tabs
  <2>3. CASE u = UserOf[t] /\ attempts[u][q] = <<>>
    <3>1. NormalAttempts(u, q)' = {}
      BY <2>1, <2>3, NoAttemptCounted
    <3> QED
      BY <1>2, <2>2, <3>1, CountFresh
  <2>4. CASE ~(u = UserOf[t] /\ attempts[u][q] = <<>>)
    <3>1. t \notin Open(u, q)'
      BY <1>5, <1>7, <2>4 DEF Open, Tabs, Answerable
    <3>2. Open(u, q)' \subseteq Open(u, q)
      BY <1>6, <3>1 DEF Open, Tabs, Answerable
    <3> QED
      BY <1>2, <2>1, <3>2, CountKept
  <2> QED
    BY <2>3, <2>4
<1> QED
  BY <1>8, <1>9, <1>10, <1>11

(* A recorded attempt that counts is one of a tab that had the quiz open.   *)
LEMMA Inserted ==
  ASSUME IInv, NEW t \in Tab, Judged(t), Insert(t)
  PROVE  /\ attempts' \in [User -> [Puzzle -> Seq(Attempt)]]
         /\ \A u \in User, q \in Puzzle :
              \/ NormalAttempts(u, q)' = NormalAttempts(u, q)
              \/ /\ t \in Open(u, q)
                 /\ Cardinality(NormalAttempts(u, q)') \in Nat
                 /\ Cardinality(NormalAttempts(u, q)') <= Cardinality(NormalAttempts(u, q)) + 1
<1> USE DEF IInv
<1> DEFINE user == RecordFor(t)
           puzzle == screen[t].puzzle
           attempt == [correct |-> pc[t] = "right", mode |-> screen[t].mode]
<1>1. attempts \in [User -> [Puzzle -> Seq(Attempt)]]
  BY DEF TypeOK, Attempt
<1>2. screen[t] \in Shown
  BY DEF TypeOK, Shown
<1>3. puzzle \in Puzzle
  BY <1>2 DEF TypeOK, Shown
<1>4. attempt \in Attempt
  <2>1. screen[t].mode \in Modes /\ (pc[t] = "right") \in BOOLEAN
    BY <1>2 DEF Shown
  <2> QED
    BY <2>1 DEF Attempt
<1>5. CASE user = NoUser
  BY <1>1, <1>5 DEF Insert, NormalAttempts
<1>6. CASE user # NoUser
  <2>1. user \in User
    BY <1>6, UserAssumption DEF RecordFor
  <2>2. attempts' = [attempts EXCEPT ![user][puzzle] = Append(@, attempt)]
    BY <1>6 DEF Insert
  <2> DEFINE old == attempts[user][puzzle]
  <2>3. old \in Seq(Attempt) /\ Append(old, attempt) \in Seq(Attempt)
    BY <1>1, <1>3, <1>4, <2>1
  <2> HIDE DEF user, puzzle, attempt
  <2>4. attempts' \in [User -> [Puzzle -> Seq(Attempt)]]
    BY <1>1, <2>2, <2>3
  <2>5. ASSUME NEW u \in User, NEW q \in Puzzle, u # user \/ q # puzzle
        PROVE  attempts'[u][q] = attempts[u][q]
    BY <1>1, <1>3, <2>1, <2>2, <2>5
  <2>6. attempts'[user][puzzle] = Append(old, attempt)
    BY <1>1, <1>3, <2>1, <2>2
  <2>7. ASSUME NEW u \in User, NEW q \in Puzzle,
               NormalAttempts(u, q)' # NormalAttempts(u, q)
        PROVE  /\ t \in Open(u, q)
               /\ Cardinality(NormalAttempts(u, q)') \in Nat
               /\ Cardinality(NormalAttempts(u, q)') <= Cardinality(NormalAttempts(u, q)) + 1
    <3>1. u = user /\ q = puzzle
      BY <2>5, <2>7 DEF NormalAttempts
    <3>2. NormalAttempts(u, q) = Normal(old) /\ NormalAttempts(u, q)' = Normal(Append(old, attempt))
      BY <2>6, <3>1 DEF NormalAttempts, Normal
    <3>3. /\ Cardinality(Normal(Append(old, attempt))) \in Nat
          /\ Cardinality(Normal(Append(old, attempt))) <= Cardinality(Normal(old)) + 1
          /\ attempt.mode # "normal" => Normal(Append(old, attempt)) = Normal(old)
      BY <1>4, <2>3, NormalAppended
    <3>4. screen[t].mode = "normal"
      BY <2>7, <3>2, <3>3 DEF attempt
    <3>5. t \in Open(u, q)
      BY <3>1, <3>4 DEF Open, Tabs, Answerable, Judged, RecordFor, user, puzzle
    <3> QED
      BY <3>2, <3>3, <3>5
  <2> QED
    BY <2>4, <2>7
<1> QED
  BY <1>5, <1>6

(* Submit, record_attempt and their failures: only the tab moves.           *)
LEMMA InvAnswer ==
  ASSUME IInv, NEW t \in Tab,
         \/ \E correct \in BOOLEAN : Submit(t, correct)
         \/ Record(t) \/ RecordLost(t) \/ RecordFails(t)
  PROVE  IInv'
<1> USE DEF IInv
<1>1. /\ UNCHANGED <<patch, followedBy, puzzles, asked>>
      /\ pc' = [pc EXCEPT ![t] = pc'[t]]
      /\ UNCHANGED screen \/ (LeaveScreen(t) /\ pc'[t] = "idle")
      /\ Answerable(t) /\ pc'[t] \in {"idle", "shown", "right", "wrong"}
      /\ faults' = faults \/ Fault
      /\ UNCHANGED attempts \/ (Judged(t) /\ Insert(t))
  <2>1. pc \in [Tab -> {"idle", "query", "shown", "solved", "right", "wrong"}]
    BY DEF TypeOK
  <2>2. PICK next \in {"idle", "shown", "right", "wrong"} : pc' = [pc EXCEPT ![t] = next]
    BY DEF Submit, Record, RecordLost, RecordFails
  <2>3. pc'[t] = next
    BY <2>1, <2>2
  <2>4. UNCHANGED screen \/ (LeaveScreen(t) /\ pc'[t] = "idle")
    <3>1. CASE Record(t)
      BY <2>1, <3>1 DEF Record
    <3>2. CASE ~Record(t)
      BY <3>2 DEF Submit, RecordLost, RecordFails
    <3> QED
      BY <3>1, <3>2
  <2>5. /\ UNCHANGED <<patch, followedBy, puzzles, asked>> /\ Answerable(t)
        /\ faults' = faults \/ Fault
    BY DEF Submit, Record, RecordLost, RecordFails, Answerable, Judged
  <2>6. UNCHANGED attempts \/ (Judged(t) /\ Insert(t))
    BY DEF Submit, Record, RecordLost, RecordFails
  <2> QED
    BY <2>2, <2>3, <2>4, <2>5, <2>6
<1>2. faults \in Nat /\ faults' \in 0 .. MaxFaults /\ faults' \in Nat /\ faults' >= faults
  BY <1>1, ServerAssumption DEF TypeOK, Fault
<1>3. pc \in [Tab -> {"idle", "query", "shown", "solved", "right", "wrong"}]
  BY DEF TypeOK
<1>4. \A s \in Tab : pc'[s] = pc[s] \/ (s = t /\ pc'[s] # "query" /\ Answerable(s))
  BY <1>1, <1>3
<1>5. /\ screen' \in [Tab -> [puzzle : puzzles \cup {NoPuzzle}, mode : Modes]]
      /\ \A s \in Tab : screen'[s].puzzle = screen[s].puzzle
      /\ \A s \in Tab : Answerable(s)' => screen'[s] = screen[s]
  <2>1. screen \in [Tab -> [puzzle : puzzles \cup {NoPuzzle}, mode : Modes]]
    BY DEF TypeOK
  <2>2. CASE UNCHANGED screen
    BY <2>1, <2>2
  <2>3. CASE LeaveScreen(t) /\ pc'[t] = "idle"
    BY <2>1, <2>3 DEF LeaveScreen, Modes, Answerable
  <2> QED
    BY <1>1, <2>2, <2>3
<1>6. TypeOK'
  <2>1. attempts' \in [User -> [Puzzle -> Seq([correct : BOOLEAN, mode : Modes])]]
    BY <1>1, Inserted DEF TypeOK, Attempt
  <2>2. pc' \in [Tab -> {"idle", "query", "shown", "solved", "right", "wrong"}]
    BY <1>1, <1>3
  <2>3. \A s \in Tab : Judged(s)' => screen'[s].puzzle # NoPuzzle
    BY <1>1, <1>4, <1>5 DEF Judged, ShownInv, Answerable
  <2> QED
    BY <1>1, <1>2, <1>5, <2>1, <2>2, <2>3 DEF TypeOK
<1>7. ShownInv'
  BY <1>1, <1>4, <1>5 DEF ShownInv, Answerable
<1>8. PatchInv'
  BY <1>1, <1>4, <1>5 DEF PatchInv, WasServed
<1>9. CountInv'
  <2> SUFFICES ASSUME NEW u \in User, NEW q \in Puzzle
               PROVE  Cardinality(NormalAttempts(u, q)') + Cardinality(Open(u, q)')
                        <= Cardinality(Tabs(u)) + faults'
    BY DEF CountInv, Tabs
  <2>1. Open(u, q)' \subseteq Open(u, q)
    BY <1>1, <1>4, <1>5 DEF Open, Answerable, Tabs
  <2>2. CASE NormalAttempts(u, q)' = NormalAttempts(u, q)
    BY <1>2, <2>1, <2>2, CountKept
  <2>3. CASE NormalAttempts(u, q)' # NormalAttempts(u, q)
    <3> DEFINE now == Open(u, q)
               then == Open(u, q)'
               n == Cardinality(NormalAttempts(u, q))
               m == Cardinality(NormalAttempts(u, q)')
    <3>1. Judged(t) /\ Insert(t)
      BY <1>1, <2>3 DEF NormalAttempts
    <3>2. t \in now /\ m \in Nat /\ m <= n + 1
      BY <2>3, <3>1, Inserted
    <3>3. n \in Nat
      BY AttemptsType, NormalFinite
    <3>4. n + Cardinality(now) <= Cardinality(Tabs(u)) + faults
      BY DEF CountInv
    <3>5. now \in SUBSET Tabs(u) /\ then \in SUBSET now
      BY <2>1 DEF Open
    <3>6. \/ t \notin then
          \/ faults' = faults + 1
      BY <1>3, <2>3, <3>1
      DEF Submit, Record, RecordLost, RecordFails, Fault, NormalAttempts, Open, Answerable
    <3> HIDE DEF now, then, n, m
    <3>7. /\ Cardinality(Tabs(u)) \in Nat /\ Cardinality(now) \in Nat /\ IsFiniteSet(now)
          /\ Cardinality(then) \in Nat /\ Cardinality(then) <= Cardinality(now)
      BY <3>5, SomeTabs
    <3>8. m + Cardinality(then) <= Cardinality(Tabs(u)) + faults'
      <4>1. CASE t \notin then
        <5>1. Cardinality(now \ {t}) = Cardinality(now) - 1
          BY <3>2, <3>7, FS_RemoveElement
        <5>2. then \in SUBSET (now \ {t}) /\ now \ {t} \in SUBSET Tabs(u)
          BY <3>5, <4>1
        <5>3. Cardinality(then) <= Cardinality(now \ {t})
          BY <5>2, SomeTabs
        <5> QED
          BY <1>2, <3>2, <3>3, <3>4, <3>7, <5>1, <5>3
      <4>2. CASE faults' = faults + 1
        BY <1>2, <3>2, <3>3, <3>4, <3>7, <4>2
      <4> QED
        BY <3>6, <4>1, <4>2
    <3> QED
      BY <3>8 DEF then, m
  <2> QED
    BY <2>2, <2>3
<1> QED
  BY <1>6, <1>7, <1>8, <1>9

LEMMA InvReset ==
  ASSUME IInv, NEW t \in Tab, Reset(t)
  PROVE  IInv'
<1> USE DEF IInv
<1>1. /\ UNCHANGED <<patch, followedBy, puzzles, pc, asked, screen, faults>>
      /\ attempts' = [attempts EXCEPT ![UserOf[t]] = NoAttempts]
  BY DEF Reset
<1>2. attempts \in [User -> [Puzzle -> Seq(Attempt)]] /\ UserOf[t] \in User
  BY UserAssumption DEF TypeOK, Attempt
<1>3. NoAttempts \in [Puzzle -> Seq(Attempt)]
  BY DEF NoAttempts
<1>4. TypeOK'
  <2>1. attempts' \in [User -> [Puzzle -> Seq([correct : BOOLEAN, mode : Modes])]]
    BY <1>1, <1>2, <1>3 DEF Attempt
  <2> QED
    BY <1>1, <2>1 DEF TypeOK, Judged
<1>5. ShownInv' /\ PatchInv'
  BY <1>1 DEF ShownInv, PatchInv, WasServed, Answerable
<1>6. CountInv'
  <2> SUFFICES ASSUME NEW u \in User, NEW q \in Puzzle
               PROVE  Cardinality(NormalAttempts(u, q)') + Cardinality(Open(u, q)')
                        <= Cardinality(Tabs(u)) + faults'
    BY DEF CountInv, Tabs
  <2>1. faults' \in Nat /\ faults' >= faults
    BY <1>1, ServerAssumption DEF TypeOK
  <2>2. Open(u, q)' = Open(u, q) /\ Open(u, q)' \subseteq Tabs(u)
    BY <1>1 DEF Open, Answerable, Tabs
  <2>3. CASE u = UserOf[t]
    <3>1. attempts'[u][q] = <<>>
      BY <1>1, <1>2, <2>3 DEF NoAttempts
    <3>2. NormalAttempts(u, q)' = {}
      BY <3>1 DEF NormalAttempts
    <3> QED
      BY <2>1, <2>2, <3>2, CountFresh
  <2>4. CASE u # UserOf[t]
    <3>1. attempts'[u] = attempts[u]
      BY <1>1, <1>2, <2>4
    <3>2. NormalAttempts(u, q)' = NormalAttempts(u, q)
      BY <3>1 DEF NormalAttempts
    <3> QED
      BY <2>1, <2>2, <3>2, CountKept
  <2> QED
    BY <2>3, <2>4
<1> QED
  BY <1>4, <1>5, <1>6

LEMMA InvStep == IInv /\ [Next]_vars => IInv'
<1> SUFFICES ASSUME IInv, [Next]_vars PROVE IInv'
  OBVIOUS
<1>1. CASE (\E p \in 0 .. LastPatch : NewPatch(p)) \/ (\E q \in Puzzle : Publish(q))
  BY <1>1, InvPipeline
<1>2. ASSUME NEW t \in Tab,
             \/ \E r \in Requests : Ask(t, r)
             \/ \E q \in Puzzle : Serve(t, q) \/ DailyPuzzle(t, q)
             \/ ServeNone(t) \/ QueryFails(t)
      PROVE  IInv'
  BY <1>2, InvRequest
<1>3. ASSUME NEW t \in Tab,
             \/ \E correct \in BOOLEAN : Submit(t, correct)
             \/ Record(t) \/ RecordLost(t) \/ RecordFails(t)
      PROVE  IInv'
  BY <1>3, InvAnswer
<1>4. ASSUME NEW t \in Tab, Reset(t) PROVE IInv'
  BY <1>4, InvReset
<1>5. CASE UNCHANGED vars
  <2>1. UNCHANGED <<patch, followedBy, puzzles, attempts, pc, asked, screen, faults>>
    BY <1>5 DEF vars
  <2>2. TypeOK'
    BY <2>1 DEF IInv, TypeOK, Judged
  <2>3. ShownInv' /\ PatchInv' /\ CountInv'
    BY <2>1 DEF IInv, ShownInv, Answerable, PatchInv, WasServed, CountInv, NormalAttempts, Open, Tabs
  <2> QED
    BY <2>2, <2>3 DEF IInv
<1> QED
  BY <1>1, <1>2, <1>3, <1>4, <1>5 DEF Next

LEMMA InvHolds == Spec => []IInv
<1> QED
  BY InvInit, InvStep, PTL DEF Spec

----------------------------------------------------------------------------
(* What a request for a quiz comes to *)

LEMMA QueryEnds ==
  ASSUME TypeOK, Next, NEW t \in Tab, pc[t] = "query", pc'[t] # "query"
  PROVE  (\E q \in Puzzle : Serve(t, q)) \/ ServeNone(t) \/ QueryFails(t)
<1>1. pc \in [Tab -> {"idle", "query", "shown", "solved", "right", "wrong"}]
  BY DEF TypeOK
<1>2. pc' # pc
  OBVIOUS
<1>3. PICK s \in Tab :
        \/ \E r \in Requests : Ask(s, r)
        \/ \E q \in Puzzle : Serve(s, q) \/ DailyPuzzle(s, q)
        \/ ServeNone(s)
        \/ \E correct \in BOOLEAN : Submit(s, correct)
        \/ Record(s) \/ RecordLost(s) \/ QueryFails(s) \/ RecordFails(s)
  BY <1>2 DEF Next, NewPatch, Publish, Reset
<1>4. \E next : pc' = [pc EXCEPT ![s] = next]
  BY <1>3 DEF Ask, Serve, DailyPuzzle, ServeNone, Submit, Record, RecordLost, QueryFails,
              RecordFails, Finish
<1>5. s = t
  BY <1>1, <1>4
<1> QED
  BY <1>3, <1>5 DEF Ask, DailyPuzzle, Submit, Record, RecordLost, RecordFails, Ready, Judged

LEMMA ServedBy ==
  ASSUME TypeOK, Next, NEW t \in Tab, Served(t)
  PROVE  \E q \in Found(t) : screen'[t].puzzle = q
<1>1. pc[t] = "query" /\ pc'[t] = "shown"
  BY DEF Served
<1>2. ~ServeNone(t) /\ ~QueryFails(t)
  BY <1>1 DEF ServeNone, QueryFails, Finish, TypeOK
<1>3. PICK q \in Puzzle : Serve(t, q)
  BY <1>1, <1>2, QueryEnds
<1>4. screen'[t] = [puzzle |-> q, mode |-> asked[t].mode] /\ q \in Found(t)
  BY <1>3 DEF Serve, TypeOK
<1> QED
  BY <1>4

(* A quiz still wrong at the latest attempt was wrong once.                 *)
LEMMA PendingInReview ==
  ASSUME TypeOK, NEW u \in User, NEW p
  PROVE  Pending(u, p) \subseteq Review(u, p)
<1> SUFFICES ASSUME NEW q \in puzzles, StillWrong(attempts[u][q]) PROVE Wrong(attempts[u][q])
  BY DEF Pending, Review
<1> DEFINE a == attempts[u][q]
<1>1. a \in Seq(Attempt)
  BY AttemptsType DEF TypeOK
<1>2. a # <<>> /\ ~a[Len(a)].correct
  BY DEF StillWrong
<1> HIDE DEF a
<1>3. Len(a) \in DOMAIN a
  BY <1>1, <1>2
<1> QED
  BY <1>2, <1>3 DEF Wrong, a

----------------------------------------------------------------------------
(* The theorems *)

(* The state keeps its types; in particular every attempt, open quiz and    *)
(* judged choice has its row in puzzles.                                    *)
THEOREM TypeCorrect == Spec => []TypeOK
<1>1. IInv => TypeOK
  BY DEF IInv
<1> QED
  BY <1>1, InvHolds, PTL

(* For any number of tabs, users that share an id included, and of failures *)
(* and resets: no quiz is counted more often than there are tabs of the     *)
(* user and answers that were lost.                                         *)
THEOREM AttemptsBounded == Spec => []CountedOnce
<1>1. IInv => CountedOnce
  <2> SUFFICES ASSUME IInv, NEW u \in User, NEW q \in Puzzle
               PROVE  Cardinality(NormalAttempts(u, q)) <= Cardinality(Tabs(u)) + faults
    BY DEF CountedOnce, Tabs
  <2> USE DEF IInv
  <2> DEFINE n == Cardinality(NormalAttempts(u, q))
             open == Open(u, q)
  <2>1. n + Cardinality(open) <= Cardinality(Tabs(u)) + faults
    BY DEF CountInv
  <2>2. n \in Nat
    BY AttemptsType, NormalFinite
  <2>3. faults \in Nat
    BY ServerAssumption DEF TypeOK
  <2>4. open \in SUBSET Tabs(u)
    BY DEF Open
  <2> HIDE DEF n, open
  <2>5. Cardinality(open) \in Nat /\ Cardinality(Tabs(u)) \in Nat
    BY <2>4, SomeTabs
  <2>6. n <= Cardinality(Tabs(u)) + faults
    BY <2>1, <2>2, <2>3, <2>5
  <2> QED
    BY <2>6 DEF n
<1> QED
  BY <1>1, InvHolds, PTL

(* For any number of patches, coming and going in any order, and however    *)
(* late quizzes are published: from one quiz a tab goes only to quizzes of  *)
(* a patch that was served when that one's patch was or after.              *)
THEOREM OrderKept == Spec => ServedInOrder
<1> DEFINE InOrder ==
      \A t \in Tab :
        /\ Served(t)
        /\ screen[t].puzzle # NoPuzzle
        /\ TypeOf[screen'[t].puzzle] # "trait_quiz" \/ asked[t].mode = "review"
        => IssuedFor[screen'[t].puzzle] \in followedBy[IssuedFor[screen[t].puzzle]]
<1>1. IInv /\ [Next]_vars => [InOrder]_vars
  <2> SUFFICES ASSUME IInv, Next, NEW t \in Tab, Served(t), screen[t].puzzle # NoPuzzle,
                      TypeOf[screen'[t].puzzle] # "trait_quiz" \/ asked[t].mode = "review"
               PROVE  IssuedFor[screen'[t].puzzle] \in followedBy[IssuedFor[screen[t].puzzle]]
    OBVIOUS
  <2> USE DEF IInv
  <2>1. PICK q \in Found(t) : screen'[t].puzzle = q
    BY ServedBy
  <2>2. IssuedFor[q] = asked[t].patch
    <3>1. CASE asked[t].mode = "normal"
      <4>1. q \in Unsolved(UserOf[t], asked[t].type, asked[t].patch)
        BY <2>1, <3>1, FoundIs
      <4>2. asked[t].type # "trait_quiz"
        BY <2>1, <3>1, <4>1 DEF Unsolved
      <4> QED
        BY <4>1, <4>2 DEF Unsolved
    <3>2. CASE asked[t].mode = "review"
      BY <2>1, <3>2, FoundIs DEF Review
    <3> QED
      BY <3>1, <3>2, FoundIs
  <2>3. asked[t].patch \in followedBy[IssuedFor[screen[t].puzzle]]
    BY DEF PatchInv, Served
  <2> QED
    BY <2>1, <2>2, <2>3
<1>2. ServedInOrder <=> [][InOrder]_vars
  BY DEF ServedInOrder
<1> HIDE DEF InOrder
<1> QED
  BY <1>1, <1>2, InvHolds, PTL DEF Spec

(* A review that comes back empty has not overlooked a quiz.                *)
THEOREM ReviewComplete == Spec => ReviewMissesNothing
<1> DEFINE Complete ==
      \A t \in Tab :
        pc[t] = "query" /\ asked[t].mode = "review" /\ pc'[t] = "solved"
          => Pending(UserOf[t], asked[t].patch) = {}
<1>1. IInv /\ [Next]_vars => [Complete]_vars
  <2> SUFFICES ASSUME IInv, Next, NEW t \in Tab,
                      pc[t] = "query", asked[t].mode = "review", pc'[t] = "solved"
               PROVE  Pending(UserOf[t], asked[t].patch) = {}
    OBVIOUS
  <2> USE DEF IInv
  <2>1. ~QueryFails(t) /\ \A q \in Puzzle : ~Serve(t, q)
    BY DEF QueryFails, Serve, Finish, TypeOK
  <2>2. Found(t) = {}
    BY <2>1, QueryEnds DEF ServeNone
  <2>3. Review(UserOf[t], asked[t].patch) = {} /\ UserOf[t] \in User
    BY <2>2, FoundIs, UserAssumption
  <2> QED
    BY <2>3, PendingInReview
<1>2. ReviewMissesNothing <=> [][Complete]_vars
  BY DEF ReviewMissesNothing
<1> HIDE DEF Complete
<1> QED
  BY <1>1, <1>2, InvHolds, PTL DEF Spec
=============================================================================
