--------------------------- MODULE CrawlerProofs ---------------------------
(* Proofs about the crawler: its types, that it loses no match, and that    *)
(* the patch being served keeps its matches until a newer one is served.    *)
EXTENDS Crawler, PatchTrackingProofs

(***************************************************************************)
(* The inductive invariant.                                                *)
(***************************************************************************)

(* What the phases of a run know of each other.                            *)
PhaseInv ==
  /\ \A p \in Player \ tracked : lastCrawled[p] = Never
  /\ \A m \in Match \ published : now <= GameTime[m] + PublishLag
  /\ pc \in {"idle", "refresh"} => seen = {}
  /\ pc # "crawl" => todo = {}
  /\ pc # "prune" => toPrune = {}
  /\ targetPatch # NoPatch => targetPatch \in targets
  /\ \A p \in toPrune : targetPatch \in targets /\ PatchLt(p, targetPatch)

(* The player being crawled has waited longest of those left.              *)
CurInv ==
  pc = "crawl" =>
    /\ cur \in tracked \ queue
    /\ now <= fetchedAt + MaxCrawl
    /\ \A q \in queue : lastCrawled[cur] <= lastCrawled[q]

(* A match met in this run and not stored is left to a participant this    *)
(* run is through with.                                                    *)
SeenInv ==
  \A m \in seen :
    InPolicy(m) /\ m \notin rawMatches
      => \E q \in (tracked \cap Participants[m]) \ queue :
           ~Passed(q, m) /\ (pc = "crawl" => q # cur)

TodoInv == pc = "crawl" => \A m \in todo : cur \in Participants[m]

(* What the player's new last_crawled_at will be taken to cover is stored, *)
(* still to be taken, met earlier in the run or covered by the old value.  *)
FetchedInv ==
  pc = "crawl" =>
    \A m \in Match :
      /\ InPolicy(m) /\ cur \in Participants[m]
      /\ GameTime[m] + PublishLag < fetchedAt
      => m \in rawMatches \cup todo \cup seen \/ Passed(cur, m)

IInv == /\ TypeOK /\ PhaseInv /\ CurInv /\ SeenInv /\ TodoInv /\ FetchedInv
        /\ NoMatchLost

----------------------------------------------------------------------------
(* Type correctness *)

(* What the queries on patch_versions may answer.                           *)
LEMMA AnswersType ==
  ASSUME TypeOK
  PROVE  /\ CurrentPatchInfo(patchVersions) \subseteq Patches \cup {NoPatch}
         /\ CurrentPatchStartTime(patchVersions, NotBefore) \subseteq Int
<1>1. \A n : Newest(patchVersions, n) \subseteq DOMAIN patchVersions
  BY DEF Newest
<1>2. CurrentPatchInfo(patchVersions) \subseteq Patches \cup {NoPatch}
  BY <1>1 DEF TypeOK, CurrentPatchInfo, Answers
<1>3. \A p \in Newest(patchVersions, MinPatchMatches) :
        patchVersions[p].earliest - PatchMargin \in Int
  BY <1>1, PatchAssumption DEF TypeOK, PatchRow
<1>4. CurrentPatchStartTime(patchVersions, NotBefore) \subseteq Int
  BY <1>3, NumberAssumption DEF CurrentPatchStartTime, Answers
<1> QED
  BY <1>2, <1>4

(* A recount, of whatever rows it has read. *)
LEMMA RecountType ==
  ASSUME TypeOK, NEW rows \in SUBSET published, Recount(rows)
  PROVE  TypeOK'
<1> USE DEF TypeOK
<1>1. /\ DOMAIN patchVersions' \subseteq Patches
      /\ \A p \in DOMAIN patchVersions' : patchVersions'[p] \in PatchRow
  BY ReconciledType DEF Recount
<1>2. toPrune' \subseteq Patches
  BY DEF Recount, EndRun, OlderPatches, Patches
<1>3. /\ pc' \in {"idle", "prune"} /\ faults' \in Nat
      /\ UNCHANGED <<now, published, rawMatches, tracked, lastCrawled, targets, horizon, cut>>
  BY DEF Recount, EndRun, NoFault, world, hist
<1>4. /\ targetPatch' \in Patches \cup {NoPatch} /\ patchStart' \in Int
      /\ tiers' \subseteq Tiers /\ queue' \subseteq tracked
      /\ cur' \in Player \cup {NoPlayer} /\ fetchedAt' \in Nat
      /\ todo' \subseteq published /\ seen' \subseteq published
  BY NumberAssumption DEF Recount, EndRun, NoFault, world, hist
<1> QED
  BY <1>1, <1>2, <1>3, <1>4

LEMMA TypeStep == TypeOK /\ [Next]_vars => TypeOK'
<1> SUFFICES ASSUME TypeOK, [Next]_vars PROVE TypeOK'
  OBVIOUS
<1> USE DEF TypeOK, world, db, hist, Fault, NoFault
<1>1. CASE StartRun
  <2>1. targetPatch' \in Patches \cup {NoPatch} /\ patchStart' \in Int
    BY <1>1, AnswersType, NumberAssumption DEF StartRun
  <2>2. tiers' \subseteq Tiers
    BY <1>1 DEF StartRun, TiersForSample, Tiers
  <2>3. targets' \subseteq Patches
    BY <1>1, <2>1 DEF StartRun
  <2>4. faults' \in Nat
    BY <1>1 DEF StartRun
  <2> QED
    BY <1>1, <2>1, <2>2, <2>3, <2>4 DEF StartRun
<1>2. ASSUME NEW t \in Tiers, RefreshTier(t) PROVE TypeOK'
  BY <1>2, CrawlerAssumption DEF RefreshTier
<1>3. ASSUME NEW t \in Tiers, UpsertFails(t) PROVE TypeOK'
  <2>1. tracked' \subseteq Player
    BY <1>3, CrawlerAssumption DEF UpsertFails
  <2> QED
    BY <1>3, <2>1, NumberAssumption DEF UpsertFails, EndRun
<1>4. CASE SelectPlayers
  BY <1>4 DEF SelectPlayers, PlayersToCrawl
<1>5. ASSUME NEW p \in Player, FetchIds(p) PROVE TypeOK'
  <2>1. PICK last \in {lastCrawled[p], Never}, stored \in {rawMatches, {}} : Fetch(p, last, stored)
    BY <1>5 DEF FetchIds
  <2>2. faults' \in Nat
    BY <1>5 DEF FetchIds
  <2>3. last - Margin \in Int /\ StartTime(last) \in Int
    BY NumberAssumption DEF StartTime, Never
  <2>4. todo' \subseteq published /\ cut' \subseteq published
    BY <2>1 DEF Fetch
  <2>5. horizon' \in Int
    BY <2>1, <2>3 DEF Fetch
  <2> QED
    BY <2>1, <2>2, <2>4, <2>5 DEF Fetch
<1>6. ASSUME NEW p \in Player, FetchFails(p) PROVE TypeOK'
  BY <1>6 DEF FetchFails
<1>7. ASSUME NEW m \in Match, HandleMatch(m) PROVE TypeOK'
  BY <1>7 DEF HandleMatch, TakeMatch
<1>8. ASSUME NEW m \in Match, DetailFails(m) PROVE TypeOK'
  BY <1>8 DEF DetailFails, TakeMatch
<1>9. ASSUME NEW m \in Match, InsertFails(m) PROVE TypeOK'
  BY <1>9 DEF InsertFails, TakeMatch
<1>10. CASE MarkCrawled
  BY <1>10 DEF MarkCrawled
<1>11. CASE Reconcile
  BY <1>11, RecountType DEF Reconcile, TypeOK
<1>12. CASE ReconcileFails
  BY <1>12, NumberAssumption DEF ReconcileFails, EndRun
<1>13. ASSUME NEW p \in toPrune, PrunePatch(p) PROVE TypeOK'
  BY <1>13 DEF PrunePatch
<1>14. CASE EndPrune
  BY <1>14, NumberAssumption DEF EndPrune, EndRun
<1>15. CASE Crash
  BY <1>15, NumberAssumption DEF Crash, EndRun
<1>16. CASE Tick
  BY <1>16 DEF Tick
<1>17. ASSUME NEW m \in Match, Publish(m) PROVE TypeOK'
  BY <1>17 DEF Publish
<1>18. CASE UNCHANGED vars
  BY <1>18 DEF vars
<1> QED
  BY <1>1, <1>2, <1>3, <1>4, <1>5, <1>6, <1>7, <1>8, <1>9, <1>10, <1>11, <1>12, <1>13,
     <1>14, <1>15, <1>16, <1>17, <1>18 DEF Next, CrawlerStep, RunStep, WorldStep

LEMMA TypeInit == Init => TypeOK
<1> SUFFICES ASSUME Init PROVE TypeOK
  OBVIOUS
<1>1. DOMAIN patchVersions = {}
  BY DEF Init
<1> QED
  BY <1>1, NumberAssumption DEF Init, TypeOK

(* Every variable keeps its type: in particular raw_matches holds only      *)
(* listed matches, and the queue of a run only tracked players.             *)
THEOREM TypeCorrect == Spec => []TypeOK
<1> QED
  BY TypeInit, TypeStep, PTL DEF Spec

----------------------------------------------------------------------------
(* No match is lost *)

(* The history variables only grow, so what is in policy only shrinks.      *)
LEMMA PolicyShrinks ==
  ASSUME TypeOK, TypeOK', horizon <= horizon', targets \subseteq targets', cut \subseteq cut',
         NEW m \in Match, InPolicy(m)'
  PROVE  InPolicy(m)
<1>1. GameTime[m] \in Nat /\ horizon \in Int /\ horizon' \in Int
  BY MatchAssumption DEF TypeOK
<1> QED
  BY <1>1 DEF InPolicy

(* A step that moves no last_crawled_at and drops no match of the policy    *)
(* loses nothing: players who become tracked were never crawled.            *)
LEMMA StillFound ==
  ASSUME NoMatchLost, PhaseInv, TypeOK,
         lastCrawled' = lastCrawled, tracked \subseteq tracked', tracked' \subseteq Player,
         \A m \in Match :
           InPolicy(m)' /\ m \notin rawMatches' => InPolicy(m) /\ m \notin rawMatches
  PROVE  NoMatchLost'
<1> SUFFICES ASSUME NEW m \in Match, IsLost(m)' PROVE FALSE
  BY DEF NoMatchLost
<1>1. PICK p \in tracked' \cap Participants[m] : Passed(p, m)'
  BY DEF IsLost
<1>2. Passed(p, m) /\ p \in tracked
  BY <1>1 DEF Passed, PhaseInv
<1>3. \A q \in tracked \cap Participants[m] : Passed(q, m)
  BY DEF IsLost, Passed
<1>4. IsLost(m)
  BY <1>2, <1>3 DEF IsLost
<1> QED
  BY <1>4 DEF NoMatchLost

(* The witnesses of SeenInv outlast a step that reopens nobody's turn.      *)
LEMMA StillSeen ==
  ASSUME SeenInv, TypeOK,
         seen' = seen, lastCrawled' = lastCrawled, tracked \subseteq tracked', queue' \subseteq queue,
         pc' = "crawl" => cur' \in queue \/ (pc = "crawl" /\ cur' = cur),
         \A m \in Match :
           InPolicy(m)' /\ m \notin rawMatches' => InPolicy(m) /\ m \notin rawMatches
  PROVE  SeenInv'
<1> SUFFICES ASSUME NEW m \in seen, InPolicy(m)', m \notin rawMatches'
             PROVE  \E q \in (tracked' \cap Participants[m]) \ queue' :
                      ~Passed(q, m)' /\ (pc' = "crawl" => q # cur')
  BY DEF SeenInv
<1>1. InPolicy(m) /\ m \notin rawMatches
  BY DEF TypeOK
<1>2. PICK q \in (tracked \cap Participants[m]) \ queue :
        ~Passed(q, m) /\ (pc = "crawl" => q # cur)
  BY <1>1 DEF SeenInv
<1>3. ~Passed(q, m)'
  BY <1>2 DEF Passed
<1> QED
  BY <1>2, <1>3

(* A run that ends leaves only what the database says.                      *)
LEMMA RunEnds ==
  ASSUME IInv, TypeOK', EndRun, UNCHANGED <<world, rawMatches, lastCrawled, hist>>,
         tracked \subseteq tracked', tracked' \subseteq Player
  PROVE  IInv'
<1> USE DEF IInv, world, hist
<1>1. horizon <= horizon'
  BY DEF TypeOK
<1>2. NoMatchLost'
  BY <1>1, PolicyShrinks, StillFound
<1>3. PhaseInv'
  BY DEF PhaseInv, EndRun
<1>4. CurInv' /\ SeenInv' /\ TodoInv' /\ FetchedInv'
  BY DEF CurInv, SeenInv, TodoInv, FetchedInv, EndRun
<1> QED
  BY <1>2, <1>3, <1>4

LEMMA InvInit == Init => IInv
<1> SUFFICES ASSUME Init PROVE IInv
  OBVIOUS
<1>1. TypeOK
  BY TypeInit
<1>2. PhaseInv
  BY MatchAssumption, NumberAssumption DEF Init, PhaseInv
<1>3. CurInv /\ SeenInv /\ TodoInv /\ FetchedInv
  BY DEF Init, CurInv, SeenInv, TodoInv, FetchedInv
<1>4. NoMatchLost
  BY DEF Init, NoMatchLost, IsLost
<1> QED
  BY <1>1, <1>2, <1>3, <1>4 DEF IInv

(* The steps that change neither the run's matches nor the table.           *)
LEMMA InvQuiet ==
  ASSUME IInv, TypeOK',
         \/ StartRun \/ SelectPlayers \/ Tick \/ UNCHANGED vars
         \/ (\E t \in Tiers : RefreshTier(t))
         \/ (\E p \in Player : FetchFails(p))
         \/ (\E m \in Match : Publish(m))
         \/ (\E p \in toPrune : PrunePatch(p))
  PROVE  IInv'
<1> USE DEF IInv, world, db, hist
<1>1. /\ lastCrawled' = lastCrawled /\ tracked \subseteq tracked' /\ tracked' \subseteq Player
      /\ seen' = seen /\ todo' = todo /\ cur' = cur /\ fetchedAt' = fetchedAt
      /\ horizon' = horizon /\ targets \subseteq targets' /\ cut' = cut
      /\ (pc' = "crawl" <=> pc = "crawl")
      /\ rawMatches' \subseteq rawMatches
  BY DEF TypeOK, StartRun, SelectPlayers, Tick, vars, RefreshTier, FetchFails, Publish, PrunePatch
<1>2. \A m \in Match : InPolicy(m)' => InPolicy(m)
  BY <1>1, PolicyShrinks DEF TypeOK
<1>3. \A m \in rawMatches \ rawMatches' : ~InPolicy(m)'
  <2>1. CASE \E p \in toPrune : PrunePatch(p)
    BY <2>1 DEF PrunePatch, RowsOf, PhaseInv, InPolicy
  <2>2. CASE ~\E p \in toPrune : PrunePatch(p)
    BY <2>2 DEF StartRun, SelectPlayers, Tick, vars, RefreshTier, FetchFails, Publish
  <2> QED
    BY <2>1, <2>2
<1>4. \A m \in Match :
        InPolicy(m)' /\ m \notin rawMatches' => InPolicy(m) /\ m \notin rawMatches
  BY <1>2, <1>3
<1>5. NoMatchLost'
  BY <1>1, <1>4, StillFound
<1>6. queue' \subseteq queue \/ seen = {}
  BY DEF StartRun, SelectPlayers, Tick, vars, RefreshTier, FetchFails, Publish, PrunePatch,
         PhaseInv
<1>7. SeenInv'
  <2>1. CASE queue' \subseteq queue
    BY <1>1, <1>4, <2>1, StillSeen
  <2>2. CASE seen = {}
    BY <1>1, <2>2 DEF SeenInv
  <2> QED
    BY <1>6, <2>1, <2>2
<1>8. TodoInv'
  BY <1>1 DEF TodoInv
<1>9. FetchedInv'
  <2>1. pc = "crawl" => rawMatches' = rawMatches
    BY DEF StartRun, SelectPlayers, Tick, vars, RefreshTier, FetchFails, Publish, PrunePatch
  <2> QED
    BY <1>1, <1>2, <2>1 DEF FetchedInv, Passed
<1>10. CurInv'
  <2> SUFFICES ASSUME pc' = "crawl" PROVE CurInv'
    BY DEF CurInv
  <2>1. queue' = queue /\ (now' = now \/ now' <= fetchedAt + MaxCrawl)
    BY <1>1, NumberAssumption
    DEF TypeOK, StartRun, SelectPlayers, Tick, vars, RefreshTier, FetchFails, Publish, PrunePatch
  <2> QED
    BY <1>1, <2>1 DEF CurInv
<1>11. PhaseInv'
  <2>1. \A p \in Player \ tracked' : lastCrawled'[p] = Never
    BY <1>1 DEF PhaseInv
  <2>2. \A m \in Match \ published' : now' <= GameTime[m] + PublishLag
    BY MatchAssumption, NumberAssumption
    DEF TypeOK, PhaseInv, StartRun, SelectPlayers, Tick, vars, RefreshTier, FetchFails, Publish,
        PrunePatch
  <2>3. pc' \in {"idle", "refresh"} => seen' = {}
    BY <1>1
    DEF PhaseInv, StartRun, SelectPlayers, Tick, vars, RefreshTier, FetchFails, Publish, PrunePatch
  <2>4. targetPatch' # NoPatch => targetPatch' \in targets'
    BY DEF PhaseInv, StartRun, SelectPlayers, Tick, vars, RefreshTier, FetchFails, Publish,
           PrunePatch
  <2>5. pc' # "prune" => toPrune' = {}
    BY DEF PhaseInv, StartRun, SelectPlayers, Tick, vars, RefreshTier, FetchFails, Publish,
           PrunePatch
  <2>6. \A p \in toPrune' : targetPatch' \in targets' /\ PatchLt(p, targetPatch')
    BY DEF PhaseInv, StartRun, SelectPlayers, Tick, vars, RefreshTier, FetchFails, Publish,
           PrunePatch
  <2> QED
    BY <1>1, <2>1, <2>2, <2>3, <2>4, <2>5, <2>6 DEF PhaseInv
<1> QED
  BY <1>5, <1>7, <1>8, <1>9, <1>10, <1>11

(* The request of a player reaches back to everything not yet passed.       *)
LEMMA InvFetch ==
  ASSUME IInv, TypeOK', NEW p \in Player, FetchIds(p)
  PROVE  IInv'
<1> USE DEF IInv, world, db
<1>1. PICK last \in {lastCrawled[p], Never}, stored \in {rawMatches, {}} :
        Fetch(p, last, stored) /\ stored \subseteq rawMatches
  BY DEF FetchIds
<1> DEFINE start == StartTime(last)
           avail == {m \in published : p \in Participants[m] /\ GameTime[m] >= start}
<1>2. PICK ids \in SUBSET avail :
        /\ todo' = {m \in ids : m \notin stored /\ m \notin seen}
        /\ cut' = cut \cup (avail \ ids)
  BY <1>1 DEF Fetch
<1>3. /\ pc = "players" /\ pc' = "crawl" /\ IsNext(p) /\ cur' = p /\ fetchedAt' = now
      /\ queue' = queue \ {p} /\ seen' = seen /\ targets' = targets
      /\ UNCHANGED <<now, published, rawMatches, tracked, lastCrawled, targetPatch, toPrune>>
  BY <1>1 DEF Fetch
<1>4. start \in Int /\ last \in Int /\ lastCrawled[p] \in Int
  BY NumberAssumption DEF TypeOK, StartTime, Never
<1>5. horizon <= horizon' /\ (last = Never => start <= horizon')
  BY <1>1, <1>4 DEF Fetch, TypeOK
<1>6. \A m \in Match : InPolicy(m)' => InPolicy(m)
  BY <1>2, <1>3, <1>5, PolicyShrinks
<1>7. NoMatchLost'
  BY <1>3, <1>6, StillFound DEF TypeOK
<1>8. SeenInv'
  BY <1>3, <1>6, StillSeen DEF IsNext
<1>9. CurInv'
  BY <1>3, NumberAssumption DEF CurInv, TypeOK, IsNext
<1>10. PhaseInv'
  BY <1>3 DEF PhaseInv
<1>11. TodoInv'
  BY <1>2, <1>3 DEF TodoInv
<1>12. FetchedInv'
  <2> SUFFICES ASSUME NEW m \in Match, InPolicy(m)', p \in Participants[m],
                      GameTime[m] + PublishLag < now, ~Passed(p, m)
               PROVE  m \in rawMatches \cup todo' \cup seen
    BY <1>3 DEF FetchedInv, Passed
  <2>1. m \in published
    BY MatchAssumption, NumberAssumption DEF PhaseInv, TypeOK
  <2>2. GameTime[m] \in Nat /\ GameTime[m] >= NotBefore /\ GameTime[m] >= horizon'
    BY MatchAssumption DEF InPolicy
  <2>3. GameTime[m] >= start
    <3>1. CASE last = Never
      BY <3>1, <1>4, <1>5, <2>2 DEF TypeOK
    <3>2. CASE last # Never
      BY <3>2, <1>1, <1>4, <2>2, NumberAssumption DEF StartTime, Passed
    <3> QED
      BY <3>1, <3>2
  <2>4. m \in avail
    BY <2>1, <2>3
  <2>5. m \in ids
    BY <1>2, <2>4 DEF InPolicy
  <2> QED
    BY <1>1, <1>2, <2>5
<1> QED
  BY <1>7, <1>8, <1>9, <1>10, <1>11, <1>12

(* A match that was taken is stored, out of policy, or still ahead of the   *)
(* player whose crawl it broke off.                                         *)
LEMMA InvMatch ==
  ASSUME IInv, TypeOK', NEW m \in Match, HandleMatch(m) \/ InsertFails(m)
  PROVE  IInv'
<1> USE DEF IInv, world, db, hist
<1>1. /\ pc = "crawl" /\ m \in todo /\ seen' = seen \cup {m} /\ queue' = queue
      /\ rawMatches \subseteq rawMatches'
      /\ UNCHANGED <<now, published, tracked, lastCrawled, targetPatch, toPrune, hist>>
  BY DEF HandleMatch, InsertFails, TakeMatch
<1>2. \A n \in Match : InPolicy(n)' <=> InPolicy(n)
  BY <1>1 DEF InPolicy
<1>3. NoMatchLost'
  BY <1>1, <1>2, StillFound DEF TypeOK
<1>4. PhaseInv'
  BY <1>1 DEF PhaseInv, HandleMatch, InsertFails
<1>5. cur \in tracked \ queue /\ cur \in Participants[m]
  BY <1>1 DEF CurInv, TodoInv
<1>6. CASE HandleMatch(m)
  <2>1. todo' = todo \ {m} /\ UNCHANGED <<pc, cur, fetchedAt>>
    BY <1>6 DEF HandleMatch
  <2>2. InPolicy(m) => m \in rawMatches'
    BY <1>1, <1>6 DEF HandleMatch, IsWanted, InPolicy, PhaseInv
  <2>3. SeenInv'
    BY <1>1, <1>2, <2>1, <2>2 DEF SeenInv, Passed, TypeOK
  <2>4. CurInv' /\ TodoInv'
    BY <1>1, <2>1 DEF CurInv, TodoInv
  <2>5. FetchedInv'
    BY <1>1, <1>2, <2>1 DEF FetchedInv, Passed
  <2> QED
    BY <1>3, <1>4, <2>3, <2>4, <2>5
<1>7. CASE InsertFails(m)
  <2>1. pc' = "players" /\ rawMatches' = rawMatches
    BY <1>7 DEF InsertFails
  <2>2. ASSUME InPolicy(m), m \notin rawMatches
        PROVE  \E q \in (tracked \cap Participants[m]) \ queue : ~Passed(q, m)
    <3>1. CASE ~Passed(cur, m)
      BY <1>5, <3>1
    <3>2. CASE Passed(cur, m)
      <4>1. PICK q \in tracked \cap Participants[m] : ~Passed(q, m)
        BY <1>5, <2>2, <3>2 DEF NoMatchLost, IsLost
      <4>2. /\ lastCrawled[q] \in Nat \cup {Never} /\ lastCrawled[cur] \in Nat \cup {Never}
            /\ GameTime[m] \in Nat
        BY <1>5, MatchAssumption DEF TypeOK
      <4>3. lastCrawled[q] < lastCrawled[cur]
        BY <3>2, <4>1, <4>2, NumberAssumption DEF Passed, Never
      <4>4. q \notin queue
        BY <1>1, <4>2, <4>3 DEF CurInv, Never
      <4> QED
        BY <4>1, <4>4
    <3> QED
      BY <3>1, <3>2
  <2>3. SeenInv'
    BY <1>1, <1>2, <2>1, <2>2 DEF SeenInv, Passed, TypeOK
  <2>4. CurInv' /\ TodoInv' /\ FetchedInv'
    BY <2>1 DEF CurInv, TodoInv, FetchedInv
  <2> QED
    BY <1>3, <1>4, <2>3, <2>4
<1> QED
  BY <1>6, <1>7

(* The margin is what makes now() a safe last_crawled_at: everything older  *)
(* than now() - Margin was listed when the player's ids were fetched.       *)
LEMMA InvMark ==
  ASSUME IInv, TypeOK', MarkCrawled
  PROVE  IInv'
<1> USE DEF IInv, world, hist
<1>1. /\ pc = "crawl" /\ todo = {} /\ pc' = "players" /\ seen' = seen /\ queue' = queue
      /\ UNCHANGED <<now, published, rawMatches, tracked, targetPatch, toPrune, todo, hist>>
  BY DEF MarkCrawled
<1>2. cur \in tracked \ queue /\ now <= fetchedAt + MaxCrawl
  BY <1>1 DEF CurInv
<1>3. \A m \in Match : InPolicy(m)' <=> InPolicy(m)
  BY <1>1 DEF InPolicy
<1>4. \A q \in Player : q # cur => lastCrawled'[q] = lastCrawled[q]
  BY DEF MarkCrawled, TypeOK
<1>5. \A m \in Match, q \in Player : q # cur => (Passed(q, m)' <=> Passed(q, m))
  BY <1>4 DEF Passed
<1>6. PhaseInv'
  BY <1>1, <1>2, <1>4 DEF PhaseInv
<1>7. CurInv' /\ TodoInv' /\ FetchedInv'
  BY <1>1 DEF CurInv, TodoInv, FetchedInv
<1>8. SeenInv'
  <2> SUFFICES ASSUME NEW m \in seen, InPolicy(m), m \notin rawMatches
               PROVE  \E q \in (tracked \cap Participants[m]) \ queue : ~Passed(q, m)'
    BY <1>1, <1>3 DEF SeenInv, TypeOK
  <2>1. PICK q \in (tracked \cap Participants[m]) \ queue : ~Passed(q, m) /\ q # cur
    BY <1>1 DEF SeenInv
  <2> QED
    BY <1>5, <2>1 DEF TypeOK
<1>9. NoMatchLost'
  <2> SUFFICES ASSUME NEW m \in Match, InPolicy(m), m \notin rawMatches,
                      NEW p \in tracked \cap Participants[m], Passed(p, m)',
                      \A q \in tracked \cap Participants[m] : Passed(q, m)'
               PROVE  FALSE
    BY <1>1, <1>3 DEF NoMatchLost, IsLost
  <2>1. \A q \in tracked \cap Participants[m] : q # cur => Passed(q, m)
    BY <1>5 DEF TypeOK
  <2>2. cur \in Participants[m] /\ ~Passed(cur, m)
    BY <2>1 DEF NoMatchLost, IsLost
  <2>3. lastCrawled'[cur] # Never /\ GameTime[m] < lastCrawled'[cur] - Margin
    BY <1>2, <2>2 DEF Passed
  <2>4. lastCrawled'[cur] = now
    BY <2>2, <2>3, <1>2 DEF MarkCrawled, TypeOK, Passed
  <2>5. GameTime[m] < now - Margin
    BY <2>3, <2>4
  <2>6. GameTime[m] + PublishLag < fetchedAt
    BY <1>2, <2>5, MatchAssumption, NumberAssumption, MarginAssumption DEF TypeOK
  <2>7. m \in seen
    BY <1>1, <2>2, <2>6 DEF FetchedInv
  <2>8. \E q \in tracked \cap Participants[m] : ~Passed(q, m) /\ q # cur
    BY <1>1, <2>7 DEF SeenInv
  <2> QED
    BY <2>1, <2>8
<1> QED
  BY <1>6, <1>7, <1>8, <1>9

LEMMA InvRecount ==
  ASSUME IInv, TypeOK', NEW rows, Recount(rows)
  PROVE  IInv'
<1>1. CASE targetPatch = NoPatch
  BY <1>1, RunEnds DEF Recount, IInv, TypeOK, hist
<1>2. CASE targetPatch # NoPatch
  <2>1. /\ pc = "players" /\ pc' = "prune"
        /\ UNCHANGED <<now, published, rawMatches, tracked, lastCrawled, targets, horizon, cut,
                       targetPatch, queue, cur, todo, seen>>
        /\ toPrune' = OlderPatches(rawMatches, targetPatch)
    BY <1>2 DEF Recount, world, hist
  <2>2. horizon <= horizon'
    BY <2>1 DEF IInv, TypeOK
  <2>3. NoMatchLost'
    BY <2>1, <2>2, StillFound, PolicyShrinks DEF IInv, TypeOK
  <2>4. SeenInv'
    BY <2>1, <2>2, StillSeen, PolicyShrinks DEF IInv, TypeOK
  <2>5. PhaseInv'
    BY <1>2, <2>1 DEF IInv, PhaseInv, OlderPatches
  <2>6. CurInv' /\ TodoInv' /\ FetchedInv'
    BY <2>1 DEF CurInv, TodoInv, FetchedInv
  <2> QED
    BY <2>3, <2>4, <2>5, <2>6 DEF IInv
<1> QED
  BY <1>1, <1>2

LEMMA InvStep == IInv /\ "detail" \notin Faults /\ [Next]_vars => IInv'
<1> SUFFICES ASSUME IInv, "detail" \notin Faults, [Next]_vars PROVE IInv'
  OBVIOUS
<1>1. TypeOK'
  BY TypeStep DEF IInv
<1>2. CASE \/ StartRun \/ SelectPlayers \/ Tick \/ UNCHANGED vars
           \/ (\E t \in Tiers : RefreshTier(t))
           \/ (\E p \in Player : FetchFails(p))
           \/ (\E m \in Match : Publish(m))
           \/ (\E p \in toPrune : PrunePatch(p))
  BY <1>1, <1>2, InvQuiet
<1>3. ASSUME NEW t \in Tiers, UpsertFails(t) PROVE IInv'
  BY <1>1, <1>3, RunEnds DEF UpsertFails, TypeOK
<1>4. ASSUME NEW p \in Player, FetchIds(p) PROVE IInv'
  BY <1>1, <1>4, InvFetch
<1>5. ASSUME NEW m \in Match, HandleMatch(m) \/ InsertFails(m) PROVE IInv'
  BY <1>1, <1>5, InvMatch
<1>6. ASSUME NEW m \in Match, DetailFails(m) PROVE IInv'
  BY <1>6 DEF DetailFails, Fault
<1>7. CASE MarkCrawled
  BY <1>1, <1>7, InvMark
<1>8. CASE Reconcile
  BY <1>1, <1>8, InvRecount DEF Reconcile
<1>9. CASE ReconcileFails \/ EndPrune \/ Crash
  BY <1>1, <1>9, RunEnds DEF ReconcileFails, EndPrune, Crash, db, IInv, TypeOK
<1> QED
  BY <1>2, <1>3, <1>4, <1>5, <1>6, <1>7, <1>8, <1>9 DEF Next, CrawlerStep, RunStep, WorldStep

(* For any players, matches and bounds, and whatever else fails: as long as *)
(* no detail request does, a match the policy wants is never lost, although *)
(* players share matches and `seen` hides a match whose insert failed from  *)
(* the players crawled after.                                               *)
THEOREM NothingLost == "detail" \notin Faults /\ Spec => []NoMatchLost
<1> SUFFICES ASSUME "detail" \notin Faults PROVE Spec => []NoMatchLost
  OBVIOUS
<1>1. Init => IInv
  BY InvInit
<1>2. IInv /\ [Next]_vars => IInv'
  BY InvStep
<1>3. IInv => NoMatchLost
  BY DEF IInv
<1> QED
  BY <1>1, <1>2, <1>3, PTL DEF Spec

(***************************************************************************)
(* The patches: pruning works from a target that was read when the run     *)
(* began, and still the patch being served never loses its matches and     *)
(* never goes back.  The inductive invariant for this.                     *)
(***************************************************************************)

Served == CurrentPatchInfo(patchVersions)

PlayedInv ==
  /\ RowsPlayed(patchVersions)
  /\ \A m \in published : GameTime[m] <= now
  /\ \A p \in DOMAIN patchVersions : patchVersions[p].earliest <= now

(* A target that a run remembers has not been overtaken from behind, and    *)
(* what it has to prune is older.                                           *)
TargetInv ==
  /\ targetPatch # NoPatch => \A t \in Served : t # NoPatch /\ ~PatchLt(t, targetPatch)
  /\ \A p \in toPrune : targetPatch # NoPatch /\ PatchLt(p, targetPatch)
  /\ pc # "prune" => toPrune = {}

(* Only the counts of patches older than the one being served are stale. *)
BackedInv == Backed(patchVersions, rawMatches)

PInv == TypeOK /\ PlayedInv /\ TargetInv /\ BackedInv

LEMMA Table == PInv => TableOK(patchVersions)
BY DEF PInv, TypeOK, PlayedInv, TableOK

----------------------------------------------------------------------------
(* The invariant is inductive *)

(* Steps that leave patch_versions alone and remove no match.               *)
LEMMA PKept ==
  ASSUME PInv, TypeOK', patchVersions' = patchVersions, published \subseteq published',
         \A m \in published' : GameTime[m] <= now', now <= now', rawMatches \subseteq rawMatches',
         \/ targetPatch' = targetPatch /\ toPrune' \subseteq toPrune
         \/ targetPatch' = NoPatch /\ toPrune' = {},
         pc' # "prune" => toPrune' = {}
  PROVE  PInv'
<1> USE DEF PInv
<1>1. PlayedInv'
  <2>1. \A p \in DOMAIN patchVersions : patchVersions[p].earliest <= now'
    BY DEF PlayedInv, TypeOK, PatchRow
  <2> QED
    BY <2>1 DEF PlayedInv
<1>2. Served' = Served
  BY DEF Served
<1>3. TargetInv'
  BY <1>2 DEF TargetInv
<1>4. BackedInv'
  BY Table, BackedMore DEF BackedInv, TypeOK
<1> QED
  BY <1>1, <1>3, <1>4

(* The target a run starts with is a patch that is served, or none. *)
LEMMA PStart ==
  ASSUME NewerPlayedLater, PInv, TypeOK', StartRun
  PROVE  PInv'
<1> USE DEF PInv
<1>1. /\ UNCHANGED <<now, published, rawMatches, patchVersions, toPrune>> /\ pc = "idle"
      /\ targetPatch' \in Served \cup {NoPatch}
  BY DEF StartRun, world, db, Served
<1>2. Served' = Served
  BY <1>1 DEF Served
<1>3. toPrune = {}
  BY <1>1 DEF TargetInv
<1>4. ASSUME targetPatch' # NoPatch, NEW t \in Served
      PROVE  t # NoPatch /\ ~PatchLt(t, targetPatch')
  <2>1. targetPatch' \in Served
    BY <1>1, <1>4
  <2>2. t # NoPatch
    BY <1>4, <2>1, ServedIs DEF Served, TypeOK
  <2>3. /\ targetPatch' \in DOMAIN patchVersions
        /\ patchVersions[targetPatch'].count >= MinPatchMatches
    BY <1>4, <2>1, ServedIs DEF Served, TypeOK
  <2> QED
    BY <2>2, <2>3, ServedNewest DEF Served, PlayedInv, TypeOK
<1>5. TargetInv'
  BY <1>1, <1>2, <1>3, <1>4 DEF TargetInv
<1>6. PlayedInv' /\ BackedInv'
  BY <1>1, <1>2 DEF PlayedInv, BackedInv
<1> QED
  BY <1>5, <1>6

(* What is pruned is older than the patch being served. *)
LEMMA PrunedIsOlder ==
  ASSUME PInv, NEW p \in toPrune
  PROVE  Served # {} /\ \A t \in Served : t # NoPatch /\ PatchLt(p, t)
<1> USE DEF PInv
<1> SUFFICES ASSUME NEW t \in Served PROVE t # NoPatch /\ PatchLt(p, t)
  BY ServedIs DEF Served, TypeOK
<1>1. targetPatch # NoPatch /\ PatchLt(p, targetPatch)
  BY DEF TargetInv
<1>2. t # NoPatch /\ ~PatchLt(t, targetPatch)
  BY <1>1 DEF TargetInv
<1>3. t \in Patches /\ p \in Patches /\ targetPatch \in Patches
  BY <1>1, <1>2, ServedIs DEF Served, TypeOK
<1> QED
  BY <1>1, <1>2, <1>3, PatchOrder

LEMMA PPrune ==
  ASSUME PInv, TypeOK', NEW p \in toPrune, PrunePatch(p)
  PROVE  PInv'
<1> USE DEF PInv
<1>1. /\ UNCHANGED <<now, published, patchVersions, targetPatch, pc>>
      /\ toPrune' \subseteq toPrune
      /\ rawMatches' = rawMatches \ RowsOf(rawMatches, p)
  BY DEF PrunePatch, world
<1>2. Served' = Served
  BY <1>1 DEF Served
<1>3. PlayedInv' /\ TargetInv'
  BY <1>1, <1>2 DEF PlayedInv, TargetInv
<1>4. BackedInv'
  <2>1. Surpassed(patchVersions, p)
    BY PrunedIsOlder DEF Served, Surpassed
  <2>2. rawMatches \in SUBSET Match
    BY DEF TypeOK
  <2> QED
    BY <1>1, <2>1, <2>2, BackedPruned DEF BackedInv
<1> QED
  BY <1>3, <1>4

(* A recount finds the patch that is served with its matches, so that no    *)
(* older one takes its place.                                               *)
LEMMA Recounted ==
  ASSUME NewerPlayedLater, PInv, TypeOK', UNCHANGED <<now, published, rawMatches>>,
         patchVersions' = Reconciled(patchVersions, rawMatches)
  PROVE  /\ PlayedInv' /\ BackedInv'
         /\ \A t \in Served, u \in Served' : t # NoPatch => u # NoPatch /\ ~PatchLt(u, t)
<1> USE DEF PInv
<1>1. rawMatches \in SUBSET Match /\ rawMatches \subseteq published
  BY DEF TypeOK
<1>2. /\ TableOK(patchVersions') /\ Backed(patchVersions', rawMatches)
      /\ \A t \in Served, u \in Served' : t # NoPatch => u # NoPatch /\ ~PatchLt(u, t)
  BY <1>1, Table, Recounting DEF BackedInv, Served
<1>3. ASSUME NEW p \in DOMAIN patchVersions' PROVE patchVersions'[p].earliest <= now
  <2> DEFINE new == Reconciled(patchVersions, rawMatches)
  <2>1. CASE p \in DOMAIN patchVersions /\ new[p].earliest = patchVersions[p].earliest
    BY <2>1 DEF PlayedInv
  <2>2. CASE \E m \in RowsOf(rawMatches, p) : new[p].earliest = GameTime[m]
    BY <1>1, <2>2 DEF PlayedInv, RowsOf
  <2>3. \/ p \in DOMAIN patchVersions /\ new[p].earliest = patchVersions[p].earliest
        \/ \E m \in RowsOf(rawMatches, p) : new[p].earliest = GameTime[m]
    <3>1. p \in DOMAIN new
      OBVIOUS
    <3> QED
      BY <1>1, <3>1, ReconciledRow
  <2> QED
    BY <2>1, <2>2, <2>3
<1> QED
  BY <1>2, <1>3 DEF PlayedInv, BackedInv, TableOK

LEMMA PReconcile ==
  ASSUME NewerPlayedLater, PInv, TypeOK', Reconcile
  PROVE  PInv'
<1> USE DEF PInv
<1>1. /\ UNCHANGED <<now, published, rawMatches>>
      /\ patchVersions' = Reconciled(patchVersions, rawMatches)
  BY DEF Reconcile, Recount, world
<1>2. /\ PlayedInv' /\ BackedInv'
      /\ \A t \in Served, u \in Served' : t # NoPatch => u # NoPatch /\ ~PatchLt(u, t)
  BY <1>1, Recounted
<1>3. CASE targetPatch = NoPatch
  BY <1>2, <1>3 DEF Reconcile, Recount, EndRun, TargetInv
<1>4. CASE targetPatch # NoPatch
  <2>1. /\ targetPatch' = targetPatch /\ pc' = "prune"
        /\ \A p \in toPrune' : PatchLt(p, targetPatch)
    BY <1>4 DEF Reconcile, Recount, OlderPatches
  <2>2. ASSUME NEW u \in Served' PROVE u # NoPatch /\ ~PatchLt(u, targetPatch)
    <3>1. PICK t \in Served : t # NoPatch /\ ~PatchLt(t, targetPatch)
      BY <1>4, ServedIs DEF Served, TypeOK, TargetInv
    <3>2. u # NoPatch /\ ~PatchLt(u, t)
      BY <1>2, <3>1
    <3>3. t \in Patches /\ u \in Patches /\ targetPatch \in Patches
      BY <1>4, <3>1, <3>2, ServedIs DEF Served, TypeOK
    <3> QED
      BY <3>1, <3>2, <3>3, PatchOrder
  <2> QED
    BY <1>2, <1>4, <2>1, <2>2 DEF TargetInv
<1> QED
  BY <1>3, <1>4

(* Every other step. *)
Other ==
  \/ \E t \in Tiers : RefreshTier(t) \/ UpsertFails(t)
  \/ SelectPlayers
  \/ \E p \in Player : FetchIds(p) \/ FetchFails(p)
  \/ \E m \in Match : HandleMatch(m) \/ DetailFails(m) \/ InsertFails(m)
  \/ MarkCrawled \/ ReconcileFails \/ EndPrune \/ Crash
  \/ Tick \/ \E m \in Match : Publish(m)
  \/ UNCHANGED vars

LEMMA OtherKeeps ==
  ASSUME TypeOK, TypeOK', Other, \A m \in published : GameTime[m] <= now
  PROVE  /\ UNCHANGED <<patchVersions, targets>>
         /\ published \subseteq published' /\ now <= now'
         /\ \A m \in published' : GameTime[m] <= now'
         /\ rawMatches \subseteq rawMatches'
         /\ \/ targetPatch' = targetPatch /\ toPrune' \subseteq toPrune
            \/ targetPatch' = NoPatch /\ toPrune' = {}
         /\ (pc # "prune" => toPrune = {}) => (pc' # "prune" => toPrune' = {})
<1> USE DEF world, db, hist
<1>1. UNCHANGED <<patchVersions, targets>>
  BY DEF Other, RefreshTier, UpsertFails, SelectPlayers, FetchIds, FetchFails, Fetch, HandleMatch,
         DetailFails, InsertFails, MarkCrawled, ReconcileFails, EndPrune, Crash, Tick, Publish, vars
<1>2. published \subseteq published' /\ now <= now'
      /\ \A m \in published' : GameTime[m] <= now'
  <2>1. now \in Nat /\ now' \in Nat /\ published' \subseteq Match
    BY DEF TypeOK
  <2>2. CASE Tick
    BY <2>1, <2>2, MatchAssumption DEF Tick
  <2>3. CASE \E m \in Match : Publish(m)
    BY <2>1, <2>3 DEF Publish
  <2>4. CASE ~Tick /\ ~\E m \in Match : Publish(m)
    <3>1. UNCHANGED <<now, published>>
      BY <2>4 DEF Other, RefreshTier, UpsertFails, SelectPlayers, FetchIds, FetchFails, Fetch,
                  HandleMatch, DetailFails, InsertFails, MarkCrawled, ReconcileFails, EndPrune,
                  Crash, vars
    <3> QED
      BY <2>1, <3>1
  <2> QED
    BY <2>2, <2>3, <2>4
<1>3. rawMatches \subseteq rawMatches'
  BY DEF Other, RefreshTier, UpsertFails, SelectPlayers, FetchIds, FetchFails, Fetch, HandleMatch,
         DetailFails, InsertFails, MarkCrawled, ReconcileFails, EndPrune, Crash, Tick, Publish, vars
<1>4. \/ UNCHANGED <<targetPatch, toPrune>>
      \/ EndRun
  BY DEF Other, RefreshTier, UpsertFails, SelectPlayers, FetchIds, FetchFails, Fetch, HandleMatch,
         DetailFails, InsertFails, MarkCrawled, ReconcileFails, EndPrune, Crash, Tick, Publish, vars
<1>5. pc = "prune" => pc' = "prune" \/ EndRun
  BY DEF Other, RefreshTier, UpsertFails, SelectPlayers, FetchIds, FetchFails, Fetch, HandleMatch,
         DetailFails, InsertFails, TakeMatch, MarkCrawled, ReconcileFails, EndPrune, Crash, Tick,
         Publish, vars
<1> QED
  BY <1>1, <1>2, <1>3, <1>4, <1>5 DEF EndRun

LEMMA POther ==
  ASSUME PInv, TypeOK', Other
  PROVE  PInv'
<1>1. \A m \in published : GameTime[m] <= now
  BY DEF PInv, PlayedInv
<1> QED
  BY <1>1, OtherKeeps, PKept DEF PInv, TargetInv

LEMMA Steps ==
  ASSUME [Next]_vars
  PROVE  StartRun \/ Reconcile \/ (\E p \in toPrune : PrunePatch(p)) \/ Other
BY DEF Next, CrawlerStep, RunStep, WorldStep, Other

LEMMA PStep == NewerPlayedLater /\ PInv /\ [Next]_vars => PInv'
<1> SUFFICES ASSUME NewerPlayedLater, PInv, [Next]_vars PROVE PInv'
  OBVIOUS
<1>1. TypeOK'
  BY TypeStep DEF PInv
<1> QED
  BY <1>1, Steps, PStart, PReconcile, PPrune, POther

LEMMA PInit == Init => PInv
<1> SUFFICES ASSUME Init PROVE PInv
  OBVIOUS
<1>1. TypeOK
  BY TypeInit
<1>2. DOMAIN patchVersions = {}
  BY DEF Init
<1> QED
  BY <1>1, <1>2 DEF PInv, Init, PlayedInv, RowsPlayed, TargetInv, BackedInv, Backed

----------------------------------------------------------------------------
(* The theorems *)

(* Whatever is pruned and recounted, and whichever query at the start of a  *)
(* run fails: the count of the newest patch is of matches that are there.   *)
THEOREM CountsBacked == NewerPlayedLater /\ Spec => []CurrentCountIsBacked
<1> SUFFICES ASSUME NewerPlayedLater PROVE Spec => []CurrentCountIsBacked
  OBVIOUS
<1>1. PInv => CurrentCountIsBacked
  <2> SUFFICES ASSUME PInv, NEW p \in Newest(patchVersions, 0)
               PROVE  patchVersions[p].count <= Cardinality(RowsOf(rawMatches, p))
    BY DEF CurrentCountIsBacked
  <2> USE DEF PInv
  <2>1. /\ p \in DOMAIN patchVersions
        /\ \A q \in DOMAIN patchVersions :
             patchVersions[q].earliest <= patchVersions[p].earliest
    BY DEF Newest, TypeOK, PatchRow
  <2>2. ASSUME NEW t \in Served, t # NoPatch PROVE ~PatchLt(p, t)
    <3>1. t \in DOMAIN patchVersions
      BY <2>2, ServedIs DEF Served, TypeOK
    <3>2. /\ patchVersions[t].earliest \in Nat /\ patchVersions[p].earliest \in Nat
          /\ patchVersions[t].earliest <= patchVersions[p].earliest
      BY <2>1, <3>1 DEF TypeOK, PatchRow
    <3> QED
      BY <2>1, <3>1, <3>2, RowsInOrder DEF PlayedInv
  <2>3. ~Surpassed(patchVersions, p)
    BY <2>2 DEF Surpassed, Served
  <2> QED
    BY <2>1, <2>3 DEF BackedInv, Backed
<1> QED
  BY <1>1, PInit, PStep, PTL DEF Spec

(* The patch being served gives way to newer ones only, for any number of   *)
(* patches and any threshold.                                               *)
THEOREM TargetAscends == NewerPlayedLater /\ Spec => TargetNeverGoesBack
<1> SUFFICES ASSUME NewerPlayedLater PROVE Spec => TargetNeverGoesBack
  OBVIOUS
<1> DEFINE Ascends == \A t \in Served, u \in Served' : t # NoPatch => u # NoPatch /\ ~PatchLt(u, t)
<1>1. PInv /\ PInv' /\ [Next]_vars => [Ascends]_vars
  <2> SUFFICES ASSUME PInv, PInv', [Next]_vars PROVE Ascends
    OBVIOUS
  <2> USE DEF PInv
  <2>1. CASE Reconcile
    BY <2>1, Recounted DEF Reconcile, Recount, world
  <2>2. CASE ~Reconcile
    <3>1. patchVersions' = patchVersions
      BY <2>2, Steps
      DEF StartRun, PrunePatch, Other, world, db, RefreshTier, UpsertFails, SelectPlayers, FetchIds,
          FetchFails, Fetch, HandleMatch, DetailFails, InsertFails, MarkCrawled, ReconcileFails,
          EndPrune, Crash, Tick, Publish, vars
    <3>2. Served' = Served
      BY <3>1 DEF Served
    <3> SUFFICES ASSUME NEW t \in Served, NEW u \in Served, t # NoPatch
                 PROVE  u # NoPatch /\ ~PatchLt(u, t)
      BY <3>2
    <3>3. u # NoPatch
      BY ServedIs DEF Served, TypeOK
    <3>4. t \in DOMAIN patchVersions /\ patchVersions[t].count >= MinPatchMatches
      BY ServedIs DEF Served, TypeOK
    <3> QED
      BY <3>3, <3>4, ServedNewest DEF Served, PlayedInv, TypeOK
  <2> QED
    BY <2>1, <2>2
<1>2. TargetNeverGoesBack <=> [][Ascends]_vars
  BY DEF TargetNeverGoesBack, Served
<1> HIDE DEF Ascends
<1> QED
  BY <1>1, <1>2, PInit, PStep, PTL DEF Spec

(* The crawler implements MatchStore: initial states map to initial states, *)
LEMMA StoreInit == Init => Store!Init
BY DEF Init, Store!Init

(* and every step to one of the store or to none.                           *)
LEMMA StoreStep ==
  ASSUME PInv, [Next]_vars
  PROVE  [Store!Next]_<<rawMatches, patchVersions>>
<1> USE DEF PInv
<1>1. CASE Reconcile
  <2>1. Store!Reconciled(patchVersions, rawMatches) = Reconciled(patchVersions, rawMatches)
    BY DEF Store!Reconciled, Store!RowsOf, Store!EarliestIn, Store!PatchOf, Store!NoVersion, Store!Min,
           Reconciled, RowsOf, EarliestIn, PatchOf, NoVersion, Min, Cardinality, Store!Cardinality
  <2>2. Store!Recount
    BY <1>1, <2>1 DEF Reconcile, Recount, Store!Recount
  <2> QED
    BY <2>2 DEF Store!Next
<1>2. ASSUME NEW p \in toPrune, PrunePatch(p) PROVE Store!Next
  <2>1. PICK t \in Served : t # NoPatch /\ PatchLt(p, t)
    BY PrunedIsOlder
  <2>2. t \in Store!CurrentPatchInfo(patchVersions) /\ t # Store!NoPatch /\ Store!PatchLt(p, t)
    BY <2>1 DEF Served, CurrentPatchInfo, Answers, Newest, NoPatch, PatchLt,
                Store!CurrentPatchInfo, Store!Answers, Store!Newest, Store!NoPatch, Store!PatchLt
  <2>3. p \in Store!Patches
    BY DEF TypeOK, Patches, PatchOf, NoVersion, Store!Patches, Store!PatchOf, Store!NoVersion
  <2>4. Store!RowsOf(rawMatches, p) = RowsOf(rawMatches, p)
    BY DEF RowsOf, PatchOf, NoVersion, Store!RowsOf, Store!PatchOf, Store!NoVersion
  <2>5. Store!DropPatch(p)
    BY <1>2, <2>2, <2>4 DEF PrunePatch, Store!DropPatch
  <2> QED
    BY <2>3, <2>5 DEF Store!Next
<1>3. CASE StartRun
  BY <1>3 DEF StartRun, db
<1>4. CASE Other
  <2>1. ASSUME NEW m \in Match, HandleMatch(m) PROVE Store!StoreMatch(m) \/ UNCHANGED rawMatches
    BY <2>1 DEF HandleMatch, Store!StoreMatch
  <2>2. CASE ~\E m \in Match : HandleMatch(m)
    BY <1>4, <2>2
    DEF Other, db, RefreshTier, UpsertFails, SelectPlayers, FetchIds, FetchFails, Fetch,
        DetailFails, InsertFails, MarkCrawled, ReconcileFails, EndPrune, Crash, Tick, Publish, vars
  <2>3. CASE \E m \in Match : HandleMatch(m)
    BY <2>1, <2>3 DEF HandleMatch, Store!Next
  <2> QED
    BY <2>2, <2>3
<1> QED
  BY <1>1, <1>2, <1>3, <1>4, Steps

(* For any matches, patches and thresholds: though pruning works from a     *)
(* target read when the run began, it removes only matches of patches older *)
(* than the one being served when it does.                                  *)
THEOREM StoreImplemented == NewerPlayedLater /\ Spec => ImplementsMatchStore
<1> SUFFICES ASSUME NewerPlayedLater PROVE Spec => ImplementsMatchStore
  OBVIOUS
<1>1. PInv /\ [Next]_vars => [Store!Next]_<<rawMatches, patchVersions>>
  BY StoreStep
<1>2. Spec => Store!Spec
  BY <1>1, StoreInit, PInit, PStep, PTL DEF Spec, Store!Spec
<1> QED
  BY <1>2 DEF ImplementsMatchStore
=============================================================================
