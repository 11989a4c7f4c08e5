------------------------- MODULE PatchTrackingProofs -------------------------
(* What the operators on patches and on the table of patches return, for    *)
(* any matches and tables: the lemmas that the proofs about the crawlers    *)
(* and the pipeline share.                                                  *)
EXTENDS PatchTracking, FiniteSetTheorems, WellFoundedInduction, TLAPS

(* A non-empty set of naturals has a least element.                         *)
LEMMA MinOfNats ==
  ASSUME NEW S \in SUBSET Nat, S # {}
  PROVE  Min(S) \in S /\ \A x \in S : Min(S) <= x
<1>1. \E x \in S : \A y \in S : ~(<<y, x>> \in OpToRel(<, Nat))
  BY NatLessThanWellFounded, WFMin
<1>2. PICK x \in S : \A y \in S : ~(<<y, x>> \in OpToRel(<, Nat))
  BY <1>1
<1>3. \A y \in S : x <= y
  <2> SUFFICES ASSUME NEW y \in S, ~(x <= y) PROVE FALSE
    OBVIOUS
  <2>1. y < x
    OBVIOUS
  <2>2. <<y, x>> \in Nat \X Nat /\ <<y, x>>[1] < <<y, x>>[2]
    BY <2>1
  <2>3. <<y, x>> \in OpToRel(<, Nat)
    BY <2>2 DEF OpToRel
  <2> QED
    BY <1>2, <2>3
<1> QED
  BY <1>3 DEF Min

----------------------------------------------------------------------------
(* The order of patches *)

LEMMA PatchIsPair == \A p \in Patches : p \in Nat \X Nat /\ p # NoPatch
<1> SUFFICES ASSUME NEW m \in Match PROVE PatchOf(m) \in Nat \X Nat /\ PatchOf(m) # NoPatch
  BY DEF Patches
<1>1. PatchOf(m) \in Nat \X Nat
  BY MatchAssumption DEF PatchOf
<1> QED
  BY <1>1 DEF NoPatch

LEMMA PatchOrder ==
  ASSUME NEW p \in Patches, NEW q \in Patches, NEW r \in Patches
  PROVE  /\ ~PatchLt(p, p)
         /\ PatchLt(p, q) => ~PatchLt(q, p)
         /\ PatchLt(p, q) /\ ~PatchLt(r, q) => PatchLt(p, r)
<1>1. p \in Nat \X Nat /\ q \in Nat \X Nat /\ r \in Nat \X Nat
  BY PatchIsPair
<1>2. /\ p[1] \in Nat /\ p[2] \in Nat /\ q[1] \in Nat /\ q[2] \in Nat
      /\ r[1] \in Nat /\ r[2] \in Nat
  BY <1>1
<1> QED
  BY <1>2 DEF PatchLt

LEMMA PatchesCompare ==
  ASSUME NEW p \in Patches, NEW q \in Patches, ~PatchLt(p, q), ~PatchLt(q, p)
  PROVE  p = q
<1>1. p \in Nat \X Nat /\ q \in Nat \X Nat
  BY PatchIsPair
<1>2. p[1] = q[1] /\ p[2] = q[2]
  BY <1>1 DEF PatchLt
<1> QED
  BY <1>1, <1>2

----------------------------------------------------------------------------
(* patch_versions *)

(* reconcile_patch_versions keeps patch_versions a table of patches.        *)
LEMMA ReconciledType ==
  ASSUME NEW pv, DOMAIN pv \subseteq Patches,
         \A p \in DOMAIN pv : pv[p] \in PatchRow,
         NEW raw \in SUBSET Match
  PROVE  /\ DOMAIN Reconciled(pv, raw) \subseteq Patches
         /\ \A p \in DOMAIN Reconciled(pv, raw) : Reconciled(pv, raw)[p] \in PatchRow
<1> DEFINE met == {PatchOf(m) : m \in raw}
           row(p) == [earliest |-> EarliestIn(RowsOf(raw, p)),
                      count    |-> Cardinality(RowsOf(raw, p))]
<1>1. \A p \in met : row(p) \in PatchRow
  <2> SUFFICES ASSUME NEW p \in met PROVE row(p) \in PatchRow
    OBVIOUS
  <2> DEFINE rows == RowsOf(raw, p)
  <2>1. rows \subseteq Match /\ rows # {}
    BY DEF RowsOf
  <2>2. IsFiniteSet(rows)
    BY <2>1, MatchAssumption, FS_Subset
  <2>3. Cardinality(rows) \in Nat
    BY <2>2, FS_CardinalityType
  <2> DEFINE times == {GameTime[m] : m \in rows}
  <2>4. times \in SUBSET Nat /\ times # {}
    BY <2>1, MatchAssumption
  <2> HIDE DEF times
  <2>5. Min(times) \in Nat
    BY <2>4, MinOfNats
  <2>6. EarliestIn(rows) \in Nat
    BY <2>5 DEF EarliestIn, times
  <2> HIDE DEF rows
  <2> QED
    BY <2>3, <2>6 DEF PatchRow, rows
<1>2. met \subseteq Patches
  BY DEF Patches
<1> HIDE DEF met, row
<1>3. Reconciled(pv, raw) =
        [p \in DOMAIN pv \cup met |->
           IF p \notin met THEN pv[p]
           ELSE IF p \in DOMAIN pv /\ pv[p].earliest < row(p).earliest
                THEN [row(p) EXCEPT !.earliest = pv[p].earliest]
                ELSE row(p)]
  BY DEF Reconciled, met, row
<1>4. \A p \in DOMAIN pv \cup met : Reconciled(pv, raw)[p] \in PatchRow
  <2> SUFFICES ASSUME NEW p \in DOMAIN pv \cup met PROVE Reconciled(pv, raw)[p] \in PatchRow
    OBVIOUS
  <2>1. CASE p \notin met
    BY <1>3, <2>1
  <2>2. CASE p \in met /\ p \in DOMAIN pv /\ pv[p].earliest < row(p).earliest
    <3>1. row(p) \in PatchRow /\ pv[p] \in PatchRow
      BY <1>1, <2>2
    <3>2. [row(p) EXCEPT !.earliest = pv[p].earliest] \in PatchRow
      BY <3>1 DEF PatchRow
    <3> QED
      BY <1>3, <2>2, <3>2
  <2>3. CASE p \in met /\ ~(p \in DOMAIN pv /\ pv[p].earliest < row(p).earliest)
    BY <1>1, <1>3, <2>3
  <2> QED
    BY <2>1, <2>2, <2>3
<1> QED
  BY <1>2, <1>3, <1>4

(* Every row goes back to a match that was played. *)
RowsPlayed(pv) ==
  \A p \in DOMAIN pv : \E m \in Match : PatchOf(m) = p /\ pv[p].earliest = GameTime[m]

LEMMA RowsFinite ==
  ASSUME NEW raw \in SUBSET Match, NEW p
  PROVE  IsFiniteSet(RowsOf(raw, p)) /\ Cardinality(RowsOf(raw, p)) \in Nat
<1>1. IsFiniteSet(RowsOf(raw, p))
  BY MatchAssumption, FS_Subset DEF RowsOf
<1> QED
  BY <1>1, FS_CardinalityType

LEMMA MoreRows ==
  ASSUME NEW raw \in SUBSET Match, NEW more \in SUBSET Match, NEW p,
         RowsOf(raw, p) \subseteq RowsOf(more, p)
  PROVE  Cardinality(RowsOf(raw, p)) <= Cardinality(RowsOf(more, p))
BY RowsFinite, FS_Subset

(* What a recount makes of a row. *)
LEMMA ReconciledRow ==
  ASSUME NEW pv, NEW raw \in SUBSET Match, NEW p \in DOMAIN Reconciled(pv, raw)
  PROVE  LET row == Reconciled(pv, raw)[p]
         IN  \/ /\ RowsOf(raw, p) = {} /\ p \in DOMAIN pv /\ row = pv[p]
             \/ /\ RowsOf(raw, p) # {} /\ row.count = Cardinality(RowsOf(raw, p))
                /\ \/ p \in DOMAIN pv /\ row.earliest = pv[p].earliest
                   \/ \E m \in RowsOf(raw, p) : row.earliest = GameTime[m]
<1> DEFINE met == {PatchOf(m) : m \in raw}
           new == [earliest |-> EarliestIn(RowsOf(raw, p)), count |-> Cardinality(RowsOf(raw, p))]
           row == Reconciled(pv, raw)[p]
<1>1. /\ DOMAIN Reconciled(pv, raw) = DOMAIN pv \cup met
      /\ row = IF p \notin met THEN pv[p]
               ELSE IF p \in DOMAIN pv /\ pv[p].earliest < new.earliest
                    THEN [new EXCEPT !.earliest = pv[p].earliest]
                    ELSE new
  BY DEF Reconciled
<1>2. p \in met <=> RowsOf(raw, p) # {}
  BY DEF RowsOf
<1>3. CASE p \notin met
  BY <1>1, <1>2, <1>3
<1>4. CASE p \in met
  <2> DEFINE times == {GameTime[m] : m \in RowsOf(raw, p)}
  <2>1. times \in SUBSET Nat /\ times # {}
    BY <1>2, <1>4, MatchAssumption DEF RowsOf
  <2> HIDE DEF times
  <2>2. Min(times) \in times
    BY <2>1, MinOfNats
  <2>3. \E m \in RowsOf(raw, p) : EarliestIn(RowsOf(raw, p)) = GameTime[m]
    BY <2>2 DEF EarliestIn, times
  <2> HIDE DEF row
  <2>4. row.count = Cardinality(RowsOf(raw, p))
    BY <1>1, <1>4
  <2>5. row.earliest = EarliestIn(RowsOf(raw, p)) \/ (p \in DOMAIN pv /\ row.earliest = pv[p].earliest)
    BY <1>1, <1>4
  <2>6. RowsOf(raw, p) # {}
    BY <1>2, <1>4
  <2> QED
    BY <2>3, <2>4, <2>5, <2>6 DEF row
<1> QED
  BY <1>3, <1>4

LEMMA ServedIs ==
  ASSUME NEW pv, DOMAIN pv \subseteq Patches
  PROVE  /\ CurrentPatchInfo(pv) # {}
         /\ \A t \in CurrentPatchInfo(pv) :
              t # NoPatch =>
                /\ t \in DOMAIN pv /\ t \in Patches
                /\ pv[t].count >= MinPatchMatches
                /\ \A q \in DOMAIN pv :
                     pv[q].count >= MinPatchMatches => pv[q].earliest <= pv[t].earliest
         /\ NoPatch \in CurrentPatchInfo(pv)
              => CurrentPatchInfo(pv) = {NoPatch} /\ Newest(pv, MinPatchMatches) = {}
<1>1. Newest(pv, MinPatchMatches) \subseteq DOMAIN pv
  BY DEF Newest
<1>2. NoPatch \notin Newest(pv, MinPatchMatches)
  BY <1>1, PatchIsPair
<1> QED
  BY <1>1, <1>2 DEF CurrentPatchInfo, Answers, Newest

LEMMA PatchesFinite == IsFiniteSet(Patches)
<1> DEFINE f == [m \in Match |-> PatchOf(m)]
<1>1. f \in Surjection(Match, Patches)
  BY DEF Surjection, Patches
<1> QED
  BY <1>1, MatchAssumption, FS_Surjection

(* Something is the newest: the patch with the fewest later ones.           *)
LEMMA NewestExists ==
  ASSUME NEW pv, DOMAIN pv \subseteq Patches, \A q \in DOMAIN pv : pv[q].earliest \in Nat,
         NEW n, NEW p \in DOMAIN pv, pv[p].count >= n
  PROVE  Newest(pv, n) # {}
<1> DEFINE enough == {q \in DOMAIN pv : pv[q].count >= n}
           Later(q) == {r \in enough : pv[r].earliest > pv[q].earliest}
           sizes == {Cardinality(Later(q)) : q \in enough}
<1>1. p \in enough /\ IsFiniteSet(enough)
  BY PatchesFinite, FS_Subset
<1>2. \A q \in enough : pv[q].earliest \in Nat
  OBVIOUS
<1> HIDE DEF enough
<1>3. \A q \in enough : IsFiniteSet(Later(q)) /\ Cardinality(Later(q)) \in Nat
  BY <1>1, FS_Subset, FS_CardinalityType
<1>4. PICK q \in enough : Cardinality(Later(q)) = Min(sizes) /\ \A x \in sizes : Min(sizes) <= x
  <2>1. sizes \in SUBSET Nat /\ sizes # {}
    BY <1>1, <1>3
  <2> HIDE DEF sizes
  <2>2. Min(sizes) \in sizes /\ \A x \in sizes : Min(sizes) <= x
    BY <2>1, MinOfNats
  <2> QED
    BY <2>2 DEF sizes
<1>5. ASSUME NEW r \in Later(q) PROVE FALSE
  <2>1. r \in enough /\ r \notin Later(r) /\ Later(r) \subseteq Later(q)
    BY <1>2, <1>5
  <2>2. Cardinality(Later(r)) <= Cardinality(Later(q)) /\ Cardinality(Later(r)) # Cardinality(Later(q))
    BY <1>3, <1>5, <2>1, FS_Subset
  <2>3. Cardinality(Later(q)) <= Cardinality(Later(r))
    BY <1>4, <2>1
  <2>4. Cardinality(Later(q)) \in Nat /\ Cardinality(Later(r)) \in Nat
    BY <1>3, <2>1
  <2> QED
    BY <2>2, <2>3, <2>4
<1>6. \A r \in enough : pv[r].earliest <= pv[q].earliest
  BY <1>2, <1>5
<1> QED
  BY <1>6 DEF Newest, enough

(* The order of the rows by their first match is that of the patches. *)
LEMMA RowsInOrder ==
  ASSUME NewerPlayedLater, NEW pv, RowsPlayed(pv),
         NEW p \in DOMAIN pv, NEW q \in DOMAIN pv, PatchLt(p, q)
  PROVE  pv[p].earliest < pv[q].earliest
BY DEF NewerPlayedLater, RowsPlayed

(* No patch with enough matches is newer than the one served, *)
LEMMA ServedNewest ==
  ASSUME NewerPlayedLater, NEW pv, DOMAIN pv \subseteq Patches, RowsPlayed(pv),
         NEW t \in CurrentPatchInfo(pv), t # NoPatch,
         NEW q \in DOMAIN pv, pv[q].count >= MinPatchMatches
  PROVE  ~PatchLt(t, q)
<1>1. t \in DOMAIN pv /\ pv[q].earliest <= pv[t].earliest
  BY ServedIs
<1>2. pv[t].earliest \in Nat /\ pv[q].earliest \in Nat
  BY <1>1, MatchAssumption DEF RowsPlayed
<1> QED
  BY <1>1, <1>2, RowsInOrder

(* A patch whose matches are there takes part in the next recount.          *)
LEMMA RowRecounted ==
  ASSUME NEW pv, NEW raw \in SUBSET Match, NEW p \in DOMAIN pv,
         MinPatchMatches <= Cardinality(RowsOf(raw, p))
  PROVE  p \in DOMAIN Reconciled(pv, raw) /\ Reconciled(pv, raw)[p].count >= MinPatchMatches
<1> DEFINE new == Reconciled(pv, raw)
<1>1. p \in DOMAIN new
  BY DEF Reconciled
<1>2. RowsOf(raw, p) # {}
  BY FS_EmptySet, PatchAssumption
<1>3. new[p].count = Cardinality(RowsOf(raw, p)) /\ Cardinality(RowsOf(raw, p)) \in Nat
  BY <1>1, <1>2, ReconciledRow, RowsFinite
<1> HIDE DEF new
<1>4. new[p].count >= MinPatchMatches
  BY <1>3, PatchAssumption
<1> QED
  BY <1>1, <1>4 DEF new

----------------------------------------------------------------------------
(* A table whose counts are of matches that are there, but for patches      *)
(* older than the one served, and what a recount makes of it.               *)

Surpassed(pv, p) == \E t \in CurrentPatchInfo(pv) : t # NoPatch /\ PatchLt(p, t)

Backed(pv, raw) ==
  \A p \in DOMAIN pv : ~Surpassed(pv, p) => pv[p].count <= Cardinality(RowsOf(raw, p))

TableOK(pv) ==
  DOMAIN pv \subseteq Patches /\ (\A p \in DOMAIN pv : pv[p] \in PatchRow) /\ RowsPlayed(pv)

(* New matches and pruned patches do no harm.                               *)
LEMMA BackedMore ==
  ASSUME NEW pv, TableOK(pv), NEW raw \in SUBSET Match, NEW more \in SUBSET Match,
         raw \subseteq more, Backed(pv, raw)
  PROVE  Backed(pv, more)
<1> SUFFICES ASSUME NEW p \in DOMAIN pv, ~Surpassed(pv, p)
             PROVE  pv[p].count <= Cardinality(RowsOf(more, p))
  BY DEF Backed
<1>1. pv[p].count <= Cardinality(RowsOf(raw, p)) /\ pv[p].count \in Nat
  BY DEF Backed, TableOK, PatchRow
<1>2. RowsOf(raw, p) \subseteq RowsOf(more, p)
  BY DEF RowsOf
<1>3. Cardinality(RowsOf(raw, p)) <= Cardinality(RowsOf(more, p))
  BY <1>2, MoreRows
<1> QED
  BY <1>1, <1>3, RowsFinite

LEMMA BackedPruned ==
  ASSUME NEW pv, NEW raw \in SUBSET Match, Backed(pv, raw), NEW p, Surpassed(pv, p)
  PROVE  /\ Backed(pv, raw \ RowsOf(raw, p))
         /\ \A q : ~Surpassed(pv, q) => RowsOf(raw \ RowsOf(raw, p), q) = RowsOf(raw, q)
<1>1. \A q : ~Surpassed(pv, q) => RowsOf(raw \ RowsOf(raw, p), q) = RowsOf(raw, q)
  BY DEF RowsOf
<1> QED
  BY <1>1 DEF Backed

(* Of the patch being served the matches are there. *)
LEMMA ServedBacked ==
  ASSUME NewerPlayedLater, NEW pv, TableOK(pv), NEW raw \in SUBSET Match, Backed(pv, raw),
         NEW t \in CurrentPatchInfo(pv), t # NoPatch
  PROVE  ~Surpassed(pv, t) /\ MinPatchMatches <= Cardinality(RowsOf(raw, t))
<1>1. t \in DOMAIN pv /\ pv[t].count >= MinPatchMatches
  BY ServedIs DEF TableOK
<1>2. ~Surpassed(pv, t)
  <2> SUFFICES ASSUME NEW u \in CurrentPatchInfo(pv), u # NoPatch PROVE ~PatchLt(t, u)
    BY DEF Surpassed
  <2>1. u \in DOMAIN pv /\ pv[u].count >= MinPatchMatches
    BY ServedIs DEF TableOK
  <2> QED
    BY <2>1, ServedNewest DEF TableOK
<1>3. pv[t].count <= Cardinality(RowsOf(raw, t))
  BY <1>1, <1>2 DEF Backed
<1>4. pv[t].count \in Nat /\ Cardinality(RowsOf(raw, t)) \in Nat
  BY <1>1, RowsFinite DEF TableOK, PatchRow
<1> QED
  BY <1>1, <1>2, <1>3, <1>4, PatchAssumption

(* Under NewerPlayedLater one patch is served, or none. *)
LEMMA OneServed ==
  ASSUME NewerPlayedLater, NEW pv, TableOK(pv),
         NEW t \in CurrentPatchInfo(pv), NEW u \in CurrentPatchInfo(pv)
  PROVE  t = u
<1>1. CASE t = NoPatch \/ u = NoPatch
  BY <1>1, ServedIs DEF TableOK
<1>2. CASE t # NoPatch /\ u # NoPatch
  <2>1. /\ t \in Patches /\ t \in DOMAIN pv /\ pv[t].count >= MinPatchMatches
        /\ u \in Patches /\ u \in DOMAIN pv /\ pv[u].count >= MinPatchMatches
    BY <1>2, ServedIs DEF TableOK
  <2>2. ~PatchLt(t, u) /\ ~PatchLt(u, t)
    BY <1>2, <2>1, ServedNewest DEF TableOK
  <2> QED
    BY <2>1, <2>2, PatchesCompare
<1> QED
  BY <1>1, <1>2

(* A recount leaves the table as it was described, and serves no older      *)
(* patch than before.                                                       *)
LEMMA Recounting ==
  ASSUME NewerPlayedLater, NEW pv, TableOK(pv), NEW raw \in SUBSET Match, Backed(pv, raw),
         NEW new, new = Reconciled(pv, raw)
  PROVE  /\ TableOK(new) /\ Backed(new, raw)
         /\ \A t \in CurrentPatchInfo(pv), u \in CurrentPatchInfo(new) :
              t # NoPatch => u # NoPatch /\ ~PatchLt(u, t)
         /\ \A p \in Patches : Surpassed(pv, p) => Surpassed(new, p)
         /\ \A p \in DOMAIN new :
              \/ RowsOf(raw, p) = {} /\ p \in DOMAIN pv /\ new[p] = pv[p]
              \/ RowsOf(raw, p) # {} /\ new[p].count = Cardinality(RowsOf(raw, p))
<1> DEFINE Rows(p) == RowsOf(raw, p)
<1>1. ASSUME NEW p \in DOMAIN new
      PROVE  \/ /\ Rows(p) = {} /\ p \in DOMAIN pv /\ new[p] = pv[p]
             \/ /\ Rows(p) # {} /\ new[p].count = Cardinality(Rows(p))
                /\ \/ p \in DOMAIN pv /\ new[p].earliest = pv[p].earliest
                   \/ \E m \in Rows(p) : new[p].earliest = GameTime[m]
  BY <1>1, ReconciledRow
<1>2. DOMAIN pv \subseteq DOMAIN new
  BY DEF Reconciled
<1>3. TableOK(new)
  <2>1. ASSUME NEW p \in DOMAIN new
        PROVE  \E m \in Match : PatchOf(m) = p /\ new[p].earliest = GameTime[m]
    <3>1. CASE p \in DOMAIN pv /\ new[p].earliest = pv[p].earliest
      BY <3>1 DEF TableOK, RowsPlayed
    <3>2. CASE \E m \in Rows(p) : new[p].earliest = GameTime[m]
      BY <3>2 DEF RowsOf
    <3> QED
      BY <1>1, <3>1, <3>2
  <2>2. DOMAIN new \subseteq Patches /\ \A p \in DOMAIN new : new[p] \in PatchRow
    BY ReconciledType DEF TableOK
  <2> QED
    BY <2>1, <2>2 DEF TableOK, RowsPlayed
<1>4. ASSUME NEW t \in CurrentPatchInfo(pv), t # NoPatch, NEW u \in CurrentPatchInfo(new)
      PROVE  u # NoPatch /\ ~PatchLt(u, t)
  <2>1. t \in DOMAIN pv /\ t \in Patches /\ MinPatchMatches <= Cardinality(Rows(t))
    BY <1>4, ServedBacked, ServedIs DEF TableOK
  <2>2. t \in DOMAIN new /\ new[t].count >= MinPatchMatches
    BY <2>1, RowRecounted
  <2>3. \A q \in DOMAIN new : new[q].earliest \in Nat
    BY <1>3 DEF TableOK, PatchRow
  <2>4. Newest(new, MinPatchMatches) # {}
    BY <1>3, <2>2, <2>3, NewestExists DEF TableOK
  <2>5. u # NoPatch
    BY <1>3, <1>4, <2>4, ServedIs DEF TableOK
  <2> QED
    BY <1>3, <1>4, <2>2, <2>5, ServedNewest DEF TableOK
<1>5. ASSUME NEW p \in Patches, Surpassed(pv, p) PROVE Surpassed(new, p)
  <2>1. PICK t \in CurrentPatchInfo(pv) : t # NoPatch /\ PatchLt(p, t)
    BY <1>5 DEF Surpassed
  <2>2. PICK u \in CurrentPatchInfo(new) : TRUE
    BY <1>3, ServedIs DEF TableOK
  <2>3. u # NoPatch /\ ~PatchLt(u, t)
    BY <1>4, <2>1
  <2>4. t \in Patches /\ u \in Patches
    BY <1>3, <2>1, <2>3, ServedIs DEF TableOK
  <2>5. PatchLt(p, u)
    BY <2>1, <2>3, <2>4, PatchOrder
  <2> QED
    BY <2>3, <2>5 DEF Surpassed
<1>6. ASSUME NEW p \in DOMAIN new, ~Surpassed(new, p) PROVE new[p].count <= Cardinality(Rows(p))
  <2>1. CASE Rows(p) # {}
    BY <1>1, <2>1, RowsFinite
  <2>2. CASE Rows(p) = {}
    <3>1. p \in DOMAIN pv /\ new[p] = pv[p] /\ p \in Patches
      BY <1>1, <2>2 DEF TableOK
    <3>2. ~Surpassed(pv, p)
      BY <1>5, <1>6, <3>1
    <3> QED
      BY <3>1, <3>2 DEF Backed
  <2> QED
    BY <2>1, <2>2
<1> QED
  BY <1>1, <1>3, <1>4, <1>5, <1>6 DEF Backed
=============================================================================
