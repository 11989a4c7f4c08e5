--------------------------- MODULE ComboStatsProofs ---------------------------
(* Proofs about the aggregation: what runs that overlap and fail leave in   *)
(* the tables, and what the quizzes made of them say.                       *)
EXTENDS ComboStats, FiniteSetTheorems, FunctionTheorems, SequenceTheorems, WellFoundedInduction,
        TLAPS

----------------------------------------------------------------------------
(* Induction over finite sets, on the members of a set.                     *)

LEMMA LeastNat ==
  ASSUME NEW S \in SUBSET Nat, S # {}
  PROVE  \E x \in S : \A y \in S : x <= y
<1>1. PICK x \in S : \A y \in S : ~(<<y, x>> \in OpToRel(<, Nat))
  BY NatLessThanWellFounded, WFMin
<1>2. ASSUME NEW y \in S, y < x PROVE FALSE
  <2>1. <<y, x>> \in Nat \X Nat /\ <<y, x>>[1] < <<y, x>>[2]
    BY <1>2
  <2>2. <<y, x>> \in OpToRel(<, Nat)
    BY <2>1 DEF OpToRel
  <2> QED
    BY <1>1, <2>2
<1> QED
  BY <1>2

LEMMA SetInduction ==
  ASSUME NEW T, IsFiniteSet(T), NEW Q, {} \in Q,
         \A S \in SUBSET T : S # {} /\ (\A x \in S : S \ {x} \in Q) => S \in Q
  PROVE  T \in Q
<1> SUFFICES ASSUME T \notin Q PROVE FALSE
  OBVIOUS
<1> DEFINE sizes == {n \in Nat : \E U \in SUBSET T : U \notin Q /\ Cardinality(U) = n}
<1>1. \A U \in SUBSET T : IsFiniteSet(U) /\ Cardinality(U) \in Nat
  BY FS_Subset, FS_CardinalityType
<1>2. sizes \in SUBSET Nat /\ sizes # {}
  BY <1>1
<1>3. PICK n \in sizes : \A k \in sizes : n <= k
  <2> HIDE DEF sizes
  <2> QED
    BY <1>2, LeastNat
<1>4. PICK U \in SUBSET T : U \notin Q /\ Cardinality(U) = n
  OBVIOUS
<1>5. PICK x \in U : U \ {x} \notin Q
  BY <1>4
<1>6. Cardinality(U \ {x}) = n - 1 /\ n \in Nat
  BY <1>1, <1>4, FS_RemoveElement
<1>7. n - 1 \in sizes
  BY <1>1, <1>5, <1>6
<1> QED
  BY <1>3, <1>6, <1>7

----------------------------------------------------------------------------
(* Sums over finite sets: the equation of the fold, and what follows of it. *)

Picked(S) == CHOOSE x \in S : TRUE

(* it is the function the fold over S computes with. *)
Computes(it, f, S) ==
  it = [s \in SUBSET S |-> IF s = {} THEN 0 ELSE f[Picked(s)] + it[s \ {Picked(s)}]]

LEMMA FoldExists ==
  ASSUME NEW f, NEW S, IsFiniteSet(S)
  PROVE  \E it : Computes(it, f, S)
<1> DEFINE Upto(n) == {s \in SUBSET S : Cardinality(s) <= n}
           Good(n) == \E g : g = [s \in Upto(n) |->
                                    IF s = {} THEN 0 ELSE f[Picked(s)] + g[s \ {Picked(s)}]]
           bad == {n \in Nat : ~Good(n)}
<1>1. \A s \in SUBSET S : IsFiniteSet(s) /\ Cardinality(s) \in Nat
  BY FS_Subset, FS_CardinalityType
<1>2. ASSUME NEW s \in SUBSET S, s # {}
      PROVE  s \ {Picked(s)} \in SUBSET S /\ Cardinality(s \ {Picked(s)}) = Cardinality(s) - 1
  <2>1. Picked(s) \in s
    BY <1>2 DEF Picked
  <2> QED
    BY <1>1, <2>1, FS_RemoveElement
<1>3. bad = {}
  <2> SUFFICES ASSUME bad # {} PROVE FALSE
    OBVIOUS
  <2>1. PICK n \in bad : \A k \in bad : n <= k
    <3>1. bad \in SUBSET Nat
      OBVIOUS
    <3> HIDE DEF bad
    <3> QED
      BY <3>1, LeastNat
  <2>2. n \in Nat /\ ~Good(n)
    OBVIOUS
  <2>3. CASE n = 0
    <3>1. \A s \in Upto(0) : s = {}
      BY <1>1, FS_EmptySet
    <3> DEFINE g == [s \in Upto(0) |-> 0]
    <3>2. g = [s \in Upto(0) |-> IF s = {} THEN 0 ELSE f[Picked(s)] + g[s \ {Picked(s)}]]
      BY <3>1
    <3>3. Good(0)
      BY <3>2
    <3> QED
      BY <2>2, <2>3, <3>3
  <2>4. CASE n # 0
    <3>1. n - 1 \in Nat /\ n - 1 \notin bad
      <4> HIDE DEF bad, Good
      <4> QED
        BY <2>1, <2>2, <2>4
    <3>2. PICK h : h = [s \in Upto(n - 1) |->
                          IF s = {} THEN 0 ELSE f[Picked(s)] + h[s \ {Picked(s)}]]
      BY <3>1
    <3> DEFINE g == [s \in Upto(n) |-> IF s = {} THEN 0 ELSE f[Picked(s)] + h[s \ {Picked(s)}]]
    <3>3. \A s \in Upto(n - 1) : s \in Upto(n) /\ g[s] = h[s]
      <4>1. \A s \in Upto(n - 1) : s \in Upto(n)
        BY <1>1, <2>2
      <4>2. \A s \in Upto(n - 1) : h[s] = IF s = {} THEN 0 ELSE f[Picked(s)] + h[s \ {Picked(s)}]
        <5> HIDE DEF Upto
        <5> QED
          BY <3>2, Zenon
      <4> QED
        BY <4>1, <4>2
    <3>4. \A s \in Upto(n) : s # {} => s \ {Picked(s)} \in Upto(n - 1)
      BY <1>1, <1>2, <2>2
    <3>5. g = [s \in Upto(n) |-> IF s = {} THEN 0 ELSE f[Picked(s)] + g[s \ {Picked(s)}]]
      <4>1. \A s \in Upto(n) : s # {} => g[s \ {Picked(s)}] = h[s \ {Picked(s)}]
        BY <3>3, <3>4
      <4> HIDE DEF Upto
      <4> QED
        BY <4>1
    <3>6. Good(n)
      BY <3>5
    <3> QED
      BY <2>2, <3>6
  <2> QED
    BY <2>3, <2>4
<1>4. PICK g : g = [s \in Upto(Cardinality(S)) |->
                      IF s = {} THEN 0 ELSE f[Picked(s)] + g[s \ {Picked(s)}]]
  BY <1>1, <1>3
<1>5. Upto(Cardinality(S)) = SUBSET S
  BY FS_Subset
<1>6. Computes(g, f, S)
  BY <1>4, <1>5 DEF Computes
<1> QED
  BY <1>6

LEMMA FoldComputes ==
  ASSUME NEW f, NEW S, IsFiniteSet(S)
  PROVE  \E it : Computes(it, f, S) /\ SumFunctionOnSet(f, S) = it[S]
<1> DEFINE it == CHOOSE h : Computes(h, f, S)
<1>1. Computes(it, f, S)
  BY FoldExists, Zenon
<1>2. SumFunctionOnSet(f, S) = it[S]
  BY Zenon DEF SumFunctionOnSet, FoldFunctionOnSet, MapThenFoldSet, Picked, Computes
<1> QED
  BY <1>1, <1>2

(* Two such functions agree where both are defined. *)
LEMMA FoldUnique ==
  ASSUME NEW f, NEW S, NEW T, IsFiniteSet(S), T \subseteq S,
         NEW it, NEW jt, Computes(it, f, S), Computes(jt, f, T)
  PROVE  it[T] = jt[T]
<1> DEFINE Q == {s \in SUBSET T : it[s] = jt[s]}
<1>1. IsFiniteSet(T)
  BY FS_Subset
<1>2. ASSUME NEW s \in SUBSET T
      PROVE  /\ it[s] = IF s = {} THEN 0 ELSE f[Picked(s)] + it[s \ {Picked(s)}]
             /\ jt[s] = IF s = {} THEN 0 ELSE f[Picked(s)] + jt[s \ {Picked(s)}]
  <2>1. s \in SUBSET S
    OBVIOUS
  <2>2. it[s] = IF s = {} THEN 0 ELSE f[Picked(s)] + it[s \ {Picked(s)}]
    BY <2>1, Zenon DEF Computes
  <2>3. jt[s] = IF s = {} THEN 0 ELSE f[Picked(s)] + jt[s \ {Picked(s)}]
    BY Zenon DEF Computes
  <2> QED
    BY <2>2, <2>3
<1>3. {} \in Q
  BY <1>2
<1>4. ASSUME NEW s \in SUBSET T, s # {}, \A x \in s : s \ {x} \in Q
      PROVE  s \in Q
  <2>1. Picked(s) \in s
    BY <1>4 DEF Picked
  <2>2. it[s \ {Picked(s)}] = jt[s \ {Picked(s)}]
    BY <1>4, <2>1
  <2> QED
    BY <1>2, <1>4, <2>2
<1> HIDE DEF Q
<1>5. T \in Q
  BY <1>1, <1>3, <1>4, SetInduction
<1> QED
  BY <1>5 DEF Q

(* The sum over a set is one element's value and the sum over the rest. *)
LEMMA SumStep ==
  ASSUME NEW f, NEW S, IsFiniteSet(S)
  PROVE  SumFunctionOnSet(f, S) =
           IF S = {} THEN 0 ELSE f[Picked(S)] + SumFunctionOnSet(f, S \ {Picked(S)})
<1>1. PICK it : Computes(it, f, S) /\ SumFunctionOnSet(f, S) = it[S]
  BY FoldComputes
<1>2. it[S] = IF S = {} THEN 0 ELSE f[Picked(S)] + it[S \ {Picked(S)}]
  <2>1. S \in SUBSET S
    OBVIOUS
  <2> QED
    BY <1>1, <2>1, Zenon DEF Computes
<1>3. CASE S = {}
  BY <1>1, <1>2, <1>3
<1>4. CASE S # {}
  <2> DEFINE T == S \ {Picked(S)}
  <2>1. IsFiniteSet(T) /\ T \subseteq S
    BY FS_Subset
  <2> HIDE DEF T
  <2>2. PICK jt : Computes(jt, f, T) /\ SumFunctionOnSet(f, T) = jt[T]
    BY <2>1, FoldComputes
  <2>3. it[T] = jt[T]
    BY <1>1, <2>1, <2>2, FoldUnique
  <2> QED
    BY <1>1, <1>2, <1>4, <2>2, <2>3 DEF T
<1> QED
  BY <1>3, <1>4

LEMMA SumEmpty == ASSUME NEW f PROVE SumFunctionOnSet(f, {}) = 0
BY SumStep, FS_EmptySet

LEMMA SumType ==
  ASSUME NEW S, IsFiniteSet(S), NEW f, \A x \in S : f[x] \in Nat
  PROVE  SumFunctionOnSet(f, S) \in Nat
<1> DEFINE Q == {s \in SUBSET S : SumFunctionOnSet(f, s) \in Nat}
<1>1. {} \in Q
  BY SumEmpty
<1>2. ASSUME NEW s \in SUBSET S, s # {}, \A x \in s : s \ {x} \in Q
      PROVE  s \in Q
  <2>1. Picked(s) \in s /\ IsFiniteSet(s)
    BY <1>2, FS_Subset DEF Picked
  <2>2. SumFunctionOnSet(f, s) = f[Picked(s)] + SumFunctionOnSet(f, s \ {Picked(s)})
    BY <1>2, <2>1, SumStep
  <2>3. f[Picked(s)] \in Nat /\ SumFunctionOnSet(f, s \ {Picked(s)}) \in Nat
    BY <1>2, <2>1
  <2> QED
    BY <2>2, <2>3
<1> HIDE DEF Q
<1>3. S \in Q
  BY <1>1, <1>2, SetInduction
<1> QED
  BY <1>3 DEF Q

(* In whatever order the fold takes the elements: any of them can be first. *)
LEMMA SumSplit ==
  ASSUME NEW S, IsFiniteSet(S), NEW f, \A x \in S : f[x] \in Nat, NEW x \in S
  PROVE  SumFunctionOnSet(f, S) = f[x] + SumFunctionOnSet(f, S \ {x})
<1> DEFINE Add(s) == SumFunctionOnSet(f, s)
           Q == {s \in SUBSET S : \A y \in s : Add(s) = f[y] + Add(s \ {y})}
<1>1. {} \in Q
  OBVIOUS
<1>2. ASSUME NEW s \in SUBSET S, s # {}, \A y \in s : s \ {y} \in Q, NEW y \in s
      PROVE  Add(s) = f[y] + Add(s \ {y})
  <2> DEFINE p == Picked(s)
  <2>1. p \in s /\ IsFiniteSet(s)
    BY <1>2, FS_Subset DEF Picked
  <2>2. Add(s) = f[p] + Add(s \ {p})
    BY <1>2, <2>1, SumStep
  <2> HIDE DEF p
  <2>3. CASE y = p
    BY <2>2, <2>3
  <2>4. CASE y # p
    <3>1. y \in s \ {p} /\ p \in s \ {y} /\ (s \ {p}) \ {y} = (s \ {y}) \ {p}
      BY <1>2, <2>1, <2>4
    <3>2. s \ {p} \in Q /\ s \ {y} \in Q
      BY <1>2, <2>1
    <3>3. Add(s \ {p}) = f[y] + Add((s \ {p}) \ {y})
      BY <3>1, <3>2
    <3>4. Add(s \ {y}) = f[p] + Add((s \ {y}) \ {p})
      BY <3>1, <3>2
    <3>5. Add((s \ {p}) \ {y}) \in Nat
      <4>1. IsFiniteSet((s \ {p}) \ {y}) /\ \A z \in (s \ {p}) \ {y} : f[z] \in Nat
        BY <2>1, FS_Subset
      <4> QED
        BY <4>1, SumType
    <3>6. f[p] \in Nat /\ f[y] \in Nat
      BY <1>2, <2>1
    <3> HIDE DEF Add
    <3> QED
      BY <2>2, <3>1, <3>3, <3>4, <3>5, <3>6
  <2> QED
    BY <2>3, <2>4
<1>3. \A s \in SUBSET S : s # {} /\ (\A y \in s : s \ {y} \in Q) => s \in Q
  BY <1>2
<1> HIDE DEF Q
<1>4. S \in Q
  BY <1>1, <1>3, SetInduction
<1> QED
  BY <1>4 DEF Q

LEMMA SumAtLeast ==
  ASSUME NEW S, IsFiniteSet(S), NEW f, \A x \in S : f[x] \in Nat, NEW x \in S
  PROVE  f[x] <= SumFunctionOnSet(f, S)
<1>1. SumFunctionOnSet(f, S) = f[x] + SumFunctionOnSet(f, S \ {x})
  BY SumSplit
<1>2. SumFunctionOnSet(f, S \ {x}) \in Nat
  <2>1. IsFiniteSet(S \ {x}) /\ \A y \in S \ {x} : f[y] \in Nat
    BY FS_Subset
  <2> QED
    BY <2>1, SumType
<1> QED
  BY <1>1, <1>2

LEMMA SumAdds ==
  ASSUME NEW S, IsFiniteSet(S), NEW f, NEW g, NEW h,
         \A x \in S : f[x] \in Nat /\ g[x] \in Nat /\ h[x] = f[x] + g[x]
  PROVE  SumFunctionOnSet(h, S) = SumFunctionOnSet(f, S) + SumFunctionOnSet(g, S)
<1> DEFINE Add(u, s) == SumFunctionOnSet(u, s)
           Q == {s \in SUBSET S : Add(h, s) = Add(f, s) + Add(g, s)}
<1>1. {} \in Q
  BY SumEmpty
<1>2. ASSUME NEW s \in SUBSET S, s # {}, \A x \in s : s \ {x} \in Q
      PROVE  s \in Q
  <2> DEFINE p == Picked(s)
             rest == s \ {p}
  <2>1. p \in s /\ IsFiniteSet(s) /\ IsFiniteSet(rest)
    BY <1>2, FS_Subset DEF Picked
  <2>2. /\ Add(f, s) = f[p] + Add(f, rest)
        /\ Add(g, s) = g[p] + Add(g, rest)
        /\ Add(h, s) = h[p] + Add(h, rest)
    BY <1>2, <2>1, SumStep
  <2>3. Add(f, rest) \in Nat /\ Add(g, rest) \in Nat
    BY <2>1, SumType
  <2>4. Add(h, rest) = Add(f, rest) + Add(g, rest)
    BY <1>2, <2>1
  <2>5. f[p] \in Nat /\ g[p] \in Nat /\ h[p] = f[p] + g[p]
    BY <2>1
  <2> HIDE DEF Add, p, rest
  <2>6. Add(h, s) = Add(f, s) + Add(g, s)
    BY <2>2, <2>3, <2>4, <2>5
  <2> QED
    BY <2>6
<1> HIDE DEF Q
<1>3. S \in Q
  BY <1>1, <1>2, SetInduction
<1> QED
  BY <1>3 DEF Q

LEMMA SumZero ==
  ASSUME NEW S, IsFiniteSet(S), NEW f, \A x \in S : f[x] = 0
  PROVE  SumFunctionOnSet(f, S) = 0
<1>1. SumFunctionOnSet(f, S) \in Nat
  <2>1. \A x \in S : f[x] \in Nat
    OBVIOUS
  <2> QED
    BY <2>1, SumType
<1>2. \A x \in S : f[x] \in Nat /\ f[x] = f[x] + f[x]
  OBVIOUS
<1>3. SumFunctionOnSet(f, S) = SumFunctionOnSet(f, S) + SumFunctionOnSet(f, S)
  BY <1>2, SumAdds
<1> DEFINE total == SumFunctionOnSet(f, S)
<1>4. total \in Nat /\ total = total + total
  BY <1>1, <1>3
<1> HIDE DEF total
<1>5. total = 0
  BY <1>4
<1> QED
  BY <1>5 DEF total

LEMMA SumEqual ==
  ASSUME NEW S, IsFiniteSet(S), NEW f, NEW g, \A x \in S : f[x] \in Nat /\ g[x] = f[x]
  PROVE  SumFunctionOnSet(g, S) = SumFunctionOnSet(f, S)
<1> DEFINE none == [x \in S |-> 0]
<1>1. \A x \in S : none[x] = 0
  OBVIOUS
<1> HIDE DEF none
<1>2. SumFunctionOnSet(none, S) = 0
  BY <1>1, SumZero
<1>3. \A x \in S : f[x] \in Nat /\ none[x] \in Nat /\ g[x] = f[x] + none[x]
  BY <1>1
<1>4. SumFunctionOnSet(g, S) = SumFunctionOnSet(f, S) + SumFunctionOnSet(none, S)
  BY <1>3, SumAdds
<1>5. SumFunctionOnSet(f, S) \in Nat
  BY SumType
<1> QED
  BY <1>2, <1>4, <1>5

(* A sum changes by what one of its values does. *)
LEMMA SumUpdate ==
  ASSUME NEW S, IsFiniteSet(S), NEW x \in S, NEW f, NEW g,
         \A y \in S : f[y] \in Nat /\ g[y] \in Nat,
         \A y \in S : y # x => g[y] = f[y]
  PROVE  SumFunctionOnSet(g, S) + f[x] = SumFunctionOnSet(f, S) + g[x]
<1> DEFINE rest == S \ {x}
<1>1. IsFiniteSet(rest) /\ \A y \in rest : f[y] \in Nat /\ g[y] = f[y]
  BY FS_Subset
<1>2. SumFunctionOnSet(g, rest) = SumFunctionOnSet(f, rest) /\ SumFunctionOnSet(f, rest) \in Nat
  BY <1>1, SumEqual, SumType
<1>3. /\ SumFunctionOnSet(f, S) = f[x] + SumFunctionOnSet(f, rest)
      /\ SumFunctionOnSet(g, S) = g[x] + SumFunctionOnSet(g, rest)
  BY SumSplit
<1> QED
  BY <1>2, <1>3

----------------------------------------------------------------------------
(* What a set of matches says is what its matches say, added up. *)

Additive(w) ==
  /\ w \in [SUBSET Match -> Nat]
  /\ w[{}] = 0
  /\ \A ms \in SUBSET Match, m \in Match : m \in ms => w[ms] = w[ms \ {m}] + w[{m}]

Once(ms, w) == [m \in Match |-> (IF m \in ms THEN 1 ELSE 0) * w[{m}]]

LEMMA MatchFinite == IsFiniteSet(Match)
BY FS_Interval, BoardAssumption DEF Match

LEMMA CountedOnce ==
  ASSUME NEW w, Additive(w), NEW ms \in SUBSET Match
  PROVE  SumFunctionOnSet(Once(ms, w), Match) = w[ms]
<1> DEFINE Q == {s \in SUBSET ms : SumFunctionOnSet(Once(s, w), Match) = w[s]}
<1>2. \A m \in Match : w[{m}] \in Nat
  BY DEF Additive
<1>1. \A s \in SUBSET Match, m \in Match : Once(s, w)[m] = IF m \in s THEN w[{m}] ELSE 0
  <2> TAKE s \in SUBSET Match, m \in Match
  <2>1. Once(s, w)[m] = (IF m \in s THEN 1 ELSE 0) * w[{m}]
    BY DEF Once
  <2>2. \A x \in Nat : 1 * x = x /\ 0 * x = 0
    OBVIOUS
  <2> QED
    BY <1>2, <2>1, <2>2
<1>3. {} \in Q
  <2>1. \A m \in Match : Once({}, w)[m] = 0
    BY <1>1
  <2>2. SumFunctionOnSet(Once({}, w), Match) = 0
    BY <2>1, SumZero, MatchFinite
  <2> QED
    BY <2>2 DEF Additive
<1>4. ASSUME NEW s \in SUBSET ms, s # {}, \A m \in s : s \ {m} \in Q
      PROVE  s \in Q
  <2>1. PICK m \in s : TRUE
    BY <1>4
  <2> DEFINE rest == s \ {m}
             all == Once(s, w)
             less == Once(rest, w)
  <2>2. m \in Match /\ s \in SUBSET Match /\ rest \in SUBSET Match
    OBVIOUS
  <2>3. SumFunctionOnSet(less, Match) = w[rest]
    BY <1>4, <2>1
  <2>4. /\ \A n \in Match : less[n] \in Nat /\ all[n] \in Nat
        /\ \A n \in Match : n # m => all[n] = less[n]
        /\ less[m] = 0 /\ all[m] = w[{m}]
    <3> DEFINE each == [n \in Match |-> w[{n}]]
    <3>1. \A n \in Match : all[n] = IF n \in s THEN each[n] ELSE 0
      BY <1>1, <2>2
    <3>2. \A n \in Match : less[n] = IF n \in s \ {m} THEN each[n] ELSE 0
      BY <1>1, <2>2
    <3>3. \A n \in Match : each[n] \in Nat
      BY <1>2
    <3>4. each[m] = w[{m}]
      BY <2>2
    <3> HIDE DEF all, less, each, rest
    <3> QED
      BY <2>1, <2>2, <3>1, <3>2, <3>3, <3>4
  <2>5. w[s] = w[rest] + w[{m}] /\ w[rest] \in Nat
    BY <2>1, <2>2 DEF Additive
  <2> HIDE DEF all, less, rest
  <2>6. SumFunctionOnSet(all, Match) + less[m] = SumFunctionOnSet(less, Match) + all[m]
    BY <2>2, <2>4, MatchFinite, SumUpdate
  <2>7. SumFunctionOnSet(all, Match) \in Nat
    BY <2>4, MatchFinite, SumType
  <2>8. SumFunctionOnSet(all, Match) = w[s]
    BY <1>2, <2>2, <2>3, <2>4, <2>5, <2>6, <2>7
  <2> QED
    BY <2>8 DEF all
<1> HIDE DEF Q
<1>5. IsFiniteSet(ms)
  BY MatchFinite, FS_Subset
<1>6. ms \in Q
  BY <1>3, <1>4, <1>5, SetInduction
<1> QED
  BY <1>6 DEF Q

LEMMA SumUnion ==
  ASSUME NEW S, IsFiniteSet(S), NEW T, IsFiniteSet(T), S \cap T = {},
         NEW f, \A x \in S \cup T : f[x] \in Nat
  PROVE  SumFunctionOnSet(f, S \cup T) = SumFunctionOnSet(f, S) + SumFunctionOnSet(f, T)
<1> DEFINE Add(s) == SumFunctionOnSet(f, s)
           Q == {s \in SUBSET T : Add(S \cup s) = Add(S) + Add(s)}
<1>1. \A s \in SUBSET T : Add(s) \in Nat /\ Add(S \cup s) \in Nat /\ IsFiniteSet(S \cup s)
  <2> TAKE s \in SUBSET T
  <2>1. IsFiniteSet(s) /\ IsFiniteSet(S \cup s)
    BY FS_Subset, FS_Union
  <2> QED
    BY <2>1, SumType
<1>2. Add(S) \in Nat
  BY SumType
<1>3. {} \in Q
  <2>1. S \cup {} = S
    OBVIOUS
  <2>2. Add(S \cup {}) = Add(S) + 0
    BY <1>2, <2>1
  <2> QED
    BY <2>2, SumEmpty
<1>4. ASSUME NEW s \in SUBSET T, s # {}, \A x \in s : s \ {x} \in Q
      PROVE  s \in Q
  <2>1. PICK x \in s : TRUE
    BY <1>4
  <2>2. Add(S \cup (s \ {x})) = Add(S) + Add(s \ {x})
    BY <1>4, <2>1
  <2>3. IsFiniteSet(s)
    BY FS_Subset
  <2>4. Add(s) = f[x] + Add(s \ {x})
    BY <2>1, <2>3, SumSplit
  <2>5. (S \cup s) \ {x} = S \cup (s \ {x}) /\ x \in S \cup s
    BY <2>1
  <2>6. Add(S \cup s) = f[x] + Add((S \cup s) \ {x})
    BY <1>1, <2>5, SumSplit
  <2>7. f[x] \in Nat /\ Add(s \ {x}) \in Nat /\ Add(S \cup (s \ {x})) \in Nat
    BY <1>1
  <2>8. Add(S \cup s) = f[x] + Add(S \cup (s \ {x}))
    BY <2>5, <2>6
  <2> DEFINE most == S \cup (s \ {x})
             all == S \cup s
             rest == s \ {x}
  <2>9. /\ Add(most) = Add(S) + Add(rest) /\ Add(s) = f[x] + Add(rest)
        /\ Add(all) = f[x] + Add(most) /\ f[x] \in Nat /\ Add(rest) \in Nat
    BY <2>2, <2>4, <2>7, <2>8
  <2> HIDE DEF Add, most, all, rest
  <2>10. Add(all) = Add(S) + Add(s)
    BY <1>2, <2>9
  <2>11. Add(S \cup s) = Add(S) + Add(s)
    BY <2>10 DEF all
  <2> QED
    BY <2>11
<1> HIDE DEF Q
<1>5. T \in Q
  BY <1>3, <1>4, SetInduction
<1> QED
  BY <1>5 DEF Q

(* A set of matches' units are those of one match and those of the rest. *)
LEMMA CardinalityAdds ==
  ASSUME NEW U, NEW S, NEW T, IsFiniteSet(S), IsFiniteSet(T), S \cap T = {}, U = S \cup T
  PROVE  Cardinality(U) = Cardinality(S) + Cardinality(T)
<1>1. Cardinality(U) = Cardinality(S) + Cardinality(T) - 0
  BY FS_Union, FS_EmptySet
<1> QED
  BY <1>1, FS_CardinalityType

LEMMA RowsAdd ==
  ASSUME NEW c \in Carry, NEW o \in Combo
  PROVE  Additive(PicksIn(c, o)) /\ Additive(PlacesIn(c, o))
<1> DEFINE B(ms) == BuiltIn(c, o, ms)
<1>1. IsFiniteSet(Board)
  BY BoardAssumption
<1>2. \A ms : B(ms) \in SUBSET Board /\ IsFiniteSet(B(ms))
  BY <1>1, FS_Subset DEF BuiltIn
<1>3. B({}) = {}
  BY DEF BuiltIn
<1>4. \A ms \in SUBSET Match, m \in Match :
        m \in ms => B(ms) = B(ms \ {m}) \cup B({m}) /\ B(ms \ {m}) \cap B({m}) = {}
  BY DEF BuiltIn
<1>5. \A b \in Board : Places[b] \in Nat
  BY BoardAssumption DEF Places
<1>6. \A ms \in SUBSET Match : /\ PicksIn(c, o)[ms] = Cardinality(B(ms))
                              /\ PlacesIn(c, o)[ms] = SumFunctionOnSet(Places, B(ms))
  BY DEF PicksIn, PlacesIn, ComboRow, ComboRows
<1>7. \A ms : Cardinality(B(ms)) \in Nat /\ SumFunctionOnSet(Places, B(ms)) \in Nat
  BY <1>2, <1>5, FS_CardinalityType, SumType
<1>8. \A m \in Match : {m} \in SUBSET Match
  OBVIOUS
<1> HIDE DEF B
<1>9. ASSUME NEW ms \in SUBSET Match, NEW m \in Match, m \in ms
      PROVE  /\ Cardinality(B(ms)) = Cardinality(B(ms \ {m})) + Cardinality(B({m}))
             /\ SumFunctionOnSet(Places, B(ms)) =
                  SumFunctionOnSet(Places, B(ms \ {m})) + SumFunctionOnSet(Places, B({m}))
  <2>1. B(ms) = B(ms \ {m}) \cup B({m}) /\ B(ms \ {m}) \cap B({m}) = {}
    BY <1>4, <1>9
  <2>2. \A b \in B(ms \ {m}) \cup B({m}) : Places[b] \in Nat
    BY <1>2, <1>5
  <2> DEFINE rest == B(ms \ {m})
             one == B({m})
  <2>3. /\ IsFiniteSet(rest) /\ IsFiniteSet(one) /\ rest \cap one = {} /\ B(ms) = rest \cup one
        /\ \A b \in rest \cup one : Places[b] \in Nat
    BY <1>2, <2>1, <2>2
  <2> HIDE DEF rest, one
  <2>4. Cardinality(B(ms)) = Cardinality(rest) + Cardinality(one)
    BY <2>3, CardinalityAdds
  <2>5. SumFunctionOnSet(Places, B(ms)) = SumFunctionOnSet(Places, rest) + SumFunctionOnSet(Places, one)
    BY <2>3, SumUnion
  <2> QED
    BY <2>4, <2>5 DEF rest, one
<1>10. Additive(PicksIn(c, o))
  <2>1. PicksIn(c, o) \in [SUBSET Match -> Nat]
    BY <1>6, <1>7 DEF PicksIn
  <2>2. PicksIn(c, o)[{}] = 0
    BY <1>3, <1>6, FS_EmptySet
  <2>3. \A ms \in SUBSET Match, m \in Match : m \in ms => ms \ {m} \in SUBSET Match
    OBVIOUS
  <2>4. \A ms \in SUBSET Match, m \in Match :
          m \in ms => PicksIn(c, o)[ms] = PicksIn(c, o)[ms \ {m}] + PicksIn(c, o)[{m}]
    BY <1>6, <1>8, <1>9, <2>3
  <2> QED
    BY <2>1, <2>2, <2>4 DEF Additive
<1>11. Additive(PlacesIn(c, o))
  <2>1. PlacesIn(c, o) \in [SUBSET Match -> Nat]
    BY <1>6, <1>7 DEF PlacesIn
  <2>2. PlacesIn(c, o)[{}] = 0
    BY <1>3, <1>6, SumEmpty
  <2>3. \A ms \in SUBSET Match, m \in Match : m \in ms => ms \ {m} \in SUBSET Match
    OBVIOUS
  <2>4. \A ms \in SUBSET Match, m \in Match :
          m \in ms => PlacesIn(c, o)[ms] = PlacesIn(c, o)[ms \ {m}] + PlacesIn(c, o)[{m}]
    BY <1>6, <1>8, <1>9, <2>3
  <2> QED
    BY <2>1, <2>2, <2>4 DEF Additive
<1> QED
  BY <1>10, <1>11

LEMMA UnitsAdd ==
  ASSUME NEW c \in Carry
  PROVE  Additive(TotalIn(c)) /\ Additive(ThreeIn(c))
<1> DEFINE U(ms) == UnitsIn(c, ms)
           V(ms) == {b \in UnitsIn(c, ms) : b.combo # NoCombo}
<1>1. IsFiniteSet(Board)
  BY BoardAssumption
<1>2. \A ms : /\ U(ms) \in SUBSET Board /\ IsFiniteSet(U(ms))
              /\ V(ms) \in SUBSET Board /\ IsFiniteSet(V(ms))
  BY <1>1, FS_Subset DEF UnitsIn
<1>3. U({}) = {} /\ V({}) = {}
  BY DEF UnitsIn
<1>4. \A ms \in SUBSET Match, m \in Match :
        m \in ms => /\ U(ms) = U(ms \ {m}) \cup U({m}) /\ U(ms \ {m}) \cap U({m}) = {}
                   /\ V(ms) = V(ms \ {m}) \cup V({m}) /\ V(ms \ {m}) \cap V({m}) = {}
  BY DEF UnitsIn
<1>6. \A ms \in SUBSET Match : /\ TotalIn(c)[ms] = Cardinality(U(ms))
                              /\ ThreeIn(c)[ms] = Cardinality(V(ms))
  BY DEF TotalIn, ThreeIn, Total, Three
<1>7. \A ms : Cardinality(U(ms)) \in Nat /\ Cardinality(V(ms)) \in Nat
  BY <1>2, FS_CardinalityType
<1>8. \A m \in Match : {m} \in SUBSET Match
  OBVIOUS
<1> HIDE DEF U, V
<1>9. ASSUME NEW ms \in SUBSET Match, NEW m \in Match, m \in ms
      PROVE  /\ Cardinality(U(ms)) = Cardinality(U(ms \ {m})) + Cardinality(U({m}))
             /\ Cardinality(V(ms)) = Cardinality(V(ms \ {m})) + Cardinality(V({m}))
  <2> DEFINE rest == U(ms \ {m})
             one == U({m})
             rest3 == V(ms \ {m})
             one3 == V({m})
  <2>1. /\ IsFiniteSet(rest) /\ IsFiniteSet(one) /\ rest \cap one = {} /\ U(ms) = rest \cup one
        /\ IsFiniteSet(rest3) /\ IsFiniteSet(one3) /\ rest3 \cap one3 = {} /\ V(ms) = rest3 \cup one3
    BY <1>2, <1>4, <1>9
  <2> HIDE DEF rest, one, rest3, one3
  <2>2. Cardinality(U(ms)) = Cardinality(rest) + Cardinality(one)
    BY <2>1, CardinalityAdds
  <2>3. Cardinality(V(ms)) = Cardinality(rest3) + Cardinality(one3)
    BY <2>1, CardinalityAdds
  <2> QED
    BY <2>2, <2>3 DEF rest, one, rest3, one3
<1>10. Additive(TotalIn(c))
  <2>1. TotalIn(c) \in [SUBSET Match -> Nat]
    BY <1>6, <1>7 DEF TotalIn
  <2>2. TotalIn(c)[{}] = 0
    BY <1>3, <1>6, FS_EmptySet
  <2>3. \A ms \in SUBSET Match, m \in Match : m \in ms => ms \ {m} \in SUBSET Match
    OBVIOUS
  <2>4. \A ms \in SUBSET Match, m \in Match :
          m \in ms => TotalIn(c)[ms] = TotalIn(c)[ms \ {m}] + TotalIn(c)[{m}]
    BY <1>6, <1>8, <1>9, <2>3
  <2> QED
    BY <2>1, <2>2, <2>4 DEF Additive
<1>11. Additive(ThreeIn(c))
  <2>1. ThreeIn(c) \in [SUBSET Match -> Nat]
    BY <1>6, <1>7 DEF ThreeIn
  <2>2. ThreeIn(c)[{}] = 0
    BY <1>3, <1>6, FS_EmptySet
  <2>3. \A ms \in SUBSET Match, m \in Match : m \in ms => ms \ {m} \in SUBSET Match
    OBVIOUS
  <2>4. \A ms \in SUBSET Match, m \in Match :
          m \in ms => ThreeIn(c)[ms] = ThreeIn(c)[ms \ {m}] + ThreeIn(c)[{m}]
    BY <1>6, <1>8, <1>9, <2>3
  <2> QED
    BY <2>1, <2>2, <2>4 DEF Additive
<1> QED
  BY <1>10, <1>11

(* What a row says of matches that have no such unit, and of all units. *)
LEMMA RowFacts ==
  ASSUME NEW c \in Carry, NEW o \in Combo, NEW ms \in SUBSET Match
  PROVE  /\ ComboRow(c, o, ms) \in [picks : Nat, sum : Nat]
         /\ <<c, o>> \notin CombosIn(ms) => ComboRow(c, o, ms) = NoComboRow
         /\ ComboRow(c, o, ms).picks <= Total(c, ms)
         /\ Total(c, ms) \in Nat /\ Three(c, ms) \in Nat /\ Three(c, ms) <= Total(c, ms)
         /\ c \notin CarriesIn(ms) => Total(c, ms) = 0
<1>1. ComboRow(c, o, ms) = [picks |-> Cardinality(BuiltIn(c, o, ms)),
                            sum |-> SumFunctionOnSet(Places, BuiltIn(c, o, ms))]
  BY DEF ComboRow, ComboRows
<1>2. /\ IsFiniteSet(Board) /\ BuiltIn(c, o, ms) \in SUBSET UnitsIn(c, ms)
      /\ UnitsIn(c, ms) \in SUBSET Board
      /\ {b \in UnitsIn(c, ms) : b.combo # NoCombo} \in SUBSET UnitsIn(c, ms)
  BY BoardAssumption DEF BuiltIn, UnitsIn
<1>3. IsFiniteSet(UnitsIn(c, ms)) /\ IsFiniteSet(BuiltIn(c, o, ms))
  BY <1>2, FS_Subset
<1>4. SumFunctionOnSet(Places, BuiltIn(c, o, ms)) \in Nat
  <2>1. \A b \in BuiltIn(c, o, ms) : Places[b] \in Nat
    BY <1>2, BoardAssumption DEF Places
  <2> QED
    BY <1>3, <2>1, SumType
<1>5. ASSUME <<c, o>> \notin CombosIn(ms) PROVE BuiltIn(c, o, ms) = {}
  <2> SUFFICES ASSUME NEW b \in BuiltIn(c, o, ms) PROVE FALSE
    OBVIOUS
  <2>1. b \in {d \in Board : d.match \in ms /\ d.combo # NoCombo} /\ b.carry = c /\ b.combo = o
    BY BoardAssumption DEF BuiltIn
  <2> QED
    BY <1>5, <2>1 DEF CombosIn
<1>6. ASSUME c \notin CarriesIn(ms) PROVE UnitsIn(c, ms) = {}
  BY <1>6 DEF UnitsIn, CarriesIn
<1>7. ComboRow(c, o, ms).picks = Cardinality(BuiltIn(c, o, ms))
  BY <1>1
<1>8. ComboRow(c, o, ms) \in [picks : Nat, sum : Nat]
  BY <1>1, <1>3, <1>4, FS_CardinalityType
<1>9. <<c, o>> \notin CombosIn(ms) => ComboRow(c, o, ms) = NoComboRow
  BY <1>1, <1>5, FS_EmptySet, SumEmpty DEF NoComboRow
<1>10. c \notin CarriesIn(ms) => Total(c, ms) = 0
  BY <1>6, FS_EmptySet DEF Total
<1>11. ComboRow(c, o, ms).picks <= Total(c, ms)
  BY <1>2, <1>3, <1>7, FS_Subset DEF Total
<1>12. Total(c, ms) \in Nat /\ Three(c, ms) \in Nat /\ Three(c, ms) <= Total(c, ms)
  BY <1>2, <1>3, FS_Subset, FS_CardinalityType DEF Total, Three
<1> QED
  BY <1>8, <1>9, <1>10, <1>11, <1>12

Times(cnt, w) == SumFunctionOnSet([m \in Match |-> cnt[m] * w[{m}]], Match)

LEMMA TermType ==
  ASSUME NEW cnt \in [Match -> Nat], NEW w, Additive(w), NEW m \in Match
  PROVE  cnt[m] * w[{m}] \in Nat
<1>1. {m} \in SUBSET Match /\ cnt[m] \in Nat
  OBVIOUS
<1>2. w[{m}] \in Nat
  BY <1>1 DEF Additive
<1> QED
  BY <1>1, <1>2

LEMMA TimesType ==
  ASSUME NEW cnt \in [Match -> Nat], NEW w, Additive(w)
  PROVE  Times(cnt, w) \in Nat
<1> DEFINE f == [m \in Match |-> cnt[m] * w[{m}]]
<1>1. \A m \in Match : f[m] \in Nat
  BY TermType
<1> HIDE DEF f
<1>2. SumFunctionOnSet(f, Match) \in Nat
  BY <1>1, MatchFinite, SumType
<1> QED
  BY <1>2 DEF Times, f

LEMMA TimesZero ==
  ASSUME NEW cnt, \A m \in Match : cnt[m] = 0, NEW w, Additive(w)
  PROVE  Times(cnt, w) = 0
<1> DEFINE f == [m \in Match |-> cnt[m] * w[{m}]]
<1>1. \A m \in Match : f[m] = 0
  <2> TAKE m \in Match
  <2>1. w[{m}] \in Nat /\ \A x \in Nat : 0 * x = 0
    BY DEF Additive
  <2>2. f[m] = 0 * w[{m}]
    OBVIOUS
  <2> QED
    BY <2>1, <2>2
<1> HIDE DEF f
<1>2. SumFunctionOnSet(f, Match) = 0
  BY <1>1, MatchFinite, SumZero
<1> QED
  BY <1>2 DEF Times, f

(* new counts the matches ms once more than cnt does. *)
OnceMore(new, cnt, ms) == \A m \in Match : new[m] = cnt[m] + (IF m \in ms THEN 1 ELSE 0)

(* Counting the matches of a run once more adds what they say. *)
LEMMA TimesAdd ==
  ASSUME NEW cnt \in [Match -> Nat], NEW new, NEW ms \in SUBSET Match, NEW w, Additive(w),
         OnceMore(new, cnt, ms)
  PROVE  Times(new, w) = Times(cnt, w) + w[ms]
<1> DEFINE f == [m \in Match |-> cnt[m] * w[{m}]]
           g == Once(ms, w)
           h == [m \in Match |-> new[m] * w[{m}]]
<1>1. ASSUME NEW m \in Match PROVE f[m] \in Nat /\ g[m] \in Nat /\ h[m] = f[m] + g[m]
  <2> DEFINE x == w[{m}]
             k == IF m \in ms THEN 1 ELSE 0
  <2>1. x \in Nat /\ cnt[m] \in Nat /\ k \in {0, 1} /\ new[m] = cnt[m] + k
    BY DEF Additive, OnceMore
  <2>2. f[m] = cnt[m] * x /\ g[m] = k * x /\ h[m] = new[m] * x
    BY DEF Once
  <2> HIDE DEF f, g, h, x, k
  <2>3. CASE k = 0
    BY <2>1, <2>2, <2>3
  <2>4. CASE k = 1
    <3>1. h[m] = (cnt[m] + 1) * x
      BY <2>1, <2>2, <2>4
    <3>2. g[m] = x
      BY <2>1, <2>2, <2>4
    <3>3. \A a, b \in Nat : (a + 1) * b = a * b + b /\ a * b \in Nat
      OBVIOUS
    <3>4. f[m] \in Nat /\ h[m] = cnt[m] * x + x
      BY <2>1, <2>2, <3>1, <3>3
    <3>5. h[m] = f[m] + g[m]
      BY <2>2, <3>2, <3>4
    <3> QED
      BY <2>1, <3>2, <3>4, <3>5
  <2> QED
    BY <2>1, <2>3, <2>4
<1> HIDE DEF f, g, h
<1>2. SumFunctionOnSet(h, Match) = SumFunctionOnSet(f, Match) + SumFunctionOnSet(g, Match)
  BY <1>1, MatchFinite, SumAdds
<1>3. SumFunctionOnSet(g, Match) = w[ms]
  BY CountedOnce DEF g
<1> QED
  BY <1>2, <1>3 DEF Times, f, h

(* What is never counted with a unit is never counted with a combination. *)
LEMMA NoUnitNoCombo ==
  ASSUME NEW cnt \in [Match -> Nat], NEW c \in Carry, NEW o \in Combo, Times(cnt, TotalIn(c)) = 0
  PROVE  Times(cnt, PicksIn(c, o)) = 0
<1> DEFINE f == [m \in Match |-> cnt[m] * TotalIn(c)[{m}]]
           g == [m \in Match |-> cnt[m] * PicksIn(c, o)[{m}]]
<1>1. \A m \in Match : f[m] \in Nat
  BY UnitsAdd, TermType
<1>2. \A m \in Match : f[m] <= SumFunctionOnSet(f, Match)
  <2> HIDE DEF f
  <2> QED
    BY <1>1, MatchFinite, SumAtLeast
<1>3. SumFunctionOnSet(f, Match) = 0
  BY DEF Times
<1>4. ASSUME NEW m \in Match PROVE g[m] = 0
  <2> DEFINE x == TotalIn(c)[{m}]
             y == PicksIn(c, o)[{m}]
  <2>1. f[m] = 0
    <3> HIDE DEF f
    <3> QED
      BY <1>1, <1>2, <1>3
  <2>2. {m} \in SUBSET Match
    OBVIOUS
  <2>3. x \in Nat /\ y \in Nat /\ y <= x
    BY <2>2, RowFacts DEF TotalIn, PicksIn
  <2>4. cnt[m] \in Nat /\ cnt[m] * x = 0 /\ g[m] = cnt[m] * y
    BY <2>1
  <2>5. \A a, b \in Nat : a * b = 0 => a = 0 \/ b = 0
    OBVIOUS
  <2> HIDE DEF x, y, g
  <2>6. cnt[m] = 0 \/ x = 0
    BY <2>3, <2>4, <2>5
  <2>7. cnt[m] = 0 \/ y = 0
    BY <2>3, <2>6
  <2> QED
    BY <2>3, <2>4, <2>7
<1> HIDE DEF g
<1>5. SumFunctionOnSet(g, Match) = 0
  BY <1>4, MatchFinite, SumZero
<1> QED
  BY <1>5 DEF Times, g

LEMMA TimesTypes ==
  ASSUME NEW c \in Carry, NEW o \in Combo, NEW cnt, cnt \in [Match -> Nat]
  PROVE  /\ Times(cnt, PicksIn(c, o)) \in Nat /\ Times(cnt, PlacesIn(c, o)) \in Nat
         /\ Times(cnt, TotalIn(c)) \in Nat /\ Times(cnt, ThreeIn(c)) \in Nat
BY RowsAdd, UnitsAdd, TimesType

----------------------------------------------------------------------------
(* Types. *)

LEMMA InMatches ==
  ASSUME NEW ms
  PROVE  CombosIn(ms) \in SUBSET (Carry \X Combo) /\ CarriesIn(ms) \in SUBSET Carry
<1>1. \A b \in Board : b.carry \in Carry /\ b.combo \in Combo \cup {NoCombo}
  BY BoardAssumption
<1> QED
  BY <1>1 DEF CombosIn, CarriesIn

LEMMA PairsFinite == \A S \in SUBSET (Carry \X Combo) : IsFiniteSet(S)
BY BoardAssumption, FS_Product, FS_Subset

(* A batch is not empty. *)
LEMMA BatchSome ==
  ASSUME NEW todo \in SUBSET (Carry \X Combo), todo # {},
         NEW rows \in kSubset(Min({Batch, Cardinality(todo)}), todo)
  PROVE  rows \in SUBSET todo /\ rows # {}
<1> DEFINE n == Min({Batch, Cardinality(todo)})
<1>1. Batch \in Nat \ {0} /\ Cardinality(todo) \in Nat \ {0}
  BY BoardAssumption, PairsFinite, FS_CardinalityType, FS_EmptySet
<1>2. \A a, b \in Nat : \E x \in {a, b} : \A y \in {a, b} : x <= y
  OBVIOUS
<1>3. n \in {Batch, Cardinality(todo)}
  <2> DEFINE a == Batch
             b == Cardinality(todo)
  <2>1. a \in Nat /\ b \in Nat
    BY <1>1
  <2> HIDE DEF a, b
  <2>2. Min({a, b}) \in {a, b}
    BY <1>2, <2>1 DEF Min
  <2> QED
    BY <2>2 DEF a, b
<1>4. rows \in SUBSET todo /\ Cardinality(rows) = n
  BY DEF kSubset
<1> HIDE DEF n
<1> QED
  BY <1>1, <1>3, <1>4, FS_EmptySet

LEMMA TankType == ASSUME NEW picks, NEW t \in TankAnswers(picks) PROVE t \in BOOLEAN
BY DEF TankAnswers

(* Where nothing is picked, no tank answers. *)
LEMMA NoTank ==
  ASSUME NEW picks, \A o \in Combo : picks[o] = 0
  PROVE  TankAnswers(picks) = {FALSE}
<1>1. {o \in Combo : picks[o] > 0 /\ \A q \in Combo : picks[q] <= picks[o]} = {}
  OBVIOUS
<1> QED
  BY <1>1 DEF TankAnswers

RunType(n) == [pc : {"idle", "clear", "combos", "carries"}, full : BOOLEAN, loaded : SUBSET (1 .. n),
               todo : SUBSET (Carry \cup Carry \X Combo), alone : BOOLEAN]

TodoIn(run) == run.todo \subseteq IF run.pc = "carries" THEN Carry ELSE Carry \X Combo

RunsTyped(rs, n) == rs \in [Run -> RunType(n)] /\ \A r \in Run : TodoIn(rs[r])

ComboRowType == [picks : Nat, sum : Nat]
CarryRowType == [total : Nat, three : Nat, isCarry : BOOLEAN, isTank : BOOLEAN]

LEMMA IdleTyped == \A n : Idle \in RunType(n) /\ TodoIn(Idle)
BY DEF Idle, RunType, TodoIn

LEMMA LoadedMatches ==
  ASSUME stored \in 0 .. LastMatch, RunsTyped(runs, stored), NEW r \in Run
  PROVE  runs[r].loaded \in SUBSET Match
<1>1. stored \in Nat /\ LastMatch \in Nat /\ stored <= LastMatch
  BY BoardAssumption
<1>2. 1 .. stored \subseteq Match
  BY <1>1 DEF Match
<1> QED
  BY <1>2 DEF RunsTyped, RunType

(* A step of one run leaves the others as they are. *)
LEMMA OneRun ==
  ASSUME NEW n, NEW rs, RunsTyped(rs, n), NEW r \in Run, NEW run \in RunType(n), TodoIn(run)
  PROVE  RunsTyped([rs EXCEPT ![r] = run], n)
BY DEF RunsTyped

TypeParts ==
  /\ stored \in 0 .. LastMatch
  /\ comboStats \in [Carry -> [Combo -> ComboRowType]]
  /\ carryStats \in [Carry -> CarryRowType]
  /\ RunsTyped(runs, stored)
  /\ \A c \in Carry : carryStats[c].three <= carryStats[c].total
  /\ counted \in [Match -> Nat] /\ clean \in BOOLEAN /\ base \subseteq Match /\ owner \subseteq Active
  /\ started \in 0 .. MaxRuns /\ faults \in 0 .. MaxFaults

LEMMA TypeInParts == TypeOK <=> TypeParts
BY DEF TypeOK, TypeParts, RunsTyped, RunType, TodoIn, ComboRowType, CarryRowType

LEMMA TypeInit == Init => TypeParts
<1> SUFFICES ASSUME Init PROVE TypeParts
  OBVIOUS
<1>1. NoComboRows \in [Carry -> [Combo -> ComboRowType]]
  BY DEF NoComboRows, NoComboRow, ComboRowType
<1>2. NoCarryRows \in [Carry -> CarryRowType] /\ \A c \in Carry : NoCarryRows[c].three <= NoCarryRows[c].total
  BY DEF NoCarryRows, NoCarryRow, CarryRowType
<1>3. RunsTyped(runs, 0)
  BY IdleTyped DEF Init, RunsTyped
<1>4. {LastMatch, MaxRuns, MaxFaults} \subseteq Nat
  BY BoardAssumption
<1> QED
  BY <1>1, <1>2, <1>3, <1>4 DEF Init, TypeParts

(* Total and Three need no combination. *)
LEMMA UnitCounts ==
  ASSUME NEW c, NEW ms
  PROVE  Total(c, ms) \in Nat /\ Three(c, ms) \in Nat /\ Three(c, ms) <= Total(c, ms)
<1>1. /\ UnitsIn(c, ms) \in SUBSET Board
      /\ {b \in UnitsIn(c, ms) : b.combo # NoCombo} \in SUBSET UnitsIn(c, ms)
  BY DEF UnitsIn
<1>2. IsFiniteSet(UnitsIn(c, ms))
  BY <1>1, BoardAssumption, FS_Subset
<1> QED
  BY <1>1, <1>2, FS_Subset, FS_CardinalityType DEF Total, Three

(* What the upsert makes of the row of a unit. *)
Summed(row, c, ms) == [row EXCEPT !.total = @ + Total(c, ms), !.three = @ + Three(c, ms)]

LEMMA Upserted ==
  ASSUME TypeParts, NEW r \in Run, UpsertCarries(r), NEW c \in Carry
  PROVE  LET ms == runs[r].loaded
         IN  /\ carryStats'[c] \in CarryRowType
             /\ carryStats'[c].total = carryStats[c].total + Total(c, ms)
             /\ carryStats'[c].three = carryStats[c].three + Three(c, ms)
             /\ carryStats'[c].three <= carryStats'[c].total
             /\ carryStats'[c].isCarry <=>
                  carryStats'[c].three * 100 > carryStats'[c].total * CarryPercent
             /\ carryStats'[c].total # 0 =>
                  carryStats'[c].isTank \in TankAnswers([o \in Combo |-> comboStats[c][o].picks])
             /\ carryStats'[c].total = 0 => carryStats'[c].isTank = FALSE
<1> DEFINE ms == runs[r].loaded
           sum == Summed(carryStats[c], c, ms)
<1>1. PICK tank \in [Carry -> BOOLEAN] :
        /\ \A d \in Carry :
             tank[d] \in IF Summed(carryStats[d], d, ms).total = 0 THEN {FALSE}
                         ELSE TankAnswers([o \in Combo |-> comboStats[d][o].picks])
        /\ carryStats' = [d \in Carry |->
             IF Summed(carryStats[d], d, ms).total = 0 THEN NoCarryRow
             ELSE [Flagged(Summed(carryStats[d], d, ms)) EXCEPT !.isTank = tank[d]]]
  BY DEF UpsertCarries, Summed
<1>2. /\ carryStats'[c] = IF sum.total = 0 THEN NoCarryRow
                           ELSE [Flagged(sum) EXCEPT !.isTank = tank[c]]
      /\ tank[c] \in BOOLEAN
      /\ tank[c] \in IF sum.total = 0 THEN {FALSE}
                     ELSE TankAnswers([o \in Combo |-> comboStats[c][o].picks])
  BY <1>1
<1>3. /\ Total(c, ms) \in Nat /\ Three(c, ms) \in Nat /\ Three(c, ms) <= Total(c, ms)
      /\ carryStats[c] \in CarryRowType /\ carryStats[c].three <= carryStats[c].total
  BY UnitCounts DEF TypeParts
<1>4. /\ sum \in CarryRowType /\ sum.three <= sum.total
      /\ sum.total = carryStats[c].total + Total(c, ms)
      /\ sum.three = carryStats[c].three + Three(c, ms)
  <2> DEFINE row == carryStats[c]
             n == Total(c, ms)
             k == Three(c, ms)
  <2>1. sum = [row EXCEPT !.total = row.total + n, !.three = row.three + k]
    BY DEF Summed
  <2>2. /\ n \in Nat /\ k \in Nat /\ k <= n
        /\ row \in [total : Nat, three : Nat, isCarry : BOOLEAN, isTank : BOOLEAN]
        /\ row.three <= row.total
    BY <1>3 DEF CarryRowType
  <2> HIDE DEF row, n, k, sum, ms
  <2>3. sum.total = row.total + n /\ sum.three = row.three + k
    BY <2>1, <2>2
  <2>4. sum \in [total : Nat, three : Nat, isCarry : BOOLEAN, isTank : BOOLEAN]
    <3> DEFINE a == row.total + n
               b == row.three + k
    <3>1. a \in Nat /\ b \in Nat /\ sum = [row EXCEPT !.total = a, !.three = b]
      BY <2>1, <2>2
    <3>2. row \in [total : Nat, three : Nat, isCarry : BOOLEAN, isTank : BOOLEAN]
      BY <2>2
    <3> HIDE DEF a, b
    <3> QED
      BY <3>1, <3>2
  <2>5. sum.three <= sum.total
    BY <2>2, <2>3
  <2> QED
    BY <2>3, <2>4, <2>5 DEF row, n, k, CarryRowType
<1> HIDE DEF sum, ms
<1>6. CASE sum.total = 0
  <2>1. carryStats'[c] = NoCarryRow /\ sum.three = 0
    BY <1>2, <1>4, <1>6 DEF CarryRowType
  <2>2. CarryPercent \in Nat /\ 0 * CarryPercent = 0
    BY BoardAssumption
  <2>3. NoCarryRow.isCarry <=> NoCarryRow.three * 100 > NoCarryRow.total * CarryPercent
    <3>1. ~(0 * 100 > 0 * CarryPercent)
      BY <2>2
    <3> QED
      BY <3>1 DEF NoCarryRow
  <2>4. /\ NoCarryRow.total = 0 /\ NoCarryRow.three = 0 /\ NoCarryRow.isTank = FALSE
        /\ NoCarryRow \in CarryRowType
    BY DEF NoCarryRow, CarryRowType
  <2> QED
    BY <1>4, <1>6, <2>1, <2>3, <2>4 DEF ms
<1>7. CASE sum.total # 0
  <2>1. /\ carryStats'[c] = [Flagged(sum) EXCEPT !.isTank = tank[c]]
        /\ tank[c] \in TankAnswers([o \in Combo |-> comboStats[c][o].picks])
    BY <1>2, <1>7
  <2>2. /\ carryStats'[c].total = sum.total /\ carryStats'[c].three = sum.three
        /\ carryStats'[c].isCarry <=> sum.three * 100 > sum.total * CarryPercent
        /\ carryStats'[c].isTank = tank[c] /\ carryStats'[c] \in CarryRowType
    <3> DEFINE flag == sum.three * 100 > sum.total * CarryPercent
    <3>1. carryStats'[c] = [[sum EXCEPT !.isCarry = flag] EXCEPT !.isTank = tank[c]]
      BY <2>1 DEF Flagged
    <3>2. flag \in BOOLEAN /\ tank[c] \in BOOLEAN
      BY <1>2
    <3>3. sum \in [total : Nat, three : Nat, isCarry : BOOLEAN, isTank : BOOLEAN]
      BY <1>4 DEF CarryRowType
    <3> HIDE DEF flag
    <3>4. /\ carryStats'[c].total = sum.total /\ carryStats'[c].three = sum.three
          /\ carryStats'[c].isCarry = flag /\ carryStats'[c].isTank = tank[c]
          /\ carryStats'[c] \in CarryRowType
      BY <3>1, <3>2, <3>3 DEF CarryRowType
    <3> QED
      BY <3>4 DEF flag
  <2> QED
    BY <1>4, <1>7, <2>1, <2>2 DEF ms
<1> QED
  BY <1>6, <1>7

LEMMA TypeKept == TypeParts /\ [Next]_vars => TypeParts'
<1> SUFFICES ASSUME TypeParts, [Next]_vars PROVE TypeParts'
  OBVIOUS
<1> USE DEF tables, hist
<1>0. {LastMatch, MaxRuns, MaxFaults} \subseteq Nat
  BY BoardAssumption
<1>1. CASE UNCHANGED vars
  BY <1>1 DEF vars, TypeParts, Active
<1>2. CASE Fetch
  <2>1. stored' \in 0 .. LastMatch /\ 1 .. stored \subseteq 1 .. stored'
    BY <1>0, <1>2 DEF Fetch, TypeParts
  <2>2. RunsTyped(runs, stored')
    BY <2>1 DEF TypeParts, RunsTyped, RunType
  <2> QED
    BY <1>2, <2>1, <2>2 DEF Fetch, TypeParts, Active
<1>3. ASSUME NEW r \in Run, NEW full \in BOOLEAN, NEW ms \in SUBSET (1 .. stored), Start(r, full, ms)
      PROVE  TypeParts'
  <2>1. RunsTyped(runs, stored)'
    <3>1. \A q \in Run : runs'[q] \in RunType(stored) /\ TodoIn(runs'[q])
      <4> TAKE q \in Run
      <4>1. CASE q = r
        <5>1. /\ runs'[q].pc = (IF full THEN "clear" ELSE "combos") /\ runs'[q].todo = CombosIn(ms)
              /\ runs'[q].alone \in BOOLEAN
              /\ runs'[q] = [pc |-> runs'[q].pc, full |-> full, loaded |-> ms, todo |-> CombosIn(ms),
                             alone |-> runs'[q].alone]
          BY <1>3, <4>1 DEF Start
        <5> QED
          BY <5>1, InMatches DEF RunType, TodoIn
      <4>2. CASE q # r
        <5>1. runs'[q] = [runs[q] EXCEPT !.alone = runs[q].alone /\ ~(full \/ runs[q].full)]
          BY <1>3, <4>2 DEF Start
        <5>2. runs[q] \in RunType(stored) /\ TodoIn(runs[q])
          BY DEF TypeParts, RunsTyped
        <5> QED
          BY <5>1, <5>2 DEF RunType, TodoIn
      <4> QED
        BY <4>1, <4>2
    <3> QED
      BY <1>3, <3>1 DEF Start, RunsTyped
  <2>2. owner \subseteq Active'
    <3>1. \A q \in Run : q # r => runs'[q].pc = runs[q].pc
      <4> TAKE q \in Run
      <4> HAVE q # r
      <4>1. runs'[q] = [runs[q] EXCEPT !.alone = runs[q].alone /\ ~(full \/ runs[q].full)]
        BY <1>3 DEF Start
      <4> QED
        BY <4>1 DEF TypeParts, RunsTyped, RunType
    <3>2. r \notin owner
      BY <1>3 DEF Start, TypeParts, Active
    <3> QED
      BY <3>1, <3>2 DEF TypeParts, Active
  <2>3. started' \in 0 .. MaxRuns
    BY <1>0, <1>3 DEF Start, TypeParts
  <2> QED
    BY <1>3, <2>1, <2>2, <2>3 DEF Start, TypeParts
<1>4. ASSUME NEW r \in Run, StartFull(r) PROVE TypeParts'
  BY <1>3, <1>4 DEF StartFull
<1>5. ASSUME NEW r \in Run, NEW k \in 0 .. stored, StartAfter(r, k) PROVE TypeParts'
  <2>1. (k + 1) .. stored \in SUBSET (1 .. stored)
    BY <1>0 DEF TypeParts
  <2> QED
    BY <1>3, <1>5, <2>1 DEF StartAfter
<1>6. ASSUME NEW r \in Run PROVE runs[r] \in RunType(stored) /\ TodoIn(runs[r])
  BY DEF TypeParts, RunsTyped
<1>7. ASSUME NEW r \in Run, ClearCombos(r) PROVE TypeParts'
  <2> DEFINE run == [runs[r] EXCEPT !.pc = "combos"]
  <2>1. run \in RunType(stored) /\ TodoIn(run) /\ runs' = [runs EXCEPT ![r] = run]
    BY <1>6, <1>7 DEF ClearCombos, RunType, TodoIn
  <2>2. RunsTyped(runs', stored')
    <3>1. stored' = stored /\ RunsTyped(runs, stored)
      BY <1>7 DEF ClearCombos, TypeParts
    <3> HIDE DEF run
    <3> QED
      BY <3>1, <2>1, OneRun
  <2>3. comboStats' \in [Carry -> [Combo -> ComboRowType]]
    BY <1>7 DEF ClearCombos, Cleared, NoComboRows, NoComboRow, ComboRowType
  <2>4. owner' \subseteq Active'
    BY <1>6, <1>7, <2>1 DEF ClearCombos, Active, TypeParts, RunsTyped, RunType
  <2>5. base' \subseteq Match
    BY <1>7, LoadedMatches DEF ClearCombos, TypeParts
  <2> QED
    BY <1>7, <2>2, <2>3, <2>4, <2>5 DEF ClearCombos, TypeParts
<1>8. ASSUME NEW r \in Run, InsertCombos(r) PROVE TypeParts'
  <2>1. PICK rows :
          /\ comboStats' = [c \in Carry |-> [o \in Combo |->
               IF <<c, o>> \in rows
               THEN Added(comboStats[c][o], ComboRow(c, o, runs[r].loaded))
               ELSE comboStats[c][o]]]
          /\ runs' = [runs EXCEPT ![r].todo = runs[r].todo \ rows]
    BY <1>8 DEF InsertCombos
  <2> DEFINE run == [runs[r] EXCEPT !.todo = runs[r].todo \ rows]
  <2>2. run \in RunType(stored) /\ TodoIn(run) /\ runs' = [runs EXCEPT ![r] = run]
    BY <1>6, <2>1 DEF RunType, TodoIn
  <2>3. RunsTyped(runs', stored')
    <3>1. stored' = stored /\ RunsTyped(runs, stored)
      BY <1>8 DEF InsertCombos, TypeParts
    <3> HIDE DEF run
    <3> QED
      BY <3>1, <2>2, OneRun
  <2>4. \A c \in Carry, o \in Combo :
          /\ comboStats[c][o] \in ComboRowType
          /\ Added(comboStats[c][o], ComboRow(c, o, runs[r].loaded)) \in ComboRowType
    <3> TAKE c \in Carry, o \in Combo
    <3>1. runs[r].loaded \in SUBSET Match
      BY LoadedMatches DEF TypeParts
    <3>2. ComboRow(c, o, runs[r].loaded) \in ComboRowType /\ comboStats[c][o] \in ComboRowType
      BY <3>1, RowFacts DEF TypeParts, ComboRowType
    <3> QED
      BY <3>2 DEF Added, ComboRowType
  <2>5. comboStats' \in [Carry -> [Combo -> ComboRowType]]
    BY <2>1, <2>4
  <2>6. owner' \subseteq Active'
    BY <1>6, <1>8, <2>2 DEF InsertCombos, Active, TypeParts, RunsTyped, RunType
  <2> QED
    BY <1>8, <2>3, <2>5, <2>6 DEF InsertCombos, TypeParts
<1>9. ASSUME NEW r \in Run, ClearCarries(r) PROVE TypeParts'
  <2> DEFINE run == [runs[r] EXCEPT !.pc = "carries", !.todo = CarriesIn(runs[r].loaded)]
  <2>1. runs' = [runs EXCEPT ![r] = run]
    BY <1>6, <1>9 DEF ClearCarries
  <2>2. run \in RunType(stored) /\ TodoIn(run)
    BY <1>6, InMatches DEF RunType, TodoIn
  <2>3. RunsTyped(runs', stored')
    <3>1. stored' = stored /\ RunsTyped(runs, stored)
      BY <1>9 DEF ClearCarries, TypeParts
    <3> HIDE DEF run
    <3> QED
      BY <3>1, <2>1, <2>2, OneRun
  <2>4. /\ carryStats' \in [Carry -> CarryRowType]
        /\ \A c \in Carry : carryStats'[c].three <= carryStats'[c].total
    BY <1>9 DEF ClearCarries, Cleared, NoCarryRows, NoCarryRow, CarryRowType
  <2>5. owner' \subseteq Active'
    BY <1>6, <1>9, <2>1 DEF ClearCarries, Active, TypeParts, RunsTyped, RunType
  <2> QED
    BY <1>9, <2>3, <2>4, <2>5 DEF ClearCarries, TypeParts
<1>10. ASSUME NEW r \in Run, NEW c \in Carry, InsertCarry(r, c) PROVE TypeParts'
  <2> DEFINE run == [runs[r] EXCEPT !.todo = runs[r].todo \ {c}]
             ms == runs[r].loaded
  <2>1. runs' = [runs EXCEPT ![r] = run] /\ run \in RunType(stored) /\ TodoIn(run)
    BY <1>6, <1>10 DEF InsertCarry, RunType, TodoIn
  <2>2. RunsTyped(runs', stored')
    <3>1. stored' = stored /\ RunsTyped(runs, stored)
      BY <1>10 DEF InsertCarry, TypeParts
    <3> HIDE DEF run
    <3> QED
      BY <3>1, <2>1, OneRun
  <2>3. ms \in SUBSET Match
    BY LoadedMatches DEF TypeParts
  <2>4. Total(c, ms) \in Nat /\ Three(c, ms) \in Nat /\ Three(c, ms) <= Total(c, ms)
    BY UnitCounts
  <2>5. PICK row \in CarryRowType : carryStats' = [carryStats EXCEPT ![c] = row] /\ row.three <= row.total
    <3>1. PICK tank \in TankAnswers([o \in Combo |-> ComboRow(c, o, ms).picks]) :
            carryStats' = [carryStats EXCEPT ![c] =
              [total |-> Total(c, ms), three |-> Three(c, ms),
               isCarry |-> Three(c, ms) * 100 >= Total(c, ms) * CarryPercent, isTank |-> tank]]
      BY <1>10 DEF InsertCarry
    <3> DEFINE row == [total |-> Total(c, ms), three |-> Three(c, ms),
                       isCarry |-> Three(c, ms) * 100 >= Total(c, ms) * CarryPercent, isTank |-> tank]
    <3>2. tank \in BOOLEAN
      BY TankType
    <3>3. row \in CarryRowType /\ row.three <= row.total
      BY <2>4, <3>2 DEF CarryRowType
    <3> QED
      BY <3>1, <3>3
  <2>6. /\ carryStats' \in [Carry -> CarryRowType]
        /\ \A d \in Carry : carryStats'[d].three <= carryStats'[d].total
    BY <2>5 DEF TypeParts
  <2>7. owner' \subseteq Active'
    BY <1>6, <1>10, <2>1 DEF InsertCarry, Active, TypeParts, RunsTyped, RunType
  <2> QED
    BY <1>10, <2>2, <2>6, <2>7 DEF InsertCarry, TypeParts
<1>11. ASSUME NEW r \in Run, runs' = [runs EXCEPT ![r] = Idle], stored' = stored, owner' = owner \ {r}
       PROVE  RunsTyped(runs', stored') /\ owner' \subseteq Active'
  <2>1. RunsTyped(runs', stored')
    BY <1>11, IdleTyped, OneRun DEF TypeParts
  <2>2. owner' \subseteq Active'
    BY <1>11 DEF Active, TypeParts, RunsTyped
  <2> QED
    BY <2>1, <2>2
<1>12. ASSUME NEW r \in Run, Succeeds(r), stored' = stored
       PROVE  /\ RunsTyped(runs', stored') /\ owner' \subseteq Active'
              /\ clean' \in BOOLEAN /\ counted' \in [Match -> Nat] /\ base' \subseteq Match
  <2>1. RunsTyped(runs', stored') /\ owner' \subseteq Active'
    BY <1>11, <1>12 DEF Succeeds
  <2>2. clean' \in BOOLEAN
    BY <1>12 DEF Succeeds
  <2>3. counted' \in [Match -> Nat]
    BY <1>12 DEF Succeeds, TypeParts
  <2> QED
    BY <1>12, <2>1, <2>2, <2>3 DEF Succeeds, TypeParts
<1>13. ASSUME NEW r \in Run, FullEnds(r) PROVE TypeParts'
  BY <1>12, <1>13 DEF FullEnds, TypeParts
<1>14. ASSUME NEW r \in Run, UpsertCarries(r) PROVE TypeParts'
  <2>1. /\ carryStats' \in [Carry -> CarryRowType]
        /\ \A c \in Carry : carryStats'[c].three <= carryStats'[c].total
    <3>1. \A c \in Carry : carryStats'[c] \in CarryRowType /\ carryStats'[c].three <= carryStats'[c].total
      BY <1>14, Upserted
    <3>2. carryStats' = [c \in Carry |-> carryStats'[c]]
      BY <1>14 DEF UpsertCarries
    <3> QED
      BY <3>1, <3>2
  <2> QED
    BY <1>12, <1>14, <2>1 DEF UpsertCarries, TypeParts
<1>15. ASSUME NEW r \in Run, Fails(r) PROVE TypeParts'
  <2>1. faults' \in 0 .. MaxFaults
    BY <1>0, <1>15 DEF Fails, TypeParts
  <2>2. base' \subseteq Match /\ clean' \in BOOLEAN
    BY <1>15 DEF Fails, TypeParts
  <2>3. RunsTyped(runs', stored') /\ owner' \subseteq Active'
    BY <1>11, <1>15 DEF Fails
  <2> QED
    BY <1>15, <2>1, <2>2, <2>3 DEF Fails, TypeParts
<1> QED
  BY <1>1, <1>2, <1>4, <1>5, <1>7, <1>8, <1>9, <1>10, <1>13, <1>14, <1>15 DEF Next

(* The aggregation keeps its types (aggregate_combos.rs): above all, no row's *)
(* units with three items outnumber its units.                               *)
THEOREM TypeCorrect == Spec => []TypeOK
<1>1. TypeParts /\ [Next]_vars => TypeParts'
  BY TypeKept
<1>2. Init => TypeParts
  BY TypeInit
<1>3. TypeParts => TypeOK
  BY TypeInParts
<1> QED
  BY <1>1, <1>2, <1>3, PTL DEF Spec

----------------------------------------------------------------------------
(* Flags. *)

LEMMA FlagsKept == TypeParts /\ FlagsFollowCounts /\ [Next]_vars => FlagsFollowCounts'
<1> SUFFICES ASSUME TypeParts, FlagsFollowCounts, [Next]_vars PROVE FlagsFollowCounts'
  OBVIOUS
<1> USE DEF tables, hist
<1> DEFINE Fits(row) == /\ row.three * 100 > row.total * CarryPercent => row.isCarry
                        /\ row.isCarry => row.three * 100 >= row.total * CarryPercent
<1>1. \A c \in Carry : Fits(carryStats[c])
  BY DEF FlagsFollowCounts
<1>2. SUFFICES \A c \in Carry : Fits(carryStats'[c])
  BY DEF FlagsFollowCounts
<1>3. CASE UNCHANGED carryStats
  <2> HIDE DEF Fits
  <2> QED
    BY <1>1, <1>3
<1>4. ASSUME NEW r \in Run, ClearCarries(r), NEW c \in Carry PROVE Fits(carryStats'[c])
  <2>1. carryStats'[c] = NoCarryRow
    BY <1>4 DEF ClearCarries, Cleared, NoCarryRows
  <2>2. CarryPercent \in Nat /\ ~(0 * 100 > 0 * CarryPercent)
    BY BoardAssumption
  <2>3. Fits(NoCarryRow)
    BY <2>2 DEF NoCarryRow
  <2> HIDE DEF Fits
  <2> QED
    BY <2>1, <2>3
<1>5. ASSUME NEW r \in Run, NEW d \in Carry, InsertCarry(r, d), NEW c \in Carry
      PROVE  Fits(carryStats'[c])
  <2> DEFINE n == Total(d, runs[r].loaded)
             k == Three(d, runs[r].loaded)
             row(t) == [total |-> n, three |-> k, isCarry |-> k * 100 >= n * CarryPercent, isTank |-> t]
  <2>1. n \in Nat /\ k \in Nat /\ CarryPercent \in Nat
    BY UnitCounts, BoardAssumption
  <2>2. \E t : carryStats' = [carryStats EXCEPT ![d] = row(t)]
    BY <1>5 DEF InsertCarry
  <2> HIDE DEF n, k
  <2>3. \A t : Fits(row(t))
    <3> TAKE t
    <3> DEFINE a == k * 100
               b == n * CarryPercent
               flag == a >= b
    <3>1. /\ row(t).three * 100 = a /\ row(t).total * CarryPercent = b /\ row(t).isCarry = flag
          /\ a \in Nat /\ b \in Nat
      BY <2>1
    <3>2. a \in Nat /\ b \in Nat => (a > b => flag) /\ (flag => a >= b)
      <4> HIDE DEF a, b
      <4> QED
        OBVIOUS
    <3> HIDE DEF a, b, flag, row
    <3>3. (row(t).three * 100 > row(t).total * CarryPercent => row(t).isCarry)
          /\ (row(t).isCarry => row(t).three * 100 >= row(t).total * CarryPercent)
      BY <3>1, <3>2 DEF flag
    <3> QED
      BY <3>3
  <2>4. carryStats'[c] = carryStats[c] \/ \E t : carryStats'[c] = row(t)
    BY <2>2 DEF TypeParts
  <2> HIDE DEF Fits, row
  <2> QED
    BY <1>1, <2>3, <2>4
<1>6. ASSUME NEW r \in Run, UpsertCarries(r), NEW c \in Carry PROVE Fits(carryStats'[c])
  <2>1. /\ carryStats'[c] \in CarryRowType
        /\ carryStats'[c].isCarry <=> carryStats'[c].three * 100 > carryStats'[c].total * CarryPercent
    BY <1>6, Upserted
  <2> DEFINE a == carryStats'[c].three * 100
             b == carryStats'[c].total * CarryPercent
  <2>2. a \in Nat /\ b \in Nat /\ (carryStats'[c].isCarry <=> a > b)
    BY <2>1, BoardAssumption DEF CarryRowType
  <2> HIDE DEF a, b
  <2>3. (a > b => carryStats'[c].isCarry) /\ (carryStats'[c].isCarry => a >= b)
    BY <2>2
  <2> QED
    BY <2>3 DEF a, b
<1>7. ASSUME NEW r \in Run PROVE ~UNCHANGED carryStats /\ [Next]_vars =>
        \E q \in Run : ClearCarries(q) \/ UpsertCarries(q) \/ \E c \in Carry : InsertCarry(q, c)
  BY DEF Next, vars, Fetch, StartFull, StartAfter, Start, ClearCombos, InsertCombos, FullEnds, Fails
<1>8. Run = {} => UNCHANGED carryStats
  BY DEF Next, vars, Fetch
<1> QED
  BY <1>3, <1>4, <1>5, <1>6, <1>7, <1>8

(* is_carry is never set for a unit that carries less often than the bound, *)
(* nor missing for one that carries more often, whichever of the two        *)
(* aggregations wrote its row last (aggregate_combos.rs:220, 306-309).           *)
THEOREM FlagsFollow == Spec => []FlagsFollowCounts
<1>1. Init => FlagsFollowCounts
  <2>1. CarryPercent \in Nat /\ ~(0 * 100 > 0 * CarryPercent)
    BY BoardAssumption
  <2> QED
    BY <2>1 DEF Init, FlagsFollowCounts, NoCarryRows, NoCarryRow
<1> QED
  BY <1>1, TypeInit, TypeKept, FlagsKept, PTL DEF Spec

----------------------------------------------------------------------------
(* The parts of a run, and what a step of one does to the others.           *)

RunFine(run) ==
  /\ run.pc = "clear" => run.full /\ run.todo = CombosIn(run.loaded)
  /\ run.pc = "combos" => run.todo \subseteq CombosIn(run.loaded)
  /\ run.pc = "carries" => run.full

RunInv == \A r \in Run : RunFine(runs[r])

(* A full run that is alone overlaps no run, and a run that is alone no full *)
(* one.                                                                      *)
AloneInv ==
  \A r, q \in Active :
    r # q /\ (runs[r].full \/ runs[q].full) => ~runs[r].alone /\ ~runs[q].alone

Move(r) ==
  \/ ClearCombos(r) \/ InsertCombos(r) \/ ClearCarries(r)
  \/ \E c \in Carry : InsertCarry(r, c)
  \/ FullEnds(r) \/ UpsertCarries(r) \/ Fails(r)

LEMMA Steps ==
  [Next]_vars => \/ UNCHANGED <<comboStats, carryStats, runs, counted, clean, base, owner>>
                 \/ \E r \in Run, full \in BOOLEAN : \E ms \in SUBSET (1 .. stored) : Start(r, full, ms)
                 \/ \E r \in Run : Move(r)
<1> SUFFICES ASSUME [Next]_vars
             PROVE  \/ UNCHANGED <<comboStats, carryStats, runs, counted, clean, base, owner>>
                    \/ \E r \in Run, full \in BOOLEAN : \E ms \in SUBSET (1 .. stored) : Start(r, full, ms)
                    \/ \E r \in Run : Move(r)
  OBVIOUS
<1>1. ASSUME NEW r \in Run, StartFull(r)
      PROVE  \E full \in BOOLEAN : \E ms \in SUBSET (1 .. stored) : Start(r, full, ms)
  BY <1>1 DEF StartFull
<1>2. ASSUME NEW r \in Run, NEW k \in 0 .. stored, StartAfter(r, k)
      PROVE  \E full \in BOOLEAN : \E ms \in SUBSET (1 .. stored) : Start(r, full, ms)
  <2>1. (k + 1) .. stored \in SUBSET (1 .. stored)
    OBVIOUS
  <2> QED
    BY <1>2, <2>1 DEF StartAfter
<1>3. CASE UNCHANGED vars
  BY <1>3 DEF vars
<1>4. CASE Fetch
  BY <1>4 DEF Fetch, tables, hist
<1>5. CASE \E r \in Run : StartFull(r) \/ \E k \in 0 .. stored : StartAfter(r, k)
  BY <1>1, <1>2, <1>5
<1>6. CASE \E r \in Run : Move(r)
  BY <1>6
<1> QED
  BY <1>3, <1>4, <1>5, <1>6 DEF Next, Move

(* Beginning a run tells the others only that they are not alone. *)
LEMMA StartDoes ==
  ASSUME TypeParts, NEW r \in Run, NEW full \in BOOLEAN, NEW ms, Start(r, full, ms)
  PROVE  /\ runs[r].pc = "idle" /\ r \notin Active /\ r \notin owner
         /\ runs'[r].pc = (IF full THEN "clear" ELSE "combos") /\ runs'[r].full = full
         /\ runs'[r].loaded = ms /\ runs'[r].todo = CombosIn(ms)
         /\ runs'[r].alone <=> \A a \in Active : ~(full \/ runs[a].full)
         /\ \A q \in Run : q # r =>
              /\ runs'[q].pc = runs[q].pc /\ runs'[q].full = runs[q].full
              /\ runs'[q].loaded = runs[q].loaded /\ runs'[q].todo = runs[q].todo
              /\ runs'[q].alone <=> runs[q].alone /\ ~(full \/ runs[q].full)
         /\ Active' = Active \cup {r}
         /\ UNCHANGED <<comboStats, carryStats, counted, clean, base, owner>>
<1>1. /\ runs[r].pc = "idle" /\ r \notin Active /\ r \notin owner
      /\ UNCHANGED <<comboStats, carryStats, counted, clean, base, owner>>
  BY DEF Start, Active, TypeParts, tables, hist
<1>2. runs'[r] = [pc |-> IF full THEN "clear" ELSE "combos", full |-> full, loaded |-> ms,
                  todo |-> CombosIn(ms), alone |-> \A a \in Active : ~(full \/ runs[a].full)]
  BY DEF Start
<1>3. \A q \in Run : q # r =>
        runs'[q] = [runs[q] EXCEPT !.alone = runs[q].alone /\ ~(full \/ runs[q].full)]
  BY DEF Start
<1>4. \A q \in Run : runs[q] \in RunType(stored)
  BY DEF TypeParts, RunsTyped
<1>5. \A q \in Run : q # r =>
        /\ runs'[q].pc = runs[q].pc /\ runs'[q].full = runs[q].full
        /\ runs'[q].loaded = runs[q].loaded /\ runs'[q].todo = runs[q].todo
        /\ runs'[q].alone <=> runs[q].alone /\ ~(full \/ runs[q].full)
  <2> TAKE q \in Run
  <2> HAVE q # r
  <2> DEFINE b == runs[q].alone /\ ~(full \/ runs[q].full)
  <2>1. runs'[q] = [runs[q] EXCEPT !.alone = b] /\ runs[q] \in RunType(stored)
    BY <1>3, <1>4
  <2> HIDE DEF b
  <2>2. /\ runs'[q].pc = runs[q].pc /\ runs'[q].full = runs[q].full
        /\ runs'[q].loaded = runs[q].loaded /\ runs'[q].todo = runs[q].todo
        /\ runs'[q].alone = b
    BY <2>1 DEF RunType
  <2> QED
    BY <2>2 DEF b
<1>6. /\ runs'[r].pc = (IF full THEN "clear" ELSE "combos") /\ runs'[r].full = full
      /\ runs'[r].loaded = ms /\ runs'[r].todo = CombosIn(ms)
      /\ runs'[r].alone <=> \A a \in Active : ~(full \/ runs[a].full)
  BY <1>2
<1>7. Active' = Active \cup {r}
  BY <1>5, <1>6 DEF Active
<1> QED
  BY <1>1, <1>5, <1>6, <1>7

(* A step of a run leaves the others alone. *)
LEMMA MoveDoes ==
  ASSUME TypeParts, NEW r \in Run, Move(r)
  PROVE  /\ r \in Active
         /\ \A q \in Run : q # r => runs'[q] = runs[q]
         /\ \/ runs'[r] = Idle
            \/ /\ runs'[r].pc # "idle" /\ runs'[r].full = runs[r].full
               /\ runs'[r].loaded = runs[r].loaded /\ runs'[r].alone = runs[r].alone
<1>1. runs[r] \in RunType(stored) /\ runs \in [Run -> RunType(stored)]
  BY DEF TypeParts, RunsTyped
<1>2. CASE ClearCombos(r)
  BY <1>1, <1>2 DEF ClearCombos, Active, RunType
<1>3. CASE InsertCombos(r)
  BY <1>1, <1>3 DEF InsertCombos, Active, RunType
<1>4. CASE ClearCarries(r)
  BY <1>1, <1>4 DEF ClearCarries, Active, RunType
<1>5. CASE \E c \in Carry : InsertCarry(r, c)
  BY <1>1, <1>5 DEF InsertCarry, Active, RunType
<1>6. CASE FullEnds(r) \/ UpsertCarries(r) \/ Fails(r)
  BY <1>1, <1>6 DEF FullEnds, UpsertCarries, Fails, Succeeds, Active, RunType
<1> QED
  BY <1>2, <1>3, <1>4, <1>5, <1>6 DEF Move

LEMMA RunKept == TypeParts /\ RunInv /\ [Next]_vars => RunInv'
<1> SUFFICES ASSUME TypeParts, RunInv, [Next]_vars PROVE RunInv'
  OBVIOUS
<1>0. SUFFICES \A q \in Run : RunFine(runs'[q])
  BY DEF RunInv
<1>1. CASE UNCHANGED runs
  BY <1>1 DEF RunInv
<1>2. ASSUME NEW r \in Run, NEW full \in BOOLEAN, NEW ms, Start(r, full, ms), NEW q \in Run
      PROVE  RunFine(runs'[q])
  BY <1>2, StartDoes DEF RunInv, RunFine
<1>3. ASSUME NEW r \in Run, Move(r), NEW q \in Run PROVE RunFine(runs'[q])
  <2>1. CASE q # r
    BY <1>3, <2>1, MoveDoes DEF RunInv
  <2>2. CASE q = r
    <3>1. runs[r] \in RunType(stored) /\ runs \in [Run -> RunType(stored)] /\ RunFine(runs[r])
      BY DEF TypeParts, RunsTyped, RunInv
    <3>2. CASE ClearCombos(r)
      BY <2>2, <3>1, <3>2 DEF ClearCombos, RunFine, RunType
    <3>3. CASE InsertCombos(r)
      <4>1. PICK rows : runs' = [runs EXCEPT ![r].todo = runs[r].todo \ rows]
        BY <3>3 DEF InsertCombos
      <4>2. runs[r].pc = "combos"
        BY <3>3 DEF InsertCombos
      <4> QED
        BY <2>2, <3>1, <4>1, <4>2 DEF RunFine, RunType
    <3>4. CASE ClearCarries(r)
      BY <2>2, <3>1, <3>4 DEF ClearCarries, RunFine, RunType
    <3>5. CASE \E c \in Carry : InsertCarry(r, c)
      BY <2>2, <3>1, <3>5 DEF InsertCarry, RunFine, RunType
    <3>6. CASE FullEnds(r) \/ UpsertCarries(r) \/ Fails(r)
      <4>1. runs' = [runs EXCEPT ![r] = Idle]
        BY <3>6 DEF FullEnds, UpsertCarries, Fails, Succeeds
      <4> QED
        BY <2>2, <3>1, <4>1 DEF RunFine, Idle
    <3> QED
      BY <1>3, <3>2, <3>3, <3>4, <3>5, <3>6 DEF Move
  <2> QED
    BY <2>1, <2>2
<1> QED
  BY <1>1, <1>2, <1>3, Steps

LEMMA AloneKept == TypeParts /\ AloneInv /\ [Next]_vars => AloneInv'
<1> SUFFICES ASSUME TypeParts, AloneInv, [Next]_vars,
                    NEW a \in Run, NEW b \in Run, runs'[a].pc # "idle", runs'[b].pc # "idle",
                    a # b, runs'[a].full \/ runs'[b].full
             PROVE  ~runs'[a].alone /\ ~runs'[b].alone
  BY DEF AloneInv, Active
<1>1. CASE UNCHANGED runs
  BY <1>1 DEF AloneInv, Active
<1>2. ASSUME NEW r \in Run, NEW full \in BOOLEAN, NEW ms, Start(r, full, ms)
      PROVE  ~runs'[a].alone /\ ~runs'[b].alone
  <2>1. CASE a # r /\ b # r
    BY <1>2, <2>1, StartDoes DEF AloneInv, Active
  <2>2. ASSUME NEW q \in Run, q # r, runs'[q].pc # "idle", runs'[q].full \/ runs'[r].full
        PROVE  ~runs'[q].alone /\ ~runs'[r].alone
    <3>1. q \in Active /\ (full \/ runs[q].full)
      BY <1>2, <2>2, StartDoes DEF Active
    <3> QED
      BY <1>2, <2>2, <3>1, StartDoes
  <2> QED
    BY <2>1, <2>2
<1>3. ASSUME NEW r \in Run, Move(r) PROVE ~runs'[a].alone /\ ~runs'[b].alone
  <2>1. ASSUME NEW q \in Run, runs'[q].pc # "idle"
        PROVE  q \in Active /\ runs'[q].full = runs[q].full /\ runs'[q].alone = runs[q].alone
    BY <1>3, <2>1, MoveDoes DEF Active, Idle
  <2> QED
    BY <2>1 DEF AloneInv
<1> QED
  BY <1>1, <1>2, <1>3, Steps

----------------------------------------------------------------------------
(* The run that cleared last. *)

(* It has the row of the unit and the combination behind it. *)
Behind(run, c, o) == run.pc = "combos" => <<c, o>> \notin run.todo

OwnerInv ==
  /\ \A r \in owner : /\ owner = {r} /\ runs[r].full /\ runs[r].loaded = base
                      /\ runs[r].pc \in {"combos", "carries"}
  /\ \A c \in Carry, o \in Combo :
       (\A r \in owner : Behind(runs[r], c, o)) => comboStats[c][o].picks >= ComboRow(c, o, base).picks

LEMMA OwnerKept == TypeParts /\ RunInv /\ OwnerInv /\ [Next]_vars => OwnerInv'
<1> SUFFICES ASSUME TypeParts, RunInv, OwnerInv, [Next]_vars PROVE OwnerInv'
  OBVIOUS
<1>0. /\ owner \subseteq Run /\ base \in SUBSET Match /\ runs \in [Run -> RunType(stored)]
      /\ \A c \in Carry, o \in Combo : comboStats[c][o] \in ComboRowType
  BY DEF TypeParts, RunsTyped, Active
<1>1. CASE UNCHANGED <<comboStats, carryStats, runs, counted, clean, base, owner>>
  BY <1>1 DEF OwnerInv
<1>2. ASSUME NEW r \in Run, NEW full \in BOOLEAN, NEW ms, Start(r, full, ms) PROVE OwnerInv'
  <2>1. UNCHANGED <<comboStats, base, owner>>
    BY <1>2, StartDoes
  <2>2. \A q \in owner : /\ runs'[q].full = runs[q].full /\ runs'[q].loaded = runs[q].loaded
                        /\ runs'[q].pc = runs[q].pc /\ runs'[q].todo = runs[q].todo
    BY <1>0, <1>2, StartDoes
  <2> QED
    BY <2>1, <2>2 DEF OwnerInv, Behind
<1>3. ASSUME NEW r \in Run, ClearCombos(r) PROVE OwnerInv'
  <2>1. /\ runs[r].pc = "clear" /\ comboStats' = NoComboRows /\ base' = runs[r].loaded /\ owner' = {r}
        /\ runs' = [runs EXCEPT ![r].pc = "combos"]
    BY <1>3 DEF ClearCombos, Cleared
  <2>2. runs[r].full /\ runs[r].todo = CombosIn(runs[r].loaded)
    BY <2>1 DEF RunInv, RunFine
  <2>3. /\ runs'[r].pc = "combos" /\ runs'[r].full /\ runs'[r].loaded = runs[r].loaded
        /\ runs'[r].todo = CombosIn(runs[r].loaded)
    BY <1>0, <2>1, <2>2 DEF RunType
  <2>4. ASSUME NEW c \in Carry, NEW o \in Combo, Behind(runs'[r], c, o)
        PROVE  comboStats'[c][o].picks >= ComboRow(c, o, base').picks
    <3>1. <<c, o>> \notin CombosIn(runs[r].loaded) /\ runs[r].loaded \in SUBSET Match
      BY <2>3, <2>4, LoadedMatches DEF Behind, TypeParts
    <3>2. ComboRow(c, o, runs[r].loaded) = NoComboRow
      BY <3>1, RowFacts
    <3>3. comboStats'[c][o] = NoComboRow /\ NoComboRow.picks >= NoComboRow.picks
      BY <2>1 DEF NoComboRows, NoComboRow
    <3> QED
      BY <2>1, <3>2, <3>3
  <2> QED
    BY <2>1, <2>3, <2>4 DEF OwnerInv
<1>4. ASSUME NEW r \in Run, InsertCombos(r) PROVE OwnerInv'
  <2>1. /\ runs[r].pc = "combos" /\ UNCHANGED <<base, owner>>
        /\ runs[r].loaded \in SUBSET Match
    BY <1>4, LoadedMatches DEF InsertCombos, hist, TypeParts
  <2>2. PICK rows :
          /\ comboStats' = [c \in Carry |-> [o \in Combo |->
               IF <<c, o>> \in rows
               THEN Added(comboStats[c][o], ComboRow(c, o, runs[r].loaded))
               ELSE comboStats[c][o]]]
          /\ runs' = [runs EXCEPT ![r].todo = runs[r].todo \ rows]
    BY <1>4 DEF InsertCombos
  <2>3. /\ \A q \in Run : /\ runs'[q].full = runs[q].full /\ runs'[q].loaded = runs[q].loaded
                          /\ runs'[q].pc = runs[q].pc
        /\ \A q \in Run : q # r => runs'[q] = runs[q]
        /\ runs'[r].todo = runs[r].todo \ rows
    BY <1>0, <2>2 DEF RunType
  <2>4. ASSUME NEW c \in Carry, NEW o \in Combo, \A q \in owner : Behind(runs'[q], c, o)
        PROVE  comboStats'[c][o].picks >= ComboRow(c, o, base).picks
    <3> DEFINE more == ComboRow(c, o, runs[r].loaded)
               all  == ComboRow(c, o, base)
               old  == comboStats[c][o]
    <3>1. more.picks \in Nat /\ all.picks \in Nat /\ old.picks \in Nat
      BY <1>0, <2>1, RowFacts DEF ComboRowType
    <3>2. comboStats'[c][o].picks = IF <<c, o>> \in rows THEN old.picks + more.picks ELSE old.picks
      BY <2>2 DEF Added
    <3> HIDE DEF more, all, old
    <3>3. CASE \A q \in owner : Behind(runs[q], c, o)
      <4>1. old.picks >= all.picks
        BY <3>3 DEF OwnerInv, old, all
      <4> QED
        BY <3>1, <3>2, <4>1 DEF all
    <3>4. CASE \E q \in owner : ~Behind(runs[q], c, o)
      <4>1. r \in owner /\ <<c, o>> \in rows
        BY <1>0, <2>3, <2>4, <3>4 DEF Behind
      <4>2. more = all
        BY <4>1 DEF OwnerInv, more, all
      <4> QED
        BY <3>1, <3>2, <4>1, <4>2 DEF all
    <3> QED
      BY <3>3, <3>4
  <2>5. \A q \in owner : /\ owner = {q} /\ runs'[q].full /\ runs'[q].loaded = base
                        /\ runs'[q].pc \in {"combos", "carries"}
    BY <1>0, <2>3 DEF OwnerInv
  <2> QED
    BY <2>1, <2>4, <2>5 DEF OwnerInv
<1>5. ASSUME NEW r \in Run, ClearCarries(r) PROVE OwnerInv'
  <2>1. /\ runs[r].pc = "combos" /\ runs[r].todo = {} /\ UNCHANGED <<comboStats, base, owner>>
        /\ runs' = [runs EXCEPT ![r].pc = "carries", ![r].todo = CarriesIn(runs[r].loaded)]
    BY <1>5 DEF ClearCarries, hist
  <2>2. /\ \A q \in Run : runs'[q].full = runs[q].full /\ runs'[q].loaded = runs[q].loaded
        /\ \A q \in Run : q # r => runs'[q] = runs[q]
        /\ runs'[r].pc = "carries"
    BY <1>0, <2>1 DEF RunType
  <2>3. ASSUME NEW c \in Carry, NEW o \in Combo, NEW q \in owner
        PROVE  Behind(runs'[q], c, o) => Behind(runs[q], c, o)
    BY <1>0, <2>1, <2>2 DEF Behind
  <2> QED
    BY <1>0, <2>1, <2>2, <2>3 DEF OwnerInv
<1>6. ASSUME NEW r \in Run, NEW d \in Carry, InsertCarry(r, d) PROVE OwnerInv'
  <2>1. /\ runs[r].pc = "carries" /\ UNCHANGED <<comboStats, base, owner>>
        /\ runs' = [runs EXCEPT ![r].todo = runs[r].todo \ {d}]
    BY <1>6 DEF InsertCarry, hist
  <2>2. /\ \A q \in Run : /\ runs'[q].full = runs[q].full /\ runs'[q].loaded = runs[q].loaded
                          /\ runs'[q].pc = runs[q].pc
        /\ \A q \in Run : q # r => runs'[q] = runs[q]
    BY <1>0, <2>1 DEF RunType
  <2>3. ASSUME NEW c \in Carry, NEW o \in Combo, NEW q \in owner
        PROVE  Behind(runs'[q], c, o) => Behind(runs[q], c, o)
    BY <1>0, <2>1, <2>2 DEF Behind
  <2> QED
    BY <1>0, <2>1, <2>2, <2>3 DEF OwnerInv
<1>7. ASSUME NEW r \in Run, runs' = [runs EXCEPT ![r] = Idle], UNCHANGED comboStats, owner' = owner \ {r},
             IF r \in owner THEN base' = {} \/ (base' = base /\ runs[r].pc = "carries") ELSE base' = base
      PROVE  OwnerInv'
  <2>1. \A q \in owner \ {r} : runs'[q] = runs[q]
    BY <1>0, <1>7
  <2>2. CASE r \notin owner
    BY <1>7, <2>1, <2>2 DEF OwnerInv
  <2>3. CASE r \in owner
    <3>1. owner' = {} /\ owner = {r}
      BY <1>7, <2>3 DEF OwnerInv
    <3>2. ASSUME base' = {}, NEW c \in Carry, NEW o \in Combo
          PROVE  comboStats'[c][o].picks >= ComboRow(c, o, base').picks
      <4>1. CombosIn({}) = {} /\ {} \in SUBSET Match
        BY DEF CombosIn
      <4>2. ComboRow(c, o, {}) = NoComboRow
        BY <4>1, RowFacts
      <4>3. comboStats[c][o].picks \in Nat
        BY <1>0 DEF ComboRowType
      <4> QED
        BY <1>7, <3>2, <4>2, <4>3 DEF NoComboRow
    <3>3. ASSUME base' = base, runs[r].pc = "carries", NEW c \in Carry, NEW o \in Combo
          PROVE  comboStats'[c][o].picks >= ComboRow(c, o, base').picks
      <4>1. \A q \in owner : Behind(runs[q], c, o)
        BY <3>1, <3>3 DEF Behind
      <4> QED
        BY <1>7, <3>3, <4>1 DEF OwnerInv
    <3> QED
      BY <1>7, <2>3, <3>1, <3>2, <3>3 DEF OwnerInv
  <2> QED
    BY <2>2, <2>3
<1>8. ASSUME NEW r \in Run, FullEnds(r) PROVE OwnerInv'
  BY <1>7, <1>8 DEF FullEnds, Succeeds, tables
<1>9. ASSUME NEW r \in Run, UpsertCarries(r) PROVE OwnerInv'
  <2>1. r \notin owner
    BY <1>9 DEF UpsertCarries, OwnerInv
  <2> QED
    BY <1>7, <1>9, <2>1 DEF UpsertCarries, Succeeds
<1>10. ASSUME NEW r \in Run, Fails(r) PROVE OwnerInv'
  BY <1>7, <1>10 DEF Fails, tables
<1> QED
  BY <1>1, <1>2, <1>3, <1>4, <1>5, <1>6, <1>8, <1>9, <1>10, Steps DEF Move

(* Two full runs at once may count a match twice but lose none: the rows    *)
(* that the run that cleared last has behind it, and all rows once it is    *)
(* through, count the matches it loaded (aggregate_combos.rs:157-205).      *)
THEOREM LastClearCounts == Spec => []LastClearStands
<1> DEFINE Inv == TypeParts /\ RunInv /\ OwnerInv
<1>1. Init => Inv
  <2>1. ASSUME Init PROVE RunInv
    BY <2>1 DEF Init, RunInv, RunFine, Idle
  <2>2. ASSUME Init PROVE OwnerInv
    <3>1. CombosIn({}) = {} /\ {} \in SUBSET Match
      BY DEF CombosIn
    <3>2. \A c \in Carry, o \in Combo : ComboRow(c, o, {}) = NoComboRow
      BY <3>1, RowFacts
    <3> QED
      BY <2>2, <3>2 DEF Init, OwnerInv, NoComboRows, NoComboRow
  <2> QED
    BY <2>1, <2>2, TypeInit
<1>2. Inv /\ [Next]_vars => Inv'
  BY TypeKept, RunKept, OwnerKept
<1>3. Inv => LastClearStands
  BY DEF OwnerInv, LastClearStands, Behind
<1> QED
  BY <1>1, <1>2, <1>3, PTL DEF Spec

----------------------------------------------------------------------------
(* A full run that is alone. *)

PicksOf(c, ms) == [o \in Combo |-> ComboRow(c, o, ms).picks]

CombosMade(run) ==
  \A c \in Carry, o \in Combo :
    comboStats[c][o] = IF Behind(run, c, o) THEN ComboRow(c, o, run.loaded) ELSE NoComboRow

CarryMade(row, c, ms) ==
  row.total = Total(c, ms) /\ row.three = Three(c, ms) /\ row.isTank \in TankAnswers(PicksOf(c, ms))

CarriesMade(run) ==
  \A c \in Carry : IF c \in run.todo THEN carryStats[c] = NoCarryRow
                   ELSE CarryMade(carryStats[c], c, run.loaded)

(* The rows it has behind it say what its matches say, and the others are empty. *)
MadeInv ==
  \A r \in Active : runs[r].full /\ runs[r].alone /\ runs[r].pc # "clear" =>
    CombosMade(runs[r]) /\ (runs[r].pc = "carries" => CarriesMade(runs[r]))

LEMMA AbsentCarry ==
  ASSUME NEW c \in Carry, NEW ms \in SUBSET Match, c \notin CarriesIn(ms)
  PROVE  CarryMade(NoCarryRow, c, ms)
<1>1. Total(c, ms) = 0 /\ Three(c, ms) = 0
  <2>1. UnitsIn(c, ms) = {}
    BY DEF UnitsIn, CarriesIn
  <2>2. {b \in UnitsIn(c, ms) : b.combo # NoCombo} = {}
    BY <2>1
  <2> QED
    BY <2>1, <2>2, FS_EmptySet DEF Total, Three
<1>2. \A o \in Combo : PicksOf(c, ms)[o] = 0
  <2> TAKE o \in Combo
  <2>1. ComboRow(c, o, ms).picks \in Nat /\ ComboRow(c, o, ms).picks <= Total(c, ms)
    BY RowFacts
  <2> QED
    BY <1>1, <2>1 DEF PicksOf
<1>3. FALSE \in TankAnswers(PicksOf(c, ms))
  BY <1>2, NoTank
<1> QED
  BY <1>1, <1>3 DEF CarryMade, NoCarryRow

LEMMA MadeKept == TypeParts /\ RunInv /\ AloneInv /\ MadeInv /\ [Next]_vars => MadeInv'
<1> SUFFICES ASSUME TypeParts, RunInv, AloneInv, MadeInv, [Next]_vars,
                    NEW q \in Run, runs'[q].pc # "idle", runs'[q].full, runs'[q].alone,
                    runs'[q].pc # "clear"
             PROVE  CombosMade(runs[q])' /\ (runs'[q].pc = "carries" => CarriesMade(runs[q])')
  BY DEF MadeInv, Active
<1>0. /\ runs \in [Run -> RunType(stored)] /\ runs[q].loaded \in SUBSET Match
      /\ \A c \in Carry, o \in Combo : comboStats[c][o] \in ComboRowType
  BY LoadedMatches DEF TypeParts, RunsTyped
<1>1. CASE UNCHANGED <<comboStats, carryStats, runs, counted, clean, base, owner>>
  BY <1>1 DEF MadeInv, Active, CombosMade, CarriesMade
<1>2. ASSUME NEW r \in Run, NEW full \in BOOLEAN, NEW ms, Start(r, full, ms) PROVE FALSE
  <2>1. CASE q = r
    BY <1>2, <2>1, StartDoes
  <2>2. CASE q # r
    BY <1>2, <2>2, StartDoes
  <2> QED
    BY <2>1, <2>2
<1>3. ASSUME NEW r \in Run, Move(r)
      PROVE  q = r /\ runs[q].full /\ runs[q].alone /\ q \in Active
  <2>1. q \in Active /\ runs[q].full /\ runs[q].alone
    BY <1>3, MoveDoes DEF Active, Idle
  <2>2. r \in Active
    BY <1>3, MoveDoes
  <2> QED
    BY <2>1, <2>2 DEF AloneInv
<1>4. CASE ClearCombos(q)
  <2>1. /\ runs[q].pc = "clear" /\ comboStats' = NoComboRows
        /\ runs' = [runs EXCEPT ![q].pc = "combos"]
    BY <1>4 DEF ClearCombos, Cleared
  <2>2. /\ runs'[q].pc = "combos" /\ runs'[q].loaded = runs[q].loaded
        /\ runs'[q].todo = CombosIn(runs[q].loaded)
    BY <1>0, <2>1 DEF RunInv, RunFine, RunType
  <2>3. ASSUME NEW c \in Carry, NEW o \in Combo
        PROVE  comboStats'[c][o] = IF Behind(runs'[q], c, o) THEN ComboRow(c, o, runs'[q].loaded)
                                   ELSE NoComboRow
    <3>1. comboStats'[c][o] = NoComboRow
      BY <2>1 DEF NoComboRows
    <3>2. Behind(runs'[q], c, o) => ComboRow(c, o, runs'[q].loaded) = NoComboRow
      BY <1>0, <2>2, RowFacts DEF Behind
    <3> QED
      BY <3>1, <3>2
  <2> QED
    BY <2>2, <2>3 DEF CombosMade
<1>5. CASE InsertCombos(q)
  <2>1. PICK rows :
          /\ comboStats' = [c \in Carry |-> [o \in Combo |->
               IF <<c, o>> \in rows
               THEN Added(comboStats[c][o], ComboRow(c, o, runs[q].loaded))
               ELSE comboStats[c][o]]]
          /\ runs' = [runs EXCEPT ![q].todo = runs[q].todo \ rows]
          /\ rows \in SUBSET runs[q].todo
    BY <1>5 DEF InsertCombos, kSubset
  <2>2. /\ runs[q].pc = "combos" /\ runs'[q].pc = "combos" /\ runs'[q].loaded = runs[q].loaded
        /\ runs'[q].todo = runs[q].todo \ rows
    BY <1>0, <1>5, <2>1 DEF InsertCombos, RunType
  <2>3. CombosMade(runs[q])
    BY <1>3, <1>5, <2>2 DEF MadeInv, Move
  <2>4. ASSUME NEW c \in Carry, NEW o \in Combo
        PROVE  comboStats'[c][o] = IF Behind(runs'[q], c, o) THEN ComboRow(c, o, runs'[q].loaded)
                                   ELSE NoComboRow
    <3> DEFINE row == ComboRow(c, o, runs[q].loaded)
    <3>1. row \in [picks : Nat, sum : Nat]
      BY <1>0, RowFacts
    <3>2. comboStats[c][o] = IF Behind(runs[q], c, o) THEN row ELSE NoComboRow
      BY <2>3 DEF CombosMade
    <3>3. comboStats'[c][o] = IF <<c, o>> \in rows THEN Added(comboStats[c][o], row) ELSE comboStats[c][o]
      BY <2>1
    <3>4. ComboRow(c, o, runs'[q].loaded) = row
      BY <2>2
    <3> HIDE DEF row
    <3>5. Added(NoComboRow, row) = row
      BY <3>1 DEF Added, NoComboRow
    <3>6. CASE <<c, o>> \in rows
      <4>1. ~Behind(runs[q], c, o) /\ Behind(runs'[q], c, o)
        BY <2>1, <2>2, <3>6 DEF Behind
      <4> QED
        BY <3>2, <3>3, <3>4, <3>5, <3>6, <4>1
    <3>7. CASE <<c, o>> \notin rows
      <4>1. Behind(runs[q], c, o) <=> Behind(runs'[q], c, o)
        BY <2>1, <2>2, <3>7 DEF Behind
      <4> QED
        BY <3>2, <3>3, <3>4, <3>7, <4>1
    <3> QED
      BY <3>6, <3>7
  <2> QED
    BY <2>2, <2>4 DEF CombosMade
<1>6. CASE ClearCarries(q)
  <2>1. /\ runs[q].pc = "combos" /\ runs[q].todo = {} /\ comboStats' = comboStats
        /\ carryStats' = NoCarryRows
        /\ runs' = [runs EXCEPT ![q].pc = "carries", ![q].todo = CarriesIn(runs[q].loaded)]
    BY <1>6 DEF ClearCarries, Cleared
  <2>2. /\ runs'[q].pc = "carries" /\ runs'[q].loaded = runs[q].loaded
        /\ runs'[q].todo = CarriesIn(runs[q].loaded)
    BY <1>0, <2>1 DEF RunType
  <2>3. CombosMade(runs[q])
    BY <1>3, <1>6, <2>1 DEF MadeInv, Move
  <2>4. CombosMade(runs[q])'
    BY <2>1, <2>2, <2>3 DEF CombosMade, Behind
  <2>5. ASSUME NEW c \in Carry
        PROVE  IF c \in runs'[q].todo THEN carryStats'[c] = NoCarryRow
               ELSE CarryMade(carryStats'[c], c, runs'[q].loaded)
    <3>1. carryStats'[c] = NoCarryRow
      BY <2>1 DEF NoCarryRows
    <3> QED
      BY <1>0, <2>2, <3>1, AbsentCarry
  <2> QED
    BY <2>4, <2>5 DEF CarriesMade
<1>7. ASSUME NEW d \in Carry, InsertCarry(q, d)
      PROVE  CombosMade(runs[q])' /\ CarriesMade(runs[q])'
  <2> DEFINE ms == runs[q].loaded
  <2>1. /\ runs[q].pc = "carries" /\ comboStats' = comboStats
        /\ runs' = [runs EXCEPT ![q].todo = runs[q].todo \ {d}]
    BY <1>7 DEF InsertCarry
  <2>2. PICK tank \in TankAnswers([o \in Combo |-> ComboRow(d, o, ms).picks]) :
          carryStats' = [carryStats EXCEPT ![d] =
            [total |-> Total(d, ms), three |-> Three(d, ms),
             isCarry |-> Three(d, ms) * 100 >= Total(d, ms) * CarryPercent, isTank |-> tank]]
    BY <1>7 DEF InsertCarry
  <2>3. /\ runs'[q].pc = "carries" /\ runs'[q].loaded = ms /\ runs'[q].todo = runs[q].todo \ {d}
    BY <1>0, <2>1 DEF RunType
  <2>4. CombosMade(runs[q]) /\ CarriesMade(runs[q])
    BY <1>3, <1>7, <2>1 DEF MadeInv, Move
  <2>5. CombosMade(runs[q])'
    BY <2>1, <2>3, <2>4 DEF CombosMade, Behind
  <2>6. CarryMade(carryStats'[d], d, ms)
    <3>1. carryStats'[d] = [total |-> Total(d, ms), three |-> Three(d, ms),
             isCarry |-> Three(d, ms) * 100 >= Total(d, ms) * CarryPercent, isTank |-> tank]
      BY <2>2 DEF TypeParts
    <3>2. tank \in TankAnswers(PicksOf(d, ms))
      BY DEF PicksOf
    <3> QED
      BY <3>1, <3>2 DEF CarryMade
  <2>7. \A c \in Carry : c # d => carryStats'[c] = carryStats[c]
    BY <2>2 DEF TypeParts
  <2>8. CarriesMade(runs[q])'
    BY <2>3, <2>4, <2>6, <2>7 DEF CarriesMade
  <2> QED
    BY <2>5, <2>8
<1>8. CASE FullEnds(q) \/ UpsertCarries(q) \/ Fails(q)
  <2>1. runs'[q] = Idle
    BY <1>0, <1>8 DEF FullEnds, UpsertCarries, Fails, Succeeds
  <2> QED
    BY <2>1 DEF Idle
<1>9. CASE \E r \in Run : Move(r)
  <2>1. Move(q)
    BY <1>3, <1>9
  <2> QED
    BY <1>4, <1>5, <1>6, <1>7, <1>8, <2>1 DEF Move
<1> QED
  BY <1>1, <1>2, <1>9, Steps

----------------------------------------------------------------------------
(* What incremental runs under way have added before they are counted. *)

Share(run, w, c, o) ==
  IF run.pc = "combos" /\ ~run.full /\ <<c, o>> \notin run.todo THEN w[run.loaded] ELSE 0

UnderWay(rs, w, c, o) == SumFunctionOnSet([r \in Run |-> Share(rs[r], w, c, o)], Run)

LEMMA ShareType ==
  ASSUME NEW run, run.loaded \in SUBSET Match, NEW w, Additive(w), NEW c, NEW o
  PROVE  Share(run, w, c, o) \in Nat
BY DEF Share, Additive

LEMMA UnderWaySame ==
  ASSUME NEW rs, NEW qs, NEW w, NEW c, NEW o,
         \A r \in Run : Share(rs[r], w, c, o) = Share(qs[r], w, c, o)
  PROVE  UnderWay(rs, w, c, o) = UnderWay(qs, w, c, o)
<1>1. [r \in Run |-> Share(rs[r], w, c, o)] = [r \in Run |-> Share(qs[r], w, c, o)]
  OBVIOUS
<1> QED
  BY <1>1 DEF UnderWay

LEMMA UnderWayNone ==
  ASSUME NEW rs, NEW w, NEW c, NEW o, \A r \in Run : Share(rs[r], w, c, o) = 0
  PROVE  UnderWay(rs, w, c, o) = 0
<1> DEFINE f == [r \in Run |-> Share(rs[r], w, c, o)]
<1>1. \A r \in Run : f[r] = 0
  OBVIOUS
<1> HIDE DEF f
<1>2. SumFunctionOnSet(f, Run) = 0
  BY <1>1, SumZero, BoardAssumption
<1> QED
  BY <1>2 DEF UnderWay, f

LEMMA UnderWayType ==
  ASSUME NEW rs, \A r \in Run : rs[r].loaded \in SUBSET Match, NEW w, Additive(w), NEW c, NEW o
  PROVE  UnderWay(rs, w, c, o) \in Nat
<1> DEFINE f == [r \in Run |-> Share(rs[r], w, c, o)]
<1>1. \A r \in Run : f[r] \in Nat
  BY ShareType
<1> HIDE DEF f
<1>2. SumFunctionOnSet(f, Run) \in Nat
  BY <1>1, SumType, BoardAssumption
<1> QED
  BY <1>2 DEF UnderWay, f

LEMMA UnderWayChanges ==
  ASSUME NEW rs, NEW qs, NEW r \in Run, NEW w, Additive(w), NEW c, NEW o,
         \A q \in Run : rs[q].loaded \in SUBSET Match /\ qs[q].loaded \in SUBSET Match,
         \A q \in Run : q # r => qs[q] = rs[q]
  PROVE  UnderWay(qs, w, c, o) + Share(rs[r], w, c, o) = UnderWay(rs, w, c, o) + Share(qs[r], w, c, o)
<1> DEFINE f == [q \in Run |-> Share(rs[q], w, c, o)]
           g == [q \in Run |-> Share(qs[q], w, c, o)]
<1>1. \A q \in Run : f[q] \in Nat /\ g[q] \in Nat
  BY ShareType
<1>2. \A q \in Run : q # r => g[q] = f[q]
  OBVIOUS
<1>3. f[r] = Share(rs[r], w, c, o) /\ g[r] = Share(qs[r], w, c, o)
  OBVIOUS
<1> HIDE DEF f, g
<1>4. SumFunctionOnSet(g, Run) + f[r] = SumFunctionOnSet(f, Run) + g[r]
  BY <1>1, <1>2, SumUpdate, BoardAssumption
<1> QED
  BY <1>3, <1>4 DEF UnderWay, f, g

(* A row counts the matches the runs have counted, and those the runs under *)
(* way have added to it.                                                    *)
RowKnown(row, rs, cnt, c, o) ==
  /\ row.picks = Times(cnt, PicksIn(c, o)) + UnderWay(rs, PicksIn(c, o), c, o)
  /\ row.sum = Times(cnt, PlacesIn(c, o)) + UnderWay(rs, PlacesIn(c, o), c, o)

CarryKnown(row, cnt, c) ==
  row.total = Times(cnt, TotalIn(c)) /\ row.three = Times(cnt, ThreeIn(c))

TankKnown(row, rows) == row.isTank \in TankAnswers([o \in Combo |-> rows[o].picks])

Untouched == \A r \in Active : runs[r].full => runs[r].pc = "clear"
Fresh == \A r \in Active : runs[r].todo = CombosIn(runs[r].loaded)

KnownInv ==
  clean /\ Untouched =>
    \A c \in Carry :
      /\ \A o \in Combo : RowKnown(comboStats[c][o], runs, counted, c, o)
      /\ CarryKnown(carryStats[c], counted, c)
      /\ Fresh => TankKnown(carryStats[c], comboStats[c])

LEMMA LoadedHas ==
  ASSUME NEW c \in Carry, NEW o \in Combo, NEW ms \in SUBSET Match
  PROVE  /\ PicksIn(c, o)[ms] = ComboRow(c, o, ms).picks
         /\ PlacesIn(c, o)[ms] = ComboRow(c, o, ms).sum
         /\ TotalIn(c)[ms] = Total(c, ms) /\ ThreeIn(c)[ms] = Three(c, ms)
BY DEF PicksIn, PlacesIn, TotalIn, ThreeIn

(* A run whose combinations are all to do has added nothing. *)
LEMMA FreshShare ==
  ASSUME NEW run, run.loaded \in SUBSET Match, run.todo = CombosIn(run.loaded),
         NEW c \in Carry, NEW o \in Combo
  PROVE  Share(run, PicksIn(c, o), c, o) = 0 /\ Share(run, PlacesIn(c, o), c, o) = 0
<1>1. <<c, o>> \notin run.todo => PicksIn(c, o)[run.loaded] = 0 /\ PlacesIn(c, o)[run.loaded] = 0
  BY LoadedHas, RowFacts DEF NoComboRow
<1> QED
  BY <1>1 DEF Share

LEMMA ShareOutside ==
  ASSUME NEW run, run.pc # "combos" \/ run.full, NEW w, NEW c, NEW o
  PROVE  Share(run, w, c, o) = 0
BY DEF Share

(* A row stays known when no run's share of it changes. *)
LEMMA RowKnownSame ==
  ASSUME NEW row, NEW rs, NEW qs, NEW cnt, NEW c \in Carry, NEW o \in Combo, RowKnown(row, rs, cnt, c, o),
         \A w \in {PicksIn(c, o), PlacesIn(c, o)}, r \in Run : Share(rs[r], w, c, o) = Share(qs[r], w, c, o)
  PROVE  RowKnown(row, qs, cnt, c, o)
<1>1. \A w \in {PicksIn(c, o), PlacesIn(c, o)} : UnderWay(rs, w, c, o) = UnderWay(qs, w, c, o)
  BY UnderWaySame
<1> QED
  BY <1>1 DEF RowKnown

LEMMA KnownKept ==
  TypeParts /\ TypeParts' /\ RunInv /\ AloneInv /\ MadeInv /\ KnownInv /\ [Next]_vars => KnownInv'
<1> SUFFICES ASSUME TypeParts, TypeParts', RunInv, AloneInv, MadeInv, KnownInv, [Next]_vars,
                    clean', Untouched', NEW c \in Carry
             PROVE  /\ \A o \in Combo : RowKnown(comboStats'[c][o], runs', counted', c, o)
                    /\ CarryKnown(carryStats'[c], counted', c)
                    /\ Fresh' => TankKnown(carryStats'[c], comboStats'[c])
  BY DEF KnownInv
<1> DEFINE Goal == /\ \A o \in Combo : RowKnown(comboStats'[c][o], runs', counted', c, o)
                   /\ CarryKnown(carryStats'[c], counted', c)
                   /\ Fresh' => TankKnown(carryStats'[c], comboStats'[c])
<1>a. /\ runs \in [Run -> RunType(stored)] /\ counted \in [Match -> Nat]
      /\ counted' \in [Match -> Nat]
      /\ \A r \in Run : runs[r].loaded \in SUBSET Match /\ runs'[r].loaded \in SUBSET Match
  <2>1. \A r \in Run : runs[r].loaded \in SUBSET Match
    BY LoadedMatches DEF TypeParts
  <2>2. \A r \in Run : runs'[r].loaded \in SUBSET Match
    <3>1. stored' \in Nat /\ LastMatch \in Nat /\ stored' <= LastMatch
      BY BoardAssumption DEF TypeParts
    <3>2. 1 .. stored' \subseteq Match
      BY <3>1 DEF Match
    <3> QED
      BY <3>2 DEF TypeParts, RunsTyped, RunType
  <2> QED
    BY <2>1, <2>2 DEF TypeParts, RunsTyped
<1>b. ASSUME clean, Untouched
      PROVE  /\ \A o \in Combo : RowKnown(comboStats[c][o], runs, counted, c, o)
             /\ CarryKnown(carryStats[c], counted, c)
             /\ Fresh => TankKnown(carryStats[c], comboStats[c])
  BY <1>b DEF KnownInv
(* Where only runs change, and none that has added anything. *)
<1>c. ASSUME UNCHANGED <<comboStats, carryStats, counted>>, clean, Untouched, Fresh' => Fresh,
             \A o \in Combo : \A w \in {PicksIn(c, o), PlacesIn(c, o)}, r \in Run :
               Share(runs[r], w, c, o) = Share(runs'[r], w, c, o)
      PROVE  Goal
  <2>1. \A o \in Combo : RowKnown(comboStats[c][o], runs', counted, c, o)
    BY <1>b, <1>c, RowKnownSame
  <2> QED
    BY <1>b, <1>c, <2>1
<1>1. ASSUME UNCHANGED <<comboStats, carryStats, runs, counted, clean, base, owner>>
      PROVE  Goal
  <2>1. clean /\ Untouched /\ (Fresh' => Fresh)
    BY <1>1 DEF Untouched, Fresh, Active
  <2> QED
    BY <1>1, <1>c, <2>1
<1>2. ASSUME NEW r \in Run, NEW full \in BOOLEAN, NEW ms, Start(r, full, ms) PROVE Goal
  <2>1. /\ clean /\ UNCHANGED <<comboStats, carryStats, counted>>
        /\ runs[r].pc = "idle" /\ Active' = Active \cup {r} /\ r \notin Active
        /\ runs'[r].loaded = ms /\ runs'[r].todo = CombosIn(ms)
        /\ \A q \in Run : q # r =>
              /\ runs'[q].pc = runs[q].pc /\ runs'[q].full = runs[q].full
              /\ runs'[q].loaded = runs[q].loaded /\ runs'[q].todo = runs[q].todo
    <3>1. clean' = clean
      BY <1>2, StartDoes
    <3>2. clean
      BY <3>1
    <3> QED
      BY <1>2, <3>2, StartDoes
  <2>2. Untouched /\ (Fresh' => Fresh)
    <3>1. \A q \in Active : q # r /\ q \in Active' /\ q \in Run
      BY <2>1 DEF Active
    <3> QED
      BY <2>1, <3>1 DEF Untouched, Fresh
  <2>3. ASSUME NEW o \in Combo, NEW w \in {PicksIn(c, o), PlacesIn(c, o)}, NEW q \in Run
        PROVE  Share(runs[q], w, c, o) = Share(runs'[q], w, c, o)
    <3>1. CASE q # r
      BY <2>1, <3>1 DEF Share
    <3>2. CASE q = r
      <4>1. Share(runs[r], w, c, o) = 0
        BY <2>1, ShareOutside
      <4>2. Share(runs'[r], w, c, o) = 0
        BY <1>a, <2>1, FreshShare
      <4> QED
        BY <3>2, <4>1, <4>2
    <3> QED
      BY <3>1, <3>2
  <2> QED
    BY <1>c, <2>1, <2>2, <2>3
<1>3. ASSUME NEW r \in Run, runs'[r].full, runs'[r].pc \in {"combos", "carries"} PROVE FALSE
  BY <1>3 DEF Untouched, Active
<1>4. ASSUME NEW r \in Run, ClearCombos(r) PROVE FALSE
  <2>1. runs[r].full /\ runs' = [runs EXCEPT ![r].pc = "combos"]
    BY <1>4 DEF ClearCombos, RunInv, RunFine
  <2>2. runs'[r].full /\ runs'[r].pc = "combos"
    BY <1>a, <2>1 DEF RunType
  <2> QED
    BY <1>3, <2>2
<1>5. ASSUME NEW r \in Run, ClearCarries(r) PROVE FALSE
  <2>1. runs[r].full /\ runs' = [runs EXCEPT ![r].pc = "carries", ![r].todo = CarriesIn(runs[r].loaded)]
    BY <1>5 DEF ClearCarries
  <2>2. runs'[r].full /\ runs'[r].pc = "carries"
    BY <1>a, <2>1 DEF RunType
  <2> QED
    BY <1>3, <2>2
<1>6. ASSUME NEW r \in Run, NEW d \in Carry, InsertCarry(r, d) PROVE FALSE
  <2>1. runs[r].full /\ runs[r].pc = "carries" /\ runs' = [runs EXCEPT ![r].todo = runs[r].todo \ {d}]
    BY <1>6 DEF InsertCarry, RunInv, RunFine
  <2>2. runs'[r].full /\ runs'[r].pc = "carries"
    BY <1>a, <2>1 DEF RunType
  <2> QED
    BY <1>3, <2>2
<1>7. ASSUME NEW r \in Run, InsertCombos(r) PROVE Goal
  <2>1. PICK rows \in kSubset(Min({Batch, Cardinality(runs[r].todo)}), runs[r].todo) :
          /\ comboStats' = [d \in Carry |-> [o \in Combo |->
               IF <<d, o>> \in rows
               THEN Added(comboStats[d][o], ComboRow(d, o, runs[r].loaded))
               ELSE comboStats[d][o]]]
          /\ runs' = [runs EXCEPT ![r].todo = runs[r].todo \ rows]
    BY <1>7 DEF InsertCombos
  <2>2. /\ runs[r].pc = "combos" /\ runs[r].todo # {} /\ clean
        /\ UNCHANGED <<carryStats, counted>>
        /\ runs[r].todo \in SUBSET (Carry \X Combo)
    <3>1. TodoIn(runs[r])
      BY DEF TypeParts, RunsTyped
    <3> QED
      BY <1>7, <3>1 DEF InsertCombos, hist, TodoIn
  <2>3. rows \in SUBSET runs[r].todo /\ rows # {}
    BY <2>1, <2>2, BatchSome
  <2>4. /\ runs'[r].pc = "combos" /\ runs'[r].full = runs[r].full /\ runs'[r].loaded = runs[r].loaded
        /\ runs'[r].todo = runs[r].todo \ rows
        /\ \A q \in Run : q # r => runs'[q] = runs[q]
    BY <1>a, <2>1, <2>2 DEF RunType
  <2>5. ~runs[r].full
    BY <1>3, <2>4
  <2>6. Untouched
    BY <2>4, <2>5 DEF Untouched, Active
  <2>7. ~Fresh'
    <3>1. runs[r].todo \subseteq CombosIn(runs[r].loaded)
      BY <2>2 DEF RunInv, RunFine
    <3>2. runs'[r].todo # CombosIn(runs'[r].loaded)
      BY <2>3, <2>4, <3>1
    <3> QED
      BY <2>4, <3>2 DEF Fresh, Active
  <2>8. ASSUME NEW o \in Combo, NEW w, Additive(w)
        PROVE  UnderWay(runs', w, c, o) =
                 UnderWay(runs, w, c, o) + (IF <<c, o>> \in rows THEN w[runs[r].loaded] ELSE 0)
    <3>1. UnderWay(runs', w, c, o) + Share(runs[r], w, c, o)
            = UnderWay(runs, w, c, o) + Share(runs'[r], w, c, o)
      BY <1>a, <2>4, <2>8, UnderWayChanges
    <3>2. UnderWay(runs', w, c, o) \in Nat /\ UnderWay(runs, w, c, o) \in Nat
      BY <1>a, <2>8, UnderWayType
    <3>3. CASE <<c, o>> \in rows
      <4>1. Share(runs[r], w, c, o) = 0 /\ Share(runs'[r], w, c, o) = w[runs[r].loaded]
        BY <2>2, <2>3, <2>4, <2>5, <3>3 DEF Share
      <4>2. w[runs[r].loaded] \in Nat
        BY <1>a, <2>8 DEF Additive
      <4> QED
        BY <3>1, <3>2, <3>3, <4>1, <4>2
    <3>4. CASE <<c, o>> \notin rows
      <4>1. Share(runs[r], w, c, o) = Share(runs'[r], w, c, o) /\ Share(runs[r], w, c, o) \in Nat
        BY <1>a, <2>2, <2>3, <2>4, <2>5, <2>8, <3>4, ShareType DEF Share
      <4> QED
        BY <3>1, <3>2, <3>4, <4>1
    <3> QED
      BY <3>3, <3>4
  <2>9. ASSUME NEW o \in Combo PROVE RowKnown(comboStats'[c][o], runs', counted, c, o)
    <3> DEFINE row == ComboRow(c, o, runs[r].loaded)
               old == comboStats[c][o]
               p == PicksIn(c, o)
               l == PlacesIn(c, o)
    <3>1. Additive(p) /\ Additive(l) /\ p[runs[r].loaded] = row.picks /\ l[runs[r].loaded] = row.sum
      BY <1>a, RowsAdd, LoadedHas
    <3>2. old.picks = Times(counted, p) + UnderWay(runs, p, c, o)
          /\ old.sum = Times(counted, l) + UnderWay(runs, l, c, o)
      BY <1>b, <2>2, <2>6 DEF RowKnown
    <3>3. comboStats'[c][o] = IF <<c, o>> \in rows THEN Added(old, row) ELSE old
      BY <2>1
    <3>4. /\ UnderWay(runs, p, c, o) \in Nat /\ UnderWay(runs, l, c, o) \in Nat
          /\ Times(counted, p) \in Nat /\ Times(counted, l) \in Nat
          /\ row.picks \in Nat /\ row.sum \in Nat
      BY <1>a, <3>1, UnderWayType, TimesType, RowFacts
    <3>5. /\ UnderWay(runs', p, c, o) = UnderWay(runs, p, c, o) + (IF <<c, o>> \in rows THEN row.picks ELSE 0)
          /\ UnderWay(runs', l, c, o) = UnderWay(runs, l, c, o) + (IF <<c, o>> \in rows THEN row.sum ELSE 0)
      BY <2>8, <3>1
    <3> HIDE DEF row, old, p, l
    <3>6. /\ comboStats'[c][o].picks = old.picks + (IF <<c, o>> \in rows THEN row.picks ELSE 0)
          /\ comboStats'[c][o].sum = old.sum + (IF <<c, o>> \in rows THEN row.sum ELSE 0)
      <4>1. old.picks \in Nat /\ old.sum \in Nat
        BY <3>2, <3>4
      <4> QED
        BY <3>3, <4>1 DEF Added
    <3>7. /\ comboStats'[c][o].picks = Times(counted, p) + UnderWay(runs', p, c, o)
          /\ comboStats'[c][o].sum = Times(counted, l) + UnderWay(runs', l, c, o)
      BY <3>2, <3>4, <3>5, <3>6
    <3> QED
      BY <3>7 DEF RowKnown, p, l
  <2> QED
    BY <1>b, <2>2, <2>6, <2>7, <2>9
<1>8. ASSUME NEW r \in Run, FullEnds(r) PROVE Goal
  <2> DEFINE ms == runs[r].loaded
  <2>1. /\ runs[r].pc = "carries" /\ runs[r].todo = {} /\ runs[r].full /\ runs[r].alone
        /\ UNCHANGED <<comboStats, carryStats>> /\ runs' = [runs EXCEPT ![r] = Idle]
        /\ counted' = [m \in Match |-> 0 + (IF m \in ms THEN 1 ELSE 0)]
    BY <1>8 DEF FullEnds, Succeeds, RunInv, RunFine, tables
  <2>2. CombosMade(runs[r]) /\ CarriesMade(runs[r]) /\ r \in Active
    BY <2>1 DEF MadeInv, Active
  <2>3. \A q \in Run : runs'[q].pc = "idle"
    <3>1. \A q \in Active : q = r
      BY <2>1, <2>2 DEF AloneInv
    <3> QED
      BY <1>a, <2>1, <3>1 DEF Active, Idle
  <2>4. ASSUME NEW w, Additive(w) PROVE Times(counted', w) = w[ms]
    <3> DEFINE zero == [m \in Match |-> 0]
    <3>1. zero \in [Match -> Nat] /\ \A m \in Match : zero[m] = 0
      OBVIOUS
    <3>2. OnceMore(counted', zero, ms)
      BY <2>1 DEF OnceMore
    <3>3. ms \in SUBSET Match
      BY <1>a
    <3> HIDE DEF zero, ms
    <3>4. Times(counted', w) = Times(zero, w) + w[ms]
      BY <2>4, <3>1, <3>2, <3>3, TimesAdd
    <3>5. Times(zero, w) = 0 /\ w[ms] \in Nat
      BY <2>4, <3>1, <3>3, TimesZero DEF Additive
    <3> QED
      BY <3>4, <3>5
  <2>5. \A o \in Combo : comboStats[c][o] = ComboRow(c, o, ms)
    BY <2>1, <2>2 DEF CombosMade, Behind
  <2>6. ASSUME NEW o \in Combo PROVE RowKnown(comboStats[c][o], runs', counted', c, o)
    <3>1. UnderWay(runs', PicksIn(c, o), c, o) = 0 /\ UnderWay(runs', PlacesIn(c, o), c, o) = 0
      BY <2>3, ShareOutside, UnderWayNone
    <3>2. Times(counted', PicksIn(c, o)) = ComboRow(c, o, ms).picks
          /\ Times(counted', PlacesIn(c, o)) = ComboRow(c, o, ms).sum
      BY <1>a, <2>4, RowsAdd, LoadedHas
    <3>3. ComboRow(c, o, ms) \in [picks : Nat, sum : Nat]
      BY <1>a, RowFacts
    <3> HIDE DEF ms
    <3> QED
      BY <2>5, <3>1, <3>2, <3>3 DEF RowKnown
  <2>7. CarryMade(carryStats[c], c, ms)
    BY <2>1, <2>2 DEF CarriesMade
  <2>8. CarryKnown(carryStats[c], counted', c)
    <3>1. Times(counted', TotalIn(c)) = Total(c, ms) /\ Times(counted', ThreeIn(c)) = Three(c, ms)
      <4>1. Additive(TotalIn(c)) /\ Additive(ThreeIn(c))
        BY UnitsAdd
      <4>2. TotalIn(c)[ms] = Total(c, ms) /\ ThreeIn(c)[ms] = Three(c, ms)
        BY <1>a DEF TotalIn, ThreeIn
      <4> QED
        BY <2>4, <4>1, <4>2
    <3> QED
      BY <2>7, <3>1 DEF CarryKnown, CarryMade
  <2>9. TankKnown(carryStats[c], comboStats[c])
    <3>1. [o \in Combo |-> comboStats[c][o].picks] = PicksOf(c, ms)
      BY <2>5 DEF PicksOf
    <3> QED
      BY <2>7, <3>1 DEF TankKnown, CarryMade
  <2> QED
    BY <2>1, <2>6, <2>8, <2>9
<1>9. ASSUME NEW r \in Run, UpsertCarries(r) PROVE Goal
  <2> DEFINE ms == runs[r].loaded
  <2>1. /\ ~runs[r].full /\ runs[r].pc = "combos" /\ runs[r].todo = {} /\ clean
        /\ comboStats' = comboStats /\ runs' = [runs EXCEPT ![r] = Idle]
        /\ counted' = [m \in Match |-> counted[m] + (IF m \in ms THEN 1 ELSE 0)]
    BY <1>9 DEF UpsertCarries, Succeeds
  <2>2. runs'[r] = Idle /\ \A q \in Run : q # r => runs'[q] = runs[q]
    BY <1>a, <2>1
  <2>3. Untouched
    BY <2>1, <2>2 DEF Untouched, Active
  <2>4. ASSUME NEW w, Additive(w) PROVE Times(counted', w) = Times(counted, w) + w[ms]
    <3>1. ms \in SUBSET Match /\ OnceMore(counted', counted, ms)
      BY <1>a, <2>1 DEF OnceMore
    <3> HIDE DEF ms
    <3> QED
      BY <1>a, <2>4, <3>1, TimesAdd
  <2>5. ASSUME NEW o \in Combo, NEW w, Additive(w)
        PROVE  /\ UnderWay(runs, w, c, o) = UnderWay(runs', w, c, o) + w[ms]
               /\ UnderWay(runs', w, c, o) \in Nat /\ w[ms] \in Nat
    <3>1. UnderWay(runs', w, c, o) + Share(runs[r], w, c, o)
            = UnderWay(runs, w, c, o) + Share(runs'[r], w, c, o)
      BY <1>a, <2>2, <2>5, UnderWayChanges
    <3>2. Share(runs[r], w, c, o) = w[ms] /\ Share(runs'[r], w, c, o) = 0
      BY <2>1, <2>2 DEF Share, Idle
    <3>3. UnderWay(runs', w, c, o) \in Nat /\ UnderWay(runs, w, c, o) \in Nat
      BY <1>a, <2>5, UnderWayType
    <3>4. w[ms] \in Nat
      BY <1>a, <2>5 DEF Additive
    <3> HIDE DEF ms
    <3> QED
      BY <3>1, <3>2, <3>3, <3>4
  <2>6. ASSUME NEW o \in Combo PROVE RowKnown(comboStats[c][o], runs', counted', c, o)
    <3> DEFINE p == PicksIn(c, o)
               l == PlacesIn(c, o)
    <3>1. Additive(p) /\ Additive(l)
      BY RowsAdd
    <3>2. /\ comboStats[c][o].picks = Times(counted, p) + UnderWay(runs, p, c, o)
          /\ comboStats[c][o].sum = Times(counted, l) + UnderWay(runs, l, c, o)
      BY <1>b, <2>1, <2>3 DEF RowKnown
    <3>3. Times(counted, p) \in Nat /\ Times(counted, l) \in Nat
      BY <1>a, <3>1, TimesType
    <3> HIDE DEF p, l, ms
    <3>4. /\ Times(counted', p) = Times(counted, p) + p[ms] /\ Times(counted', l) = Times(counted, l) + l[ms]
          /\ UnderWay(runs, p, c, o) = UnderWay(runs', p, c, o) + p[ms]
          /\ UnderWay(runs, l, c, o) = UnderWay(runs', l, c, o) + l[ms]
          /\ UnderWay(runs', p, c, o) \in Nat /\ p[ms] \in Nat
          /\ UnderWay(runs', l, c, o) \in Nat /\ l[ms] \in Nat
      BY <2>4, <2>5, <3>1
    <3>5. /\ comboStats[c][o].picks = Times(counted', p) + UnderWay(runs', p, c, o)
          /\ comboStats[c][o].sum = Times(counted', l) + UnderWay(runs', l, c, o)
      BY <3>2, <3>3, <3>4
    <3> QED
      BY <3>5 DEF RowKnown, p, l
  <2>7. CarryKnown(carryStats'[c], counted', c)
    <3>1. /\ carryStats'[c].total = carryStats[c].total + Total(c, ms)
          /\ carryStats'[c].three = carryStats[c].three + Three(c, ms)
      BY <1>9, Upserted
    <3>2. /\ carryStats[c].total = Times(counted, TotalIn(c))
          /\ carryStats[c].three = Times(counted, ThreeIn(c))
      BY <1>b, <2>1, <2>3 DEF CarryKnown
    <3>3. TotalIn(c)[ms] = Total(c, ms) /\ ThreeIn(c)[ms] = Three(c, ms)
      BY <1>a DEF TotalIn, ThreeIn
    <3>4. /\ Times(counted', TotalIn(c)) = Times(counted, TotalIn(c)) + TotalIn(c)[ms]
          /\ Times(counted', ThreeIn(c)) = Times(counted, ThreeIn(c)) + ThreeIn(c)[ms]
      BY <2>4, UnitsAdd
    <3> QED
      BY <3>1, <3>2, <3>3, <3>4 DEF CarryKnown
  <2>8. ASSUME Fresh' PROVE TankKnown(carryStats'[c], comboStats[c])
    <3>1. CASE carryStats'[c].total # 0
      BY <1>9, <3>1, Upserted DEF TankKnown
    <3>2. CASE carryStats'[c].total = 0
      <4>1. carryStats'[c].isTank = FALSE
        BY <1>9, <3>2, Upserted
      <4>2. ASSUME NEW o \in Combo PROVE comboStats[c][o].picks = 0
        <5>1. Times(counted', PicksIn(c, o)) = 0
          BY <1>a, <2>7, <3>2, NoUnitNoCombo DEF CarryKnown
        <5>2. \A q \in Run : Share(runs'[q], PicksIn(c, o), c, o) = 0
          <6> TAKE q \in Run
          <6>1. CASE runs'[q].pc = "idle"
            BY <6>1, ShareOutside
          <6>2. CASE runs'[q].pc # "idle"
            <7>1. runs'[q].todo = CombosIn(runs'[q].loaded)
              BY <2>8, <6>2 DEF Fresh, Active
            <7> QED
              BY <1>a, <7>1, FreshShare
          <6> QED
            BY <6>1, <6>2
        <5>3. UnderWay(runs', PicksIn(c, o), c, o) = 0
          BY <5>2, UnderWayNone
        <5> QED
          BY <2>6, <5>1, <5>3 DEF RowKnown
      <4> DEFINE picks == [o \in Combo |-> comboStats[c][o].picks]
      <4>3. \A o \in Combo : picks[o] = 0
        BY <4>2
      <4> HIDE DEF picks
      <4>4. TankAnswers(picks) = {FALSE}
        BY <4>3, NoTank
      <4> QED
        BY <4>1, <4>4 DEF TankKnown, picks
    <3> QED
      BY <3>1, <3>2
  <2> QED
    BY <2>1, <2>6, <2>7, <2>8
<1>10. ASSUME NEW r \in Run, Fails(r) PROVE Goal
  <2>1. /\ runs[r].pc # "idle" /\ clean /\ UNCHANGED <<comboStats, carryStats, counted>>
        /\ runs' = [runs EXCEPT ![r] = Idle]
        /\ \/ runs[r].pc = "clear"
           \/ ~runs[r].full /\ runs[r].todo = CombosIn(runs[r].loaded)
    BY <1>10 DEF Fails, tables
  <2>2. runs[r].todo = CombosIn(runs[r].loaded)
    BY <2>1 DEF RunInv, RunFine
  <2>3. runs'[r] = Idle /\ \A q \in Run : q # r => runs'[q] = runs[q]
    BY <1>a, <2>1
  <2>4. Untouched
    BY <2>1, <2>3 DEF Untouched, Active
  <2>5. Fresh' => Fresh
    BY <2>2, <2>3 DEF Fresh, Active
  <2>6. ASSUME NEW o \in Combo, NEW w \in {PicksIn(c, o), PlacesIn(c, o)}, NEW q \in Run
        PROVE  Share(runs[q], w, c, o) = Share(runs'[q], w, c, o)
    <3>1. CASE q # r
      BY <2>3, <3>1
    <3>2. CASE q = r
      <4>1. Share(runs[r], w, c, o) = 0
        BY <1>a, <2>2, FreshShare
      <4>2. Share(runs'[r], w, c, o) = 0
        BY <2>3 DEF Share, Idle
      <4> QED
        BY <3>2, <4>1, <4>2
    <3> QED
      BY <3>1, <3>2
  <2> QED
    BY <1>c, <2>1, <2>4, <2>5, <2>6
<1> HIDE DEF Goal
<1>11. ASSUME NEW r \in Run, Move(r) PROVE Goal
  BY <1>4, <1>5, <1>6, <1>7, <1>8, <1>9, <1>10, <1>11 DEF Move
<1>12. ASSUME NEW r \in Run, NEW full \in BOOLEAN, NEW ms \in SUBSET (1 .. stored), Start(r, full, ms)
       PROVE  Goal
  BY <1>2, <1>12
<1>13. Goal
  BY <1>1, <1>11, <1>12, Steps
<1> QED
  BY <1>13 DEF Goal

(* Full and incremental aggregation amount to the same: whenever no run is  *)
(* under way and none since the last full run that was alone was cut short  *)
(* or met a full one, every row of both tables counts every match as often  *)
(* as runs have counted it, whatever the order of the runs and their        *)
(* batches, and is_tank follows (aggregate_combos.rs:157-205, 254-340).     *)
THEOREM CountsAreExact == Spec => []TablesAreExact
<1> DEFINE Inv == TypeParts /\ RunInv /\ AloneInv /\ MadeInv /\ KnownInv
<1>1. Init => Inv
  <2> SUFFICES ASSUME Init PROVE Inv
    OBVIOUS
  <2>1. RunInv
    BY DEF Init, RunInv, RunFine, Idle
  <2>2. Active = {}
    BY DEF Init, Active, Idle
  <2>3. AloneInv /\ MadeInv
    BY <2>2 DEF AloneInv, MadeInv
  <2>4. ASSUME NEW c \in Carry
        PROVE  /\ \A o \in Combo : RowKnown(comboStats[c][o], runs, counted, c, o)
               /\ CarryKnown(carryStats[c], counted, c)
               /\ TankKnown(carryStats[c], comboStats[c])
    <3>1. \A m \in Match : counted[m] = 0
      BY DEF Init
    <3>2. \A r \in Run : runs[r].pc = "idle"
      BY DEF Init, Idle
    <3>3. ASSUME NEW o \in Combo PROVE RowKnown(comboStats[c][o], runs, counted, c, o)
      <4>1. UnderWay(runs, PicksIn(c, o), c, o) = 0 /\ UnderWay(runs, PlacesIn(c, o), c, o) = 0
        BY <3>2, ShareOutside, UnderWayNone
      <4>2. Times(counted, PicksIn(c, o)) = 0 /\ Times(counted, PlacesIn(c, o)) = 0
        BY <3>1, RowsAdd, TimesZero
      <4>3. comboStats[c][o] = NoComboRow
        BY DEF Init, NoComboRows
      <4> QED
        BY <4>1, <4>2, <4>3 DEF RowKnown, NoComboRow
    <3>4. Times(counted, TotalIn(c)) = 0 /\ Times(counted, ThreeIn(c)) = 0
      BY <3>1, UnitsAdd, TimesZero
    <3>5. carryStats[c] = NoCarryRow
      BY DEF Init, NoCarryRows
    <3> DEFINE picks == [o \in Combo |-> comboStats[c][o].picks]
    <3>6. \A o \in Combo : picks[o] = 0
      BY DEF Init, NoComboRows, NoComboRow
    <3> HIDE DEF picks
    <3>7. FALSE \in TankAnswers(picks)
      BY <3>6, NoTank
    <3>8. carryStats[c].isTank = FALSE
      BY <3>5 DEF NoCarryRow
    <3>9. TankKnown(carryStats[c], comboStats[c])
      BY <3>7, <3>8, Zenon DEF TankKnown, picks
    <3> QED
      BY <3>3, <3>4, <3>5, <3>9 DEF CarryKnown, NoCarryRow
  <2> QED
    BY <2>1, <2>3, <2>4, TypeInit DEF KnownInv
<1>2. Inv /\ [Next]_vars => Inv'
  BY TypeKept, RunKept, AloneKept, MadeKept, KnownKept
<1>3. Inv => TablesAreExact
  <2> SUFFICES ASSUME Inv, clean, Active = {}, NEW c \in Carry
               PROVE  /\ \A o \in Combo :
                           /\ comboStats[c][o].picks = TimesCounted(PicksIn(c, o))
                           /\ comboStats[c][o].sum = TimesCounted(PlacesIn(c, o))
                      /\ carryStats[c].total = TimesCounted(TotalIn(c))
                      /\ carryStats[c].three = TimesCounted(ThreeIn(c))
                      /\ carryStats[c].isTank \in TankAnswers([o \in Combo |-> comboStats[c][o].picks])
    BY DEF TablesAreExact
  <2>1. Untouched /\ Fresh /\ \A r \in Run : runs[r].pc = "idle"
    BY DEF Untouched, Fresh, Active
  <2>2. /\ \A o \in Combo : RowKnown(comboStats[c][o], runs, counted, c, o)
        /\ CarryKnown(carryStats[c], counted, c) /\ TankKnown(carryStats[c], comboStats[c])
    BY <2>1 DEF KnownInv
  <2>3. ASSUME NEW o \in Combo
        PROVE  /\ comboStats[c][o].picks = TimesCounted(PicksIn(c, o))
               /\ comboStats[c][o].sum = TimesCounted(PlacesIn(c, o))
    <3>1. UnderWay(runs, PicksIn(c, o), c, o) = 0 /\ UnderWay(runs, PlacesIn(c, o), c, o) = 0
      BY <2>1, ShareOutside, UnderWayNone
    <3>2. Times(counted, PicksIn(c, o)) \in Nat /\ Times(counted, PlacesIn(c, o)) \in Nat
      BY TimesTypes DEF TypeParts
    <3>3. /\ comboStats[c][o].picks = Times(counted, PicksIn(c, o))
          /\ comboStats[c][o].sum = Times(counted, PlacesIn(c, o))
      BY <2>2, <3>1, <3>2 DEF RowKnown
    <3> QED
      BY <3>3 DEF Times, TimesCounted
  <2> QED
    BY <2>2, <2>3 DEF CarryKnown, TankKnown, Times, TimesCounted
<1> QED
  BY <1>1, <1>2, <1>3, PTL DEF Spec

----------------------------------------------------------------------------
(* The answers of the quizzes.  Means are fractions, compared by            *)
(* multiplying across.                                                      *)

LEMMA Cancel ==
  ASSUME NEW x \in Int, NEW y \in Int, NEW d \in Int, d > 0, x * d <= y * d
  PROVE  x <= y
BY Z3

(* The fraction a / b is at most c / d. *)
Below(a, b, c, d) == a * d <= c * b

LEMMA BelowOrder ==
  ASSUME NEW a \in Nat, NEW b \in Nat \ {0}, NEW c \in Nat, NEW d \in Nat \ {0},
         NEW e \in Nat, NEW f \in Nat \ {0}, Below(a, b, c, d), Below(c, d, e, f)
  PROVE  Below(a, b, e, f)
<1>1. (a * d) * f <= (c * b) * f
  BY SMT DEF Below
<1>2. (c * f) * b <= (e * d) * b
  BY SMT DEF Below
<1>3. (a * f) * d <= (e * b) * d
  BY <1>1, <1>2, SMT
<1>4. a * f \in Int /\ e * b \in Int /\ d \in Int /\ d > 0
  OBVIOUS
<1> QED
  BY <1>3, <1>4, Cancel DEF Below

LEMMA BelowTotal ==
  ASSUME NEW a \in Nat, NEW b \in Nat \ {0}, NEW c \in Nat, NEW d \in Nat \ {0}
  PROVE  Below(a, b, c, d) \/ Below(c, d, a, b)
<1>1. a * d \in Int /\ c * b \in Int
  OBVIOUS
<1> QED
  BY <1>1 DEF Below

(* Of several fractions one is the first of the least: what Answer chooses. *)
FirstLeast(num, den, k, i) ==
  /\ i \in 1 .. k
  /\ \A j \in 1 .. i - 1 : ~Below(num[j], den[j], num[i], den[i])
  /\ \A j \in i + 1 .. k : Below(num[i], den[i], num[j], den[j])

LEMMA FirstLeastExtends ==
  ASSUME NEW n \in Nat, NEW num \in [1 .. n -> Nat], NEW den \in [1 .. n -> Nat \ {0}],
         NEW k \in 1 .. n - 1, NEW i, FirstLeast(num, den, k, i)
  PROVE  FirstLeast(num, den, k + 1, i) \/ FirstLeast(num, den, k + 1, k + 1)
<1>1. i \in 1 .. k /\ i \in 1 .. n /\ k \in Nat /\ k + 1 \in 1 .. n
  BY DEF FirstLeast
<1>2. num[i] \in Nat /\ den[i] \in Nat \ {0} /\ num[k + 1] \in Nat /\ den[k + 1] \in Nat \ {0}
  BY <1>1
<1>3. CASE Below(num[i], den[i], num[k + 1], den[k + 1])
  <2>1. ASSUME NEW j \in i + 1 .. k + 1 PROVE Below(num[i], den[i], num[j], den[j])
    <3>1. j = k + 1 \/ j \in i + 1 .. k
      BY <1>1
    <3> QED
      BY <1>3, <3>1 DEF FirstLeast
  <2>2. i \in 1 .. k + 1
    BY <1>1
  <2> QED
    BY <2>1, <2>2 DEF FirstLeast
<1>4. CASE ~Below(num[i], den[i], num[k + 1], den[k + 1])
  <2>1. ASSUME NEW j \in 1 .. k, Below(num[j], den[j], num[k + 1], den[k + 1]) PROVE FALSE
    <3>1. num[j] \in Nat /\ den[j] \in Nat \ {0} /\ j \in Nat
      BY <1>1
    <3>2. Below(num[i], den[i], num[j], den[j])
      <4>1. CASE j < i
        <5>1. ~Below(num[j], den[j], num[i], den[i])
          BY <1>1, <3>1, <4>1 DEF FirstLeast
        <5> QED
          BY <1>2, <3>1, <5>1, BelowTotal
      <4>2. CASE j = i
        BY <1>2, <4>2, BelowTotal
      <4>3. CASE j > i
        BY <1>1, <3>1, <4>3 DEF FirstLeast
      <4> QED
        BY <1>1, <3>1, <4>1, <4>2, <4>3
    <3>3. Below(num[i], den[i], num[k + 1], den[k + 1])
      <4> DEFINE a == num[i]  b == den[i]  c == num[j]  d == den[j]  e == num[k + 1]  f == den[k + 1]
      <4>1. /\ a \in Nat /\ b \in Nat \ {0} /\ c \in Nat /\ d \in Nat \ {0}
            /\ e \in Nat /\ f \in Nat \ {0}
        BY <1>2, <3>1
      <4>2. Below(a, b, c, d) /\ Below(c, d, e, f)
        BY <2>1, <3>2
      <4> HIDE DEF a, b, c, d, e, f
      <4>3. Below(a, b, e, f)
        BY <4>1, <4>2, BelowOrder
      <4> QED
        BY <4>3 DEF a, b, e, f
    <3> QED
      BY <1>4, <3>3
  <2>2. k + 1 \in 1 .. k + 1 /\ (k + 1) + 1 .. k + 1 = {} /\ (k + 1) - 1 = k
    BY <1>1
  <2>3. FirstLeast(num, den, k + 1, k + 1)
    BY <2>1, <2>2 DEF FirstLeast
  <2> QED
    BY <2>3
<1> QED
  BY <1>3, <1>4

LEMMA FirstLeastExists ==
  ASSUME NEW n \in Nat \ {0}, NEW num \in [1 .. n -> Nat], NEW den \in [1 .. n -> Nat \ {0}]
  PROVE  \E i : FirstLeast(num, den, n, i)
<1> DEFINE Without == {k \in 1 .. n : ~\E i : FirstLeast(num, den, k, i)}
<1>1. CASE Without = {}
  <2>1. n \in 1 .. n
    OBVIOUS
  <2> QED
    BY <1>1, <2>1
<1>2. CASE Without # {}
  <2>1. PICK k \in Without : \A l \in Without : k <= l
    <3>1. Without \in SUBSET Nat
      OBVIOUS
    <3> HIDE DEF Without
    <3> QED
      BY <1>2, <3>1, LeastNat
  <2>2. CASE k = 1
    <3>1. FirstLeast(num, den, 1, 1)
      BY DEF FirstLeast
    <3> QED
      BY <2>2, <3>1
  <2>3. CASE k # 1
    <3>1. k - 1 \in 1 .. n - 1 /\ k - 1 \in 1 .. n /\ (k - 1) + 1 = k /\ ~(k <= k - 1)
      BY <2>3
    <3>2. PICK i : FirstLeast(num, den, k - 1, i)
      BY <2>1, <3>1
    <3>3. FirstLeast(num, den, k, i) \/ FirstLeast(num, den, k, k)
      BY <3>1, <3>2, FirstLeastExtends
    <3> QED
      BY <3>3
  <2> QED
    BY <2>2, <2>3
<1> QED
  BY <1>1, <1>2

(* What does not rise from one place to the next does not rise at all.      *)
LEMMA Descending ==
  ASSUME NEW n \in Nat, NEW f \in [1 .. n -> Nat], \A i \in 1 .. n - 1 : f[i] >= f[i + 1],
         NEW i \in 1 .. n, NEW j \in i .. n
  PROVE  f[i] >= f[j]
<1> DEFINE Higher == {k \in i .. n : f[k] > f[i]}
<1>1. CASE Higher = {}
  <2>1. j \in 1 .. n /\ j \notin Higher
    BY <1>1
  <2>2. f[i] \in Nat /\ f[j] \in Nat /\ ~(f[j] > f[i])
    BY <2>1
  <2> QED
    BY <2>2
<1>2. CASE Higher # {}
  <2>1. PICK k \in Higher : \A l \in Higher : k <= l
    <3>1. Higher \in SUBSET Nat
      OBVIOUS
    <3> HIDE DEF Higher
    <3> QED
      BY <1>2, <3>1, LeastNat
  <2>2. k # i /\ k \in i .. n /\ f[i] \in Nat
    BY <2>1
  <2>3. k - 1 \in i .. n /\ k - 1 \in 1 .. n - 1 /\ (k - 1) + 1 = k /\ ~(k <= k - 1)
    BY <2>2
  <2>4. f[k - 1] >= f[k] /\ f[k - 1] \in Nat /\ f[k] \in Nat /\ ~(f[k - 1] > f[i])
    BY <2>1, <2>2, <2>3
  <2> QED
    BY <2>1, <2>2, <2>4
<1> QED
  BY <1>1, <1>2

(* The best ranks are those of the listed combinations.                     *)
LEMMA BestListed ==
  ASSUME TypeParts, NEW c \in Carry, NEW s \in Orders,
         \A i \in 1 .. Len(s) - 1 : comboStats[c][s[i]].picks >= comboStats[c][s[i + 1]].picks
  PROVE  /\ Cardinality(Listed(c)) \in Nat /\ Cardinality(Listed(c)) <= Cardinality(Combo)
         /\ s \in [1 .. Cardinality(Combo) -> Combo]
         /\ \A i, j \in 1 .. Cardinality(Combo) : s[i] = s[j] => i = j
         /\ \A i \in 1 .. Cardinality(Listed(c)) : s[i] \in Listed(c)
<1> DEFINE n == Cardinality(Combo)
           among == Cardinality(Listed(c))
<1>1. n \in Nat /\ IsFiniteSet(Combo)
  BY BoardAssumption, FS_CardinalityType
<1>2. s \in [1 .. n -> Combo] /\ \A i, j \in 1 .. n : i # j => s[i] # s[j]
  BY DEF Orders, SetToSeqs
<1>3. IsFiniteSet(Listed(c)) /\ among \in Nat /\ among <= n
  BY <1>1, FS_Subset, FS_CardinalityType DEF Listed
<1>4. Len(s) = n
  BY <1>1, <1>2
<1>5. \A o \in Combo : \E i \in 1 .. n : s[i] = o
  <2>1. IsFiniteSet(1 .. n) /\ Cardinality(1 .. n) = n
    BY <1>1, FS_Interval
  <2>2. s \in Injection(1 .. n, Combo)
    BY <1>2, Fun_IsInj
  <2>3. s \in Surjection(1 .. n, Combo)
    BY <1>1, <2>1, <2>2, FS_Injection
  <2> DEFINE places == 1 .. n
  <2>4. s \in Surjection(places, Combo)
    BY <2>3
  <2> HIDE DEF places
  <2>5. \A o \in Combo : \E i \in places : s[i] = o
    BY <2>4, Fun_SurjectionProperties
  <2> QED
    BY <2>5 DEF places
<1> DEFINE f == [i \in 1 .. n |-> comboStats[c][s[i]].picks]
<1>6. f \in [1 .. n -> Nat]
  BY <1>2 DEF TypeParts, ComboRowType
<1>7. \A i \in 1 .. n - 1 : f[i] >= f[i + 1]
  BY <1>1, <1>2, <1>4
<1>8. \A i \in 1 .. n : f[i] = comboStats[c][s[i]].picks
  OBVIOUS
<1> HIDE DEF n, among, f
<1>9. ASSUME NEW i \in 1 .. among, s[i] \notin Listed(c) PROVE FALSE
  <2>1. i \in 1 .. n /\ i \in Nat /\ s[i] \in Combo
    BY <1>1, <1>2, <1>3
  <2>2. ASSUME NEW o \in Listed(c) PROVE \E j \in 1 .. i - 1 : s[j] = o
    <3>1. o \in Combo /\ comboStats[c][o].picks >= MinPicks
      BY DEF Listed
    <3>2. PICK j \in 1 .. n : s[j] = o
      BY <1>5, <3>1
    <3>3. ASSUME j \in i .. n PROVE FALSE
      <4>1. f[i] >= f[j]
        BY <1>1, <1>6, <1>7, <2>1, <3>3, Descending
      <4>2. f[i] \in Nat /\ f[j] \in Nat /\ f[j] >= MinPicks /\ ~(f[i] >= MinPicks)
        BY <1>6, <1>8, <1>9, <2>1, <3>1, <3>2 DEF Listed
      <4> QED
        BY <4>1, <4>2, BoardAssumption
    <3> QED
      BY <1>1, <2>1, <3>2, <3>3
  <2> DEFINE place == [o \in Listed(c) |-> CHOOSE j \in 1 .. i - 1 : s[j] = o]
  <2>3. \A o \in Listed(c) : place[o] \in 1 .. i - 1 /\ s[place[o]] = o
    BY <2>2
  <2>4. place \in Injection(Listed(c), 1 .. i - 1)
    <3>1. place \in [Listed(c) -> 1 .. i - 1]
      BY <2>3
    <3>2. \A o, q \in Listed(c) : place[o] = place[q] => o = q
      BY <2>3
    <3> HIDE DEF place
    <3> QED
      BY <3>1, <3>2, Fun_IsInj
  <2> HIDE DEF place
  <2>5. IsFiniteSet(1 .. i - 1) /\ Cardinality(1 .. i - 1) = i - 1
    BY <2>1, FS_Interval
  <2>6. among <= i - 1
    BY <2>4, <2>5, FS_Injection DEF among
  <2> QED
    BY <1>3, <2>1, <2>6
<1> QED
  BY <1>2, <1>3, <1>9 DEF n, among

(* The options of a quiz: some PerQuiz ranks one after another.             *)
OptionsFrom(ranked, lo) == SubSeq(ranked, lo + 1, lo + PerQuiz)

LEMMA OptionsAre ==
  ASSUME TypeParts, NEW c \in Carry, Cardinality(Listed(c)) >= MinCombos, NEW ranked \in Rankings(c)
  PROVE  /\ \A i, j \in 1 .. MinCombos : ranked[i] = ranked[j] => i = j
         /\ \A lo \in 0 .. MinCombos - PerQuiz :
              LET options == OptionsFrom(ranked, lo)
              IN  /\ options \in [1 .. PerQuiz -> Listed(c)] /\ Len(options) = PerQuiz
                  /\ \A i \in 1 .. PerQuiz : options[i] = ranked[lo + i]
         /\ MainOptions(ranked) = OptionsFrom(ranked, 0)
         /\ VariantOptions(ranked) = OptionsFrom(ranked, MinCombos - PerQuiz)
         /\ MinCombos \in Nat /\ PerQuiz \in Nat \ {0} /\ MinCombos - PerQuiz \in Nat
<1> DEFINE n == Cardinality(Combo)
           among == Cardinality(Listed(c))
<1>1. MinCombos \in Nat /\ PerQuiz \in Nat \ {0} /\ MinCombos - PerQuiz \in Nat
  BY BoardAssumption
<1>2. PICK s \in Orders :
        /\ \A i \in 1 .. Len(s) - 1 : comboStats[c][s[i]].picks >= comboStats[c][s[i + 1]].picks
        /\ ranked = SubSeq(s, 1, among)
  <2>1. \A s \in Orders : \A i \in 1 .. Len(s) - 1 : s[i] \in Combo /\ s[i + 1] \in Combo
    <3>1. n \in Nat
      BY BoardAssumption, FS_CardinalityType
    <3>2. \A s \in Orders : s \in [1 .. n -> Combo]
      BY DEF Orders, SetToSeqs
    <3> HIDE DEF n
    <3> QED
      BY <3>1, <3>2
  <2> QED
    BY <2>1 DEF Rankings
<1>3. /\ among \in Nat /\ among <= n /\ n \in Nat
      /\ s \in [1 .. n -> Combo] /\ \A i, j \in 1 .. n : s[i] = s[j] => i = j
      /\ \A i \in 1 .. among : s[i] \in Listed(c)
  <2>1. n \in Nat
    BY BoardAssumption, FS_CardinalityType
  <2> QED
    BY <1>2, <2>1, BestListed
<1>4. among >= MinCombos
  OBVIOUS
<1> HIDE DEF n, among
<1>5. \A i \in 1 .. among : ranked[i] = s[i]
  <2>1. \A i \in 1 .. among - 1 + 1 : SubSeq(s, 1, among)[i] = s[1 + i - 1]
    <3>1. among \in Int /\ \A i \in 1 .. among : s[i] \in Listed(c)
      BY <1>3
    <3> QED
      BY <3>1, SubSeqProperties
  <2> QED
    BY <1>2, <1>3, <2>1
<1>6. \A i, j \in 1 .. MinCombos : ranked[i] = ranked[j] => i = j
  BY <1>1, <1>3, <1>4, <1>5
<1>7. ASSUME NEW lo \in 0 .. MinCombos - PerQuiz
      PROVE  LET options == OptionsFrom(ranked, lo)
             IN  /\ options \in [1 .. PerQuiz -> Listed(c)] /\ Len(options) = PerQuiz
                 /\ \A i \in 1 .. PerQuiz : options[i] = ranked[lo + i]
  <2> DEFINE options == OptionsFrom(ranked, lo)
             m == lo + 1
             k == lo + PerQuiz
  <2>1. m \in Int /\ k \in Int /\ m <= k /\ k - m + 1 = PerQuiz
    BY <1>1
  <2>2. \A i \in m .. k : ranked[i] \in Listed(c)
    BY <1>1, <1>3, <1>4, <1>5
  <2>3. \A i \in 1 .. PerQuiz : m + i - 1 = lo + i
    BY <1>1
  <2>4. options = SubSeq(ranked, m, k)
    BY DEF OptionsFrom
  <2> HIDE DEF options, m, k
  <2>5. /\ options \in Seq(Listed(c)) /\ Len(options) = PerQuiz
        /\ \A i \in 1 .. PerQuiz : options[i] = ranked[m + i - 1]
    BY <2>1, <2>2, <2>4, SubSeqProperties
  <2>6. options \in [1 .. PerQuiz -> Listed(c)]
    BY <2>5
  <2> QED
    BY <2>3, <2>5, <2>6 DEF options
<1>8. MainOptions(ranked) = OptionsFrom(ranked, 0)
  BY <1>1 DEF MainOptions, OptionsFrom
<1>9. VariantOptions(ranked) = OptionsFrom(ranked, MinCombos - PerQuiz)
  <2>1. MinCombos - PerQuiz + PerQuiz = MinCombos
    BY <1>1
  <2> QED
    BY <2>1 DEF VariantOptions, OptionsFrom
<1> QED
  BY <1>1, <1>6, <1>7, <1>8, <1>9

(* The prior is a fraction.                                                 *)
LEMMA PriorIs ==
  ASSUME TypeParts, NEW c \in Carry, Cardinality(Listed(c)) >= MinCombos
  PROVE  \E R \in Nat, P \in Nat \ {0} : Prior(c) = <<R, P>>
<1> DEFINE sums == [o \in Combo |-> comboStats[c][o].sum]
           picks == [o \in Combo |-> comboStats[c][o].picks]
           S == Listed(c)
<1>1. IsFiniteSet(S) /\ S \subseteq Combo
  BY BoardAssumption, FS_Subset DEF Listed
<1>2. S # {}
  BY BoardAssumption, FS_EmptySet
<1>3. \A o \in S : sums[o] \in Nat /\ picks[o] \in Nat /\ picks[o] >= MinPicks
  BY DEF TypeParts, ComboRowType, Listed
<1>4. Prior(c) = <<SumFunctionOnSet(sums, S), SumFunctionOnSet(picks, S)>>
  BY DEF Prior, PriorOf
<1> HIDE DEF sums, picks, S
<1>5. SumFunctionOnSet(sums, S) \in Nat /\ SumFunctionOnSet(picks, S) \in Nat
  BY <1>1, <1>3, SumType
<1>6. PICK o \in S : TRUE
  BY <1>2
<1>7. picks[o] <= SumFunctionOnSet(picks, S)
  BY <1>1, <1>3, SumAtLeast
<1>8. SumFunctionOnSet(picks, S) # 0
  BY <1>3, <1>5, <1>7, BoardAssumption
<1> QED
  BY <1>4, <1>5, <1>8

Num(c, o, prior) == comboStats[c][o].sum * prior[2] + prior[1] * Shrink
Den(c, o) == comboStats[c][o].picks + Shrink

LEMMA AtMostIs ==
  ASSUME NEW c, NEW o, NEW q, NEW prior
  PROVE  AtMost(c, o, q, prior) <=> Below(Num(c, o, prior), Den(c, o), Num(c, q, prior), Den(c, q))
BY DEF AtMost, Below, Num, Den

LEMMA FractionsType ==
  ASSUME TypeParts, NEW c \in Carry, NEW o \in Listed(c), NEW R \in Nat, NEW P \in Nat \ {0}
  PROVE  /\ Num(c, o, <<R, P>>) \in Nat /\ Den(c, o) \in Nat \ {0}
         /\ comboStats[c][o].sum \in Nat /\ comboStats[c][o].picks \in Nat \ {0} /\ Shrink \in Nat
<1>1. Shrink \in Nat /\ MinPicks \in Nat \ {0}
  BY BoardAssumption
<1>2. comboStats[c][o].sum \in Nat /\ comboStats[c][o].picks \in Nat /\ comboStats[c][o].picks >= MinPicks
  BY DEF TypeParts, ComboRowType, Listed
<1>3. <<R, P>>[1] = R /\ <<R, P>>[2] = P
  OBVIOUS
<1>4. comboStats[c][o].sum * P \in Nat /\ R * Shrink \in Nat
  BY <1>1, <1>2
<1> QED
  BY <1>1, <1>2, <1>3, <1>4 DEF Num, Den

AnswerAt(c, prior, options, n, i) ==
  /\ i \in 1 .. n
  /\ \A j \in 1 .. i - 1 : ~AtMost(c, options[j], options[i], prior)
  /\ \A j \in i + 1 .. n : AtMost(c, options[i], options[j], prior)

LEMMA AnswerIs ==
  ASSUME TypeParts, NEW c \in Carry, NEW n \in Nat \ {0},
         NEW options \in [1 .. n -> Listed(c)], Len(options) = n,
         NEW R \in Nat, NEW P \in Nat \ {0}
  PROVE  \E i : AnswerAt(c, <<R, P>>, options, n, i) /\ Answer(c, <<R, P>>, options) = options[i]
<1> DEFINE prior == <<R, P>>
           num == [i \in 1 .. n |-> Num(c, options[i], prior)]
           den == [i \in 1 .. n |-> Den(c, options[i])]
<1>1. num \in [1 .. n -> Nat] /\ den \in [1 .. n -> Nat \ {0}]
  BY FractionsType
<1>2. \A i, j \in 1 .. n :
        AtMost(c, options[i], options[j], prior) <=> Below(num[i], den[i], num[j], den[j])
  BY AtMostIs
<1> HIDE DEF num, den, prior
<1>3. PICK i : FirstLeast(num, den, n, i)
  BY <1>1, FirstLeastExists
<1>4. AnswerAt(c, prior, options, n, i)
  BY <1>2, <1>3 DEF FirstLeast, AnswerAt
<1>5. DOMAIN options = 1 .. n
  OBVIOUS
<1> DEFINE k == CHOOSE k \in 1 .. n :
                  /\ \A j \in 1 .. k - 1 : ~AtMost(c, options[j], options[k], prior)
                  /\ \A j \in k + 1 .. n : AtMost(c, options[k], options[j], prior)
<1>6. AnswerAt(c, prior, options, n, k)
  BY <1>4 DEF AnswerAt
<1>7. Answer(c, prior, options) = options[k]
  BY <1>5 DEF Answer
<1> QED
  BY <1>6, <1>7 DEF prior

(* The two quizzes of a carry share options: what one calls the best is not *)
(* beaten in the other by an option both have, for both shrink to the one   *)
(* prior of the carry (combo_quiz_gen.rs:171-213).                          *)
THEOREM AnswersAgree == Spec => []QuizzesAgree
<1>1. TypeParts => QuizzesAgree
  <2> SUFFICES ASSUME TypeParts, NEW c \in Carry, Cardinality(Listed(c)) >= MinCombos,
                      NEW ranked \in Rankings(c),
                      {Answer(c, Prior(c), MainOptions(ranked)), Answer(c, Prior(c), VariantOptions(ranked))}
                        \subseteq ToSet(MainOptions(ranked)) \cap ToSet(VariantOptions(ranked))
               PROVE  Answer(c, Prior(c), MainOptions(ranked)) = Answer(c, Prior(c), VariantOptions(ranked))
    BY DEF QuizzesAgree
  <2> DEFINE off == MinCombos - PerQuiz
             prior == Prior(c)
             main == OptionsFrom(ranked, 0)
             variant == OptionsFrom(ranked, off)
  <2>1. PICK R \in Nat, P \in Nat \ {0} : prior = <<R, P>>
    BY PriorIs
  <2>2. MinCombos \in Nat /\ PerQuiz \in Nat \ {0} /\ off \in Nat /\ off + PerQuiz = MinCombos
    BY OptionsAre
  <2>3. \A i, j \in 1 .. MinCombos : ranked[i] = ranked[j] => i = j
    BY OptionsAre
  <2>4. /\ main \in [1 .. PerQuiz -> Listed(c)] /\ Len(main) = PerQuiz
        /\ \A i \in 1 .. PerQuiz : main[i] = ranked[i]
    <3>1. 0 \in 0 .. off /\ \A i \in 1 .. PerQuiz : 0 + i = i
      BY <2>2
    <3> QED
      BY <3>1, OptionsAre
  <2>5. /\ variant \in [1 .. PerQuiz -> Listed(c)] /\ Len(variant) = PerQuiz
        /\ \A i \in 1 .. PerQuiz : variant[i] = ranked[off + i]
    <3>1. off \in 0 .. off
      BY <2>2
    <3> QED
      BY <3>1, OptionsAre
  <2>6. MainOptions(ranked) = main /\ VariantOptions(ranked) = variant
    BY OptionsAre
  <2> HIDE DEF off, prior, main, variant
  <2> PerQuiz \in Nat \ {0}
    BY <2>2
  <2>7. PICK i : AnswerAt(c, prior, main, PerQuiz, i) /\ Answer(c, prior, main) = main[i]
    BY <2>1, <2>4, AnswerIs
  <2>8. PICK j : AnswerAt(c, prior, variant, PerQuiz, j) /\ Answer(c, prior, variant) = variant[j]
    BY <2>1, <2>5, AnswerIs
  <2>9. i \in 1 .. PerQuiz /\ j \in 1 .. PerQuiz
    BY <2>7, <2>8 DEF AnswerAt
  <2>10. PICK k \in 1 .. PerQuiz : variant[k] = main[i]
    BY <2>5, <2>6, <2>7 DEF ToSet, prior
  <2>11. PICK l \in 1 .. PerQuiz : main[l] = variant[j]
    BY <2>4, <2>6, <2>8 DEF ToSet, prior
  <2>12. off + k = i /\ off + j = l
    <3>1. ranked[off + k] = ranked[i] /\ ranked[l] = ranked[off + j]
      BY <2>4, <2>5, <2>9, <2>10, <2>11
    <3>2. {off + k, off + j, i, l} \subseteq 1 .. MinCombos
      BY <2>2, <2>9
    <3> QED
      BY <2>3, <3>1, <3>2
  <2>13. CASE i = l
    BY <2>6, <2>7, <2>8, <2>11, <2>13 DEF prior
  <2>14. CASE i < l
    <3>1. k < j /\ k \in 1 .. j - 1
      BY <2>2, <2>9, <2>12, <2>14
    <3>2. ~AtMost(c, variant[k], variant[j], prior)
      BY <2>8, <3>1 DEF AnswerAt
    <3>3. l \in i + 1 .. PerQuiz
      BY <2>9, <2>14
    <3>4. AtMost(c, main[i], main[l], prior)
      BY <2>7, <3>3 DEF AnswerAt
    <3> QED
      BY <2>10, <2>11, <3>2, <3>4
  <2>15. CASE l < i
    <3>1. j < k /\ k \in j + 1 .. PerQuiz
      BY <2>2, <2>9, <2>12, <2>15
    <3>2. AtMost(c, variant[j], variant[k], prior)
      BY <2>8, <3>1 DEF AnswerAt
    <3>3. l \in 1 .. i - 1
      BY <2>9, <2>15
    <3>4. ~AtMost(c, main[l], main[i], prior)
      BY <2>7, <3>3 DEF AnswerAt
    <3> QED
      BY <2>10, <2>11, <3>2, <3>4
  <2> QED
    BY <2>9, <2>13, <2>14, <2>15
<1>2. TypeOK => QuizzesAgree
  BY <1>1, TypeInParts
<1> QED
  BY <1>2, TypeCorrect, PTL

(* If an answer is no worse than an option at or below the prior, it is at  *)
(* or below the prior itself.                                               *)
LEMMA NotWorse ==
  ASSUME NEW aS \in Nat, NEW aN \in Nat \ {0}, NEW oS \in Nat, NEW oN \in Nat \ {0},
         NEW R \in Nat, NEW P \in Nat \ {0}, NEW S \in Nat,
         Below(aS * P + R * S, aN + S, oS * P + R * S, oN + S), oS * P <= R * oN
  PROVE  aS * P <= R * aN
<1>1. (oS * P + R * S) * (aN + S) <= (R * oN + R * S) * (aN + S)
  BY SMT
<1>2. (R * oN + R * S) * (aN + S) = (R * (aN + S)) * (oN + S)
  BY SMT
<1>3. (aS * P + R * S) * (oN + S) <= (R * (aN + S)) * (oN + S)
  BY <1>1, <1>2, SMT DEF Below
<1>4. aS * P + R * S \in Int /\ R * (aN + S) \in Int /\ oN + S \in Int /\ oN + S > 0
  OBVIOUS
<1>5. aS * P + R * S <= R * (aN + S)
  BY <1>3, <1>4, Cancel
<1> QED
  BY <1>5, SMT

(* And then no option with as many picks has a better mean: shrinking it    *)
(* from below by less would leave it the better one.                        *)
LEMMA NotDominated ==
  ASSUME NEW aS \in Nat, NEW aN \in Nat \ {0}, NEW rS \in Nat, NEW rN \in Nat \ {0},
         NEW R \in Nat, NEW P \in Nat \ {0}, NEW S \in Nat,
         Below(aS * P + R * S, aN + S, rS * P + R * S, rN + S), aS * P <= R * aN,
         rS * aN < aS * rN, rN >= aN
  PROVE  FALSE
<1> DEFINE gain == P * (aS * rN - rS * aN)
           turn == (aS - rS) * P + R * (rN - aN)
<1>1. gain + S * turn <= 0
  BY SMT DEF Below
<1>2. gain > 0
  BY SMT
<1>3. (R * aN) * (rN - aN) >= (aS * P) * (rN - aN)
  BY SMT
<1>4. P * (aS * aN - rS * aN) >= P * (aS * aN - aS * rN)
  BY SMT
<1>5. turn * aN >= 0
  BY <1>3, <1>4, SMT
<1>6. turn >= 0
  BY <1>5, SMT
<1>7. S * turn >= 0
  BY <1>6, SMT
<1> QED
  BY <1>1, <1>2, <1>7

(* Shrinking towards the prior does not turn the order: no option with a    *)
(* better mean place and as many picks as the answer, unless every option   *)
(* is worse than the prior (combo_quiz_gen.rs:17-31).                       *)
THEOREM AnswersStand == Spec => []AnswerNotDominated
<1> DEFINE Fair(c, prior, options) ==
      LET a == comboStats[c][Answer(c, prior, options)]
      IN  (\E o \in ToSet(options) : comboStats[c][o].sum * prior[2] <= prior[1] * comboStats[c][o].picks)
          => \A o \in ToSet(options) :
               LET row == comboStats[c][o]
               IN  ~(row.sum * a.picks < a.sum * row.picks /\ row.picks >= a.picks)
<1>1. ASSUME TypeParts, NEW c \in Carry, NEW R \in Nat, NEW P \in Nat \ {0}, NEW n \in Nat \ {0},
             NEW options \in [1 .. n -> Listed(c)], Len(options) = n
      PROVE  Fair(c, <<R, P>>, options)
  <2> DEFINE prior == <<R, P>>
  <2>1. PICK i : AnswerAt(c, prior, options, n, i) /\ Answer(c, prior, options) = options[i]
    BY <1>1, AnswerIs
  <2>2. i \in 1 .. n /\ options[i] \in Listed(c)
    BY <2>1 DEF AnswerAt
  <2>3. ASSUME NEW j \in 1 .. n
        PROVE  Below(Num(c, options[i], prior), Den(c, options[i]), Num(c, options[j], prior), Den(c, options[j]))
    <3> DEFINE a == options[i]
               o == options[j]
    <3>1. /\ Num(c, a, prior) \in Nat /\ Den(c, a) \in Nat \ {0}
          /\ Num(c, o, prior) \in Nat /\ Den(c, o) \in Nat \ {0}
      BY <1>1, <2>2, FractionsType
    <3>2. CASE j = i
      BY <3>1, <3>2, BelowTotal
    <3>3. CASE j < i
      <4>1. ~AtMost(c, o, a, prior)
        BY <2>1, <2>2, <3>3 DEF AnswerAt
      <4>2. ~Below(Num(c, o, prior), Den(c, o), Num(c, a, prior), Den(c, a))
        BY <4>1, AtMostIs
      <4> HIDE DEF a, o, prior
      <4>3. Below(Num(c, a, prior), Den(c, a), Num(c, o, prior), Den(c, o))
        BY <3>1, <4>2, BelowTotal
      <4> QED
        BY <4>3 DEF a, o
    <3>4. CASE j > i
      <4>1. AtMost(c, a, o, prior)
        BY <2>1, <2>2, <3>4 DEF AnswerAt
      <4> QED
        BY <4>1, AtMostIs
    <3> QED
      BY <2>2, <3>2, <3>3, <3>4
  <2>4. prior[1] = R /\ prior[2] = P
    OBVIOUS
  <2>5. ToSet(options) = {options[j] : j \in 1 .. n}
    BY DEF ToSet
  <2> HIDE DEF prior
  <2> SUFFICES ASSUME NEW j \in 1 .. n, NEW k \in 1 .. n,
                      comboStats[c][options[j]].sum * P <= R * comboStats[c][options[j]].picks,
                      comboStats[c][options[k]].sum * comboStats[c][options[i]].picks
                        < comboStats[c][options[i]].sum * comboStats[c][options[k]].picks,
                      comboStats[c][options[k]].picks >= comboStats[c][options[i]].picks
               PROVE  FALSE
    BY <2>1, <2>4, <2>5 DEF prior
  <2> DEFINE aS == comboStats[c][options[i]].sum  aN == comboStats[c][options[i]].picks
             oS == comboStats[c][options[j]].sum  oN == comboStats[c][options[j]].picks
             rS == comboStats[c][options[k]].sum  rN == comboStats[c][options[k]].picks
  <2>6. /\ aS \in Nat /\ aN \in Nat \ {0} /\ oS \in Nat /\ oN \in Nat \ {0}
        /\ rS \in Nat /\ rN \in Nat \ {0} /\ Shrink \in Nat
    BY <1>1, <2>2, FractionsType
  <2>7. /\ Below(aS * P + R * Shrink, aN + Shrink, oS * P + R * Shrink, oN + Shrink)
        /\ Below(aS * P + R * Shrink, aN + Shrink, rS * P + R * Shrink, rN + Shrink)
    BY <2>3, <2>4 DEF Num, Den
  <2>8. oS * P <= R * oN /\ rS * aN < aS * rN /\ rN >= aN
    OBVIOUS
  <2> HIDE DEF aS, aN, oS, oN, rS, rN
  <2>9. aS * P <= R * aN
    BY <2>6, <2>7, <2>8, NotWorse
  <2> QED
    BY <2>6, <2>7, <2>8, <2>9, NotDominated
<1>2. TypeParts => AnswerNotDominated
  <2> SUFFICES ASSUME TypeParts, NEW c \in Carry, Cardinality(Listed(c)) >= MinCombos,
                      NEW ranked \in Rankings(c),
                      NEW options \in {MainOptions(ranked), VariantOptions(ranked)}
               PROVE  Fair(c, Prior(c), options)
    BY DEF AnswerNotDominated
  <2> HIDE DEF Fair
  <2>1. PICK R \in Nat, P \in Nat \ {0} : Prior(c) = <<R, P>>
    BY PriorIs
  <2>2. PICK lo \in 0 .. MinCombos - PerQuiz : options = OptionsFrom(ranked, lo)
    <3>1. 0 \in 0 .. MinCombos - PerQuiz /\ MinCombos - PerQuiz \in 0 .. MinCombos - PerQuiz
      BY BoardAssumption
    <3> QED
      BY <3>1, OptionsAre
  <2>3. options \in [1 .. PerQuiz -> Listed(c)] /\ Len(options) = PerQuiz /\ PerQuiz \in Nat \ {0}
    BY <2>2, OptionsAre
  <2> QED
    BY <1>1, <2>1, <2>3
<1>3. TypeOK => AnswerNotDominated
  BY <1>2, TypeInParts
<1> QED
  BY <1>3, TypeCorrect, PTL
=============================================================================
